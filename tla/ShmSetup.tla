------------------------------ MODULE ShmSetup ------------------------------
(***************************************************************************)
(* Setting up the shared memory of queues (qc_shq_mem.c, qc_shm.c,         *)
(* qc_sem.c and the set-up half of qc_shq_que.c) by a daemon that may be   *)
(* interrupted or killed and started again, and attaching to it from other *)
(* processes at any moment (qc_shque.c).                                   *)
(*                                                                         *)
(* Names outlive processes.  A start of the daemon makes a new memory under*)
(* the old name and, queue by queue, writes the queue's header and makes   *)
(* its two semaphores anew; generation g is what its g-th start made.  An  *)
(* attach maps the memory, walks the headers to its queue and opens the    *)
(* semaphores by the names it reads there, with nothing to tell it that    *)
(* the daemon is not done: nobody reads P_Shmem.status.                    *)
(*                                                                         *)
(* A memory begins as zeros, and a header's fields are written in the order*)
(* of the code (the build may order them otherwise, which only an attach   *)
(* during the creation can see).                                           *)
(***************************************************************************)
EXTENDS Integers, Sequences, FiniteSets

CONSTANTS Attachers,
          Configs,                    \* queues the daemon may be started with:
                                      \*   sequences of [queuesize, msgsize]
          MaxQues,                    \*   of at most so many queues
          ShmemSize, ShmQueSize,      \* sizeof P_Shmem, P_ShmQue,
          CellSize, OffSize, Margin,  \*   _StaticCell, off_t; the safe margin
          MaxStarts                   \* bound: starts of the daemon

ASSUME ShmSetupAssumption ==
    /\ Configs \subseteq Seq([queuesize : Nat \ {0}, msgsize : Nat \ {0}])
    /\ \A cs \in Configs : Len(cs) \in 1..MaxQues
    /\ MaxQues \in Nat
    /\ {ShmemSize, ShmQueSize, CellSize, OffSize, Margin} \subseteq Nat \ {0}
    /\ MaxStarts \in Nat

VARIABLES
    daemon,     \* "down", "step" or "up"
    step,       \* the next step of shm_queue_init: [que, field]
    starts,     \* how often the daemon was started: the latest generation
    shm,        \* the generation under the memory's name, or 0
    sized,      \* whether it has been given its size
    conf,       \* of each generation
    written,    \* of each generation and queue: the header's written fields
    sem,        \* the generation under each semaphore's name, or 0
    created,    \* history: the generations whose creation was finished
    proc        \* the attaching processes

daemonVars == <<daemon, step, starts, sized, conf, written, created>>
vars == <<daemonVars, shm, sem, proc>>

Starts   == 1..MaxStarts
Kinds    == {"que", "lst"}
Fields   == {"quename", "semname_que", "semname_lst", "lists", "next_offset"}

(* What shm_queue_init does to a queue, in its order. *)
SetupOrder ==
    <<<<"write", "quename">>, <<"write", "semname_que">>, <<"write", "semname_lst">>,
      <<"write", "lists">>, <<"write", "next_offset">>,
      <<"unlink", "que">>, <<"create", "que">>, <<"unlink", "lst">>, <<"create", "lst">>>>

Idle == [at |-> "idle", shm |-> 0, want |-> 0, que |-> 0, sem |-> [k \in Kinds |-> 0], late |-> FALSE]

Init == /\ daemon = "down" /\ step = [que |-> 0, field |-> 1]
        /\ starts = 0 /\ created = {}
        /\ shm = 0 /\ sized = FALSE
        /\ conf = <<>>
        /\ written = [g \in Starts |-> [q \in 1..MaxQues |-> {}]]
        /\ sem = [q \in 1..MaxQues |-> [k \in Kinds |-> 0]]
        /\ proc = [p \in Attachers |-> Idle]

-----------------------------------------------------------------------------
(* Layout. *)

DataSize(c) == c.queuesize * (OffSize + c.msgsize)

(* What one queue takes, by shm_queue_init: header, two lists, a margin,   *)
(* the messages, a margin.  (The Mutant has no second margin.)             *)
QueSizeMutant(c) == ShmQueSize + 2 * c.queuesize * CellSize + Margin + DataSize(c)
QueSize(c) == ShmQueSize + 2 * c.queuesize * CellSize + Margin + DataSize(c) + Margin

(* tmp_offset before the q-th queue. *)
Offset(cs, q) ==
    LET upTo[i \in 0..Len(cs)] == IF i = 0 THEN ShmemSize ELSE upTo[i - 1] + QueSize(cs[i])
    IN  upTo[q - 1]

(* calc_shmsize, before anything is laid out. *)
CalcShmSize(cs) ==
    LET total[i \in 0..Len(cs)] ==
            IF i = 0 THEN ShmemSize + ShmQueSize * Len(cs)
            ELSE total[i - 1] + 2 * cs[i].queuesize * CellSize + DataSize(cs[i]) + 2 * Margin
    IN  total[Len(cs)]

(* What the processes address in the memory: headers, the cells of both    *)
(* lists, and each message with its length; as [from, size].               *)
HeaderAt(cs, q) == [from |-> Offset(cs, q), size |-> ShmQueSize]
ListAt(cs, q, l) == [from |-> Offset(cs, q) + ShmQueSize + l * cs[q].queuesize * CellSize,
                     size |-> cs[q].queuesize * CellSize]
DataOffset(cs, q) == Offset(cs, q) + ShmQueSize + 2 * cs[q].queuesize * CellSize + Margin
MessageAt(cs, q, index) == [from |-> DataOffset(cs, q) + (OffSize + cs[q].msgsize) * index,
                            size |-> OffSize + cs[q].msgsize]

Regions(cs) ==
    {[from |-> 0, size |-> ShmemSize]}
    \cup UNION {{HeaderAt(cs, q), ListAt(cs, q, 0), ListAt(cs, q, 1)}
                \cup {MessageAt(cs, q, i) : i \in 0..(cs[q].queuesize - 1)} : q \in DOMAIN cs}

-----------------------------------------------------------------------------
(* The daemon: qc_shqmem_create and qc_shqmem_destroy. *)

(* shm_unlink and shm_open. *)
StartsUp(cs) ==
    /\ daemon = "down" /\ starts < MaxStarts
    /\ daemon' = "step" /\ starts' = starts + 1
    /\ shm' = starts + 1 /\ sized' = FALSE
    /\ conf' = Append(conf, cs)
    /\ step' = [que |-> 0, field |-> 1]
    /\ UNCHANGED <<written, sem, created, proc>>

(* ftruncate and mmap; then init_shmhead, which nobody reads. *)
Sizes ==
    /\ daemon = "step" /\ step.que = 0
    /\ sized' = TRUE
    /\ step' = [que |-> 1, field |-> 1]
    /\ UNCHANGED <<daemon, starts, conf, written, created, shm, sem, proc>>

(* After the last step the sizes are compared; a difference fails the      *)
(* creation, and the daemon stops at its assertion.                        *)
Advance ==
    LET cs == conf[starts]
    IN  IF step.field < Len(SetupOrder)
        THEN step' = [step EXCEPT !.field = @ + 1] /\ UNCHANGED <<daemon, created>>
        ELSE IF step.que < Len(cs)
        THEN step' = [que |-> step.que + 1, field |-> 1] /\ UNCHANGED <<daemon, created>>
        ELSE /\ step' = [step EXCEPT !.que = @ + 1]
             /\ IF Offset(cs, Len(cs) + 1) = CalcShmSize(cs)
                THEN daemon' = "up" /\ created' = created \cup {starts}
                ELSE daemon' = "down" /\ UNCHANGED created

Doing(act, what) == daemon = "step" /\ step.que > 0 /\ SetupOrder[step.field] = <<act, what>>

Writes ==
    /\ \E f \in Fields :
          Doing("write", f) /\ written' = [written EXCEPT ![starts][step.que] = @ \cup {f}]
    /\ Advance
    /\ UNCHANGED <<starts, shm, sized, conf, sem, proc>>

(* The two steps of qc_sem_create: the old semaphore's name goes, a new    *)
(* semaphore gets it.  (The Mutant takes the one that is there.)           *)
SemUnlink == \E k \in Kinds : /\ Doing("unlink", k)
                              /\ sem' = [sem EXCEPT ![step.que][k] = 0]
SemCreateMutant == \E k \in Kinds :
    /\ Doing("create", k) \/ Doing("unlink", k)
    /\ sem' = [sem EXCEPT ![step.que][k] = IF @ = 0 THEN starts ELSE @]
SemCreate == \E k \in Kinds : /\ Doing("create", k)
                              /\ sem' = [sem EXCEPT ![step.que][k] = starts]

MakesSem ==
    /\ SemUnlink \/ SemCreate
    /\ Advance
    /\ UNCHANGED <<starts, shm, sized, conf, written, proc>>

(* The signal handler: the memory loses its name; the semaphores are only  *)
(* closed and keep theirs.                                                 *)
Destroys ==
    /\ daemon = "up"
    /\ daemon' = "down" /\ shm' = 0
    /\ UNCHANGED <<step, starts, sized, conf, written, created, sem, proc>>

(* Killed, or interrupted before shqMem is set: everything stays. *)
Dies ==
    /\ daemon # "down"
    /\ daemon' = "down"
    /\ UNCHANGED <<step, starts, sized, conf, written, created, shm, sem, proc>>

-----------------------------------------------------------------------------
(* An attaching process: qc_shqueue_attach for the want-th queue. *)

Becomes(p, r) == proc' = [proc EXCEPT ![p] = r]

(* qc_shm_open.  A memory without a size cannot be mapped. *)
OpensShm(p, q) ==
    /\ proc[p].at = "idle"
    /\ shm # 0 /\ sized
    /\ Becomes(p, [Idle EXCEPT !.at = "find", !.shm = shm, !.want = q, !.que = 1,
                               !.late = shm \in created])
    /\ UNCHANGED <<daemonVars, shm, sem>>

(* One turn of the loop of shm_queue_find.  An offset that is still zero   *)
(* leads back to the memory's first bytes, read as a header: astray.       *)
Compares(p) ==
    LET r == proc[p]
        header == written[r.shm][r.que]
    IN  /\ r.at = "find"
        /\ Becomes(p, IF r.que = r.want /\ "quename" \in header THEN [r EXCEPT !.at = "que"]
                      ELSE IF "next_offset" \notin header THEN [r EXCEPT !.at = "astray"]
                      ELSE IF r.que = Len(conf[r.shm]) THEN Idle
                      ELSE [r EXCEPT !.que = @ + 1])
        /\ UNCHANGED <<daemonVars, shm, sem>>

OpensQue(p) ==
    LET r == proc[p]
    IN  /\ r.at = "que"
        /\ Becomes(p, IF "semname_que" \in written[r.shm][r.que] /\ sem[r.que]["que"] # 0
                      THEN [r EXCEPT !.at = "lst", !.sem["que"] = sem[r.que]["que"]]
                      ELSE Idle)
        /\ UNCHANGED <<daemonVars, shm, sem>>

(* Without the second semaphore the first is not closed but destroyed: its *)
(* name goes, for everyone.                                                *)
OpensLst(p) ==
    LET r == proc[p]
        opened == "semname_lst" \in written[r.shm][r.que] /\ sem[r.que]["lst"] # 0
    IN  /\ r.at = "lst"
        /\ Becomes(p, IF opened THEN [r EXCEPT !.at = "attached", !.sem["lst"] = sem[r.que]["lst"]]
                                ELSE Idle)
        /\ sem' = IF opened THEN sem ELSE [sem EXCEPT ![r.que]["que"] = 0]
        /\ UNCHANGED <<daemonVars, shm>>

(* qc_shqueue_deattach closes the semaphores. *)
Detaches(p) ==
    /\ proc[p].at \in {"attached", "astray"}
    /\ Becomes(p, Idle)
    /\ UNCHANGED <<daemonVars, shm, sem>>

-----------------------------------------------------------------------------
DaemonNext == (\E cs \in Configs : StartsUp(cs)) \/ Sizes \/ Writes \/ MakesSem \/ Destroys \/ Dies

AttacherNext(p) ==
    \/ \E q \in 1..MaxQues : OpensShm(p, q)
    \/ Compares(p) \/ OpensQue(p) \/ OpensLst(p) \/ Detaches(p)

Next == DaemonNext \/ \E p \in Attachers : AttacherNext(p)

Spec == Init /\ [][Next]_vars

-----------------------------------------------------------------------------
(* A process that mapped a memory whose creation was finished finds its    *)
(* queue if there is one, and as long as the daemon does not start again   *)
(* the semaphores it holds are those of that memory, both of them, whatever*)
(* others attached to before and whoever failed to (qc_shqueue_attach).    *)
AttachMatches ==
    \A p \in Attachers :
        LET r == proc[p]
        IN  r.late =>
               /\ r.at # "astray"
               /\ r.at \in {"que", "lst", "attached"} => r.want <= Len(conf[r.shm])
               /\ (r.at = "attached" /\ r.shm = starts) => \A k \in Kinds : r.sem[k] = r.shm

(* The memory is as large as what is laid out in it, and no two of the     *)
(* headers, lists and messages that processes address overlap              *)
(* (calc_shmsize against shm_queue_init against the offsets of push and    *)
(* pull).                                                                  *)
LayoutFits ==
    \A g \in DOMAIN conf :
        LET cs == conf[g]
            regions == Regions(cs)
        IN  /\ Offset(cs, Len(cs) + 1) = CalcShmSize(cs)
            /\ \A r \in regions : r.from + r.size <= CalcShmSize(cs)
            /\ \A r, s \in regions :
                  r # s => r.from + r.size <= s.from \/ s.from + s.size <= r.from
=============================================================================
