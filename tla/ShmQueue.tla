------------------------------ MODULE ShmQueue ------------------------------
(***************************************************************************)
(* One queue in shared memory (qc_shq_que.c) used by pushing and pulling   *)
(* processes.  A message lives in a slot; every slot is in the free list,  *)
(* in the used list, or with the process that pushes or pulls it.  Both    *)
(* lists are changed under the semaphore sem_lst, which serves as a mutex  *)
(* and is held for one step here; sem_que counts the messages a puller may *)
(* take.  A process may die: it then takes no further step and keeps what  *)
(* it has, as the semaphores and the memory outlive it.                    *)
(***************************************************************************)
EXTENDS StaticList, FiniteSets

CONSTANTS Pushers, Pullers,    \* processes
          Messages,
          QueSize,             \* que_size, the number of slots
          None

Processes == Pushers \cup Pullers
Cells     == CellsOf(QueSize)

ASSUME ShmQueueAssumption ==
    /\ IsFiniteSet(Processes)
    /\ Pushers \cap Pullers = {}
    /\ QueSize \in Nat \ {0}
    /\ None \notin Messages

VARIABLES used, free,          \* lst_used, lst_free
          semQue,              \* the value of sem_que
          slot,                \* the length field and the bytes of each slot
          pc, idx, msg,        \* of each process: location, slot index, message
          failed               \* a failed assertion, or a list found empty

vars == <<used, free, semQue, slot, pc, idx, msg, failed>>

(* The length field is that of a message, or None for msg_size. *)
Slots == [len : Messages \cup {None}, body : Messages \cup {None}]

-----------------------------------------------------------------------------
Init == /\ used = ClearedList(QueSize)
        /\ free = FullList(QueSize)
        /\ semQue = 0
        /\ slot = [c \in Cells |-> [len |-> None, body |-> None]]
        /\ pc = [p \in Processes |-> "idle"]
        /\ idx = [p \in Processes |-> Invalid]
        /\ msg = [p \in Processes |-> None]
        /\ failed = "none"

At(p, where) == failed = "none" /\ pc[p] = where
GoTo(p, where) == pc' = [pc EXCEPT ![p] = where]

(* (Definitions with a Mutant suffix are the same code with a plausible    *)
(* bug, see the properties.)  Posting sem_que comes with adding to the     *)
(* used list, before sem_lst is released.                                  *)
PostedMutant == semQue
Posted == semQue + 1
GivenBackMutant(c) == free
GivenBack(c) == WithTail(free, c)
NextToPushMutant == free.tail
NextToPush == free.head
NextToPullMutant == used.tail
NextToPull == used.head

-----------------------------------------------------------------------------
(* shm_queue_push_begin: with sem_lst, take a free slot; none is an error. *)
PushBegins(p, m) ==
    /\ At(p, "idle") /\ p \in Pushers
    /\ free.num # 0
    /\ \/ /\ NextToPush >= 0
          /\ idx' = [idx EXCEPT ![p] = NextToPush]
          /\ free' = WithoutHead(free)
          /\ msg' = [msg EXCEPT ![p] = m]
          /\ GoTo(p, "begun")
          /\ UNCHANGED <<used, semQue, slot, failed>>
       \/ /\ NextToPush < 0
          /\ failed' = "push_begin"
          /\ UNCHANGED <<used, free, semQue, slot, pc, idx, msg>>

(* ... and write its length field, sem_lst released. *)
PushMarks(p) ==
    /\ At(p, "begun")
    /\ slot' = [slot EXCEPT ![idx[p]].len = None]
    /\ GoTo(p, "writing")
    /\ UNCHANGED <<used, free, semQue, idx, msg, failed>>

(* The caller fills in the message. *)
Writes(p) ==
    /\ At(p, "writing")
    /\ slot' = [slot EXCEPT ![idx[p]].body = msg[p]]
    /\ GoTo(p, "written")
    /\ UNCHANGED <<used, free, semQue, idx, msg, failed>>

(* shm_queue_push_end. *)
PushEnds(p) ==
    /\ At(p, "written")
    /\ used' = WithTail(used, idx[p])
    /\ slot' = [slot EXCEPT ![idx[p]].len = msg[p]]
    /\ semQue' = Posted
    /\ GoTo(p, "idle")
    /\ idx' = [idx EXCEPT ![p] = Invalid]
    /\ msg' = [msg EXCEPT ![p] = None]
    /\ UNCHANGED <<free, failed>>

-----------------------------------------------------------------------------
(* shm_queue_pull_begin: wait for sem_que, for ever or for a time. *)
PullCalls(p) ==
    /\ At(p, "idle") /\ p \in Pullers
    /\ \E where \in {"pull_wait", "pull_timed"} : GoTo(p, where)
    /\ UNCHANGED <<used, free, semQue, slot, idx, msg, failed>>

PullEnters(p) ==
    /\ At(p, "pull_wait") \/ At(p, "pull_timed")
    /\ semQue > 0
    /\ semQue' = semQue - 1
    /\ GoTo(p, "pull_lock")
    /\ UNCHANGED <<used, free, slot, idx, msg, failed>>

(* A timed wait that found no token: the time is over, or it was zero.     *)
PullTimesOut(p) ==
    /\ At(p, "pull_timed")
    /\ semQue = 0
    /\ GoTo(p, "idle")
    /\ UNCHANGED <<used, free, semQue, slot, idx, msg, failed>>

(* qc_sem_wait does not carry the nanoseconds of the deadline: those of a  *)
(* second or more are rejected, whether there is a token or not.           *)
PullRejected(p) ==
    /\ At(p, "pull_timed")
    /\ GoTo(p, "idle")
    /\ UNCHANGED <<used, free, semQue, slot, idx, msg, failed>>

(* With sem_lst, take the oldest message's slot. *)
PullTakes(p) ==
    /\ At(p, "pull_lock")
    /\ \/ /\ NextToPull >= 0
          /\ idx' = [idx EXCEPT ![p] = NextToPull]
          /\ used' = WithoutHead(used)
          /\ GoTo(p, "pulled")
          /\ UNCHANGED <<free, semQue, slot, msg, failed>>
       \/ /\ NextToPull < 0
          /\ failed' = "pull_begin"
          /\ UNCHANGED <<used, free, semQue, slot, pc, idx, msg>>

(* The message in a slot, when length and bytes belong together. *)
Content(c) == IF slot[c].len = slot[c].body THEN slot[c].body ELSE None

(* The length is read, and the caller reads that many bytes. *)
PullReads(p) ==
    /\ At(p, "pulled")
    /\ msg' = [msg EXCEPT ![p] = Content(idx[p])]
    /\ GoTo(p, "read")
    /\ UNCHANGED <<used, free, semQue, slot, idx, failed>>

(* shm_queue_pull_end. *)
PullEnds(p) ==
    /\ At(p, "read")
    /\ free' = GivenBack(idx[p])
    /\ GoTo(p, "idle")
    /\ idx' = [idx EXCEPT ![p] = Invalid]
    /\ msg' = [msg EXCEPT ![p] = None]
    /\ UNCHANGED <<used, semQue, slot, failed>>

-----------------------------------------------------------------------------
PushStep(p) == PushMarks(p) \/ Writes(p) \/ PushEnds(p)
PullStep(p) == \/ PullCalls(p) \/ PullEnters(p) \/ PullTimesOut(p)
               \/ PullRejected(p) \/ PullTakes(p) \/ PullReads(p) \/ PullEnds(p)

Next == \E p \in Processes : \/ \E m \in Messages : PushBegins(p, m)
                             \/ PushStep(p) \/ PullStep(p)

Spec == Init /\ [][Next]_vars

(* Pullers keep pulling, and not every one of their deadlines is rejected  *)
(* while there are tokens: that depends on the fraction of the second at   *)
(* which each call is made.  Nothing is assumed of pushers: they may die at*)
(* any point.  (Dying inside a step, with sem_lst taken, is not modelled.) *)
FairSpec == /\ Spec
            /\ \A p \in Pullers : WF_vars(PullStep(p))
            /\ SF_vars(\E p \in Pullers : PullEnters(p))

-----------------------------------------------------------------------------
Locations == {"idle", "begun", "writing", "written", "pull_wait", "pull_timed",
              "pull_lock", "pulled", "read"}

(* The lists' links are cells or Invalid and semQue never goes below 0; a  *)
(* process has a slot index that exists or none.                           *)
TypeOK ==
    /\ used \in StaticLists(QueSize)
    /\ free \in StaticLists(QueSize)
    /\ semQue \in Nat
    /\ slot \in [Cells -> Slots]
    /\ pc \in [Processes -> Locations]
    /\ idx \in [Processes -> Cells \cup {Invalid}]
    /\ msg \in [Processes -> Messages \cup {None}]
    /\ failed \in {"none", "push_begin", "pull_begin"}

Holders(c) == {p \in Processes : idx[p] = c}

(* A slot is free, used, or with one process, and never two of these: no   *)
(* slot is leaked by the calls themselves, pushed over or pulled twice,    *)
(* and no link or index leads out of the array.                            *)
SlotsPartition ==
    /\ TypeOK
    /\ \A c \in Cells :
          /\ Cardinality(Holders(c)) <= 1
          /\ c \in Linked(free) => c \notin Linked(used) /\ Holders(c) = {}
          /\ c \in Linked(used) => Holders(c) = {}
          /\ c \in Linked(free) \cup Linked(used) \/ Holders(c) # {}

(* sem_que and the pullers it let in, dead or alive, are exactly the       *)
(* messages in the used list; so no puller let in finds the list empty.    *)
Entered == {p \in Processes : pc[p] = "pull_lock"}
TokensMatch == failed = "none" /\ used.num = semQue + Cardinality(Entered)

(* The refinement mapping to SharedFifo: the FIFO's queue is what the used *)
(* list shows, in its order; a process pushes or pulls the message it has. *)
PushLocations == {"begun", "writing", "written"}
Published == LET s == Order(used) IN [i \in DOMAIN s |-> Content(s[i])]
Pushing   == [p \in Processes |-> IF pc[p] \in PushLocations THEN {msg[p]} ELSE {}]
Pulling   == [p \in Processes |-> CASE pc[p] = "pulled" -> {Content(idx[p])}
                                    [] pc[p] = "read"   -> {msg[p]}
                                    [] OTHER            -> {}]
Fifo == INSTANCE SharedFifo WITH
    Capacity <- QueSize, queue <- Published, pushing <- Pushing, pulling <- Pulling

(* The queue is the bounded FIFO of SharedFifo.  A message is pulled whole,*)
(* with its length, and stays whole until the pull has ended.              *)
ImplementsFifo == Fifo!Spec

(* Whatever pushers do or leave undone, a pushed message is pulled and its *)
(* slot is free again.                                                     *)
EventuallyPulled == \A c \in Cells : c \in Linked(used) ~> c \in Linked(free)
=============================================================================
