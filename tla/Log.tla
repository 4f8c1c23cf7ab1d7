-------------------------------- MODULE Log ---------------------------------
(***************************************************************************)
(* The log (qc_log.c over qc_file.c): the threads of a process write lines *)
(* to a file under one mutex; the thread whose line fills the file rolls   *)
(* the files - file_n-1 is removed, file_i becomes file_i+1, the file      *)
(* becomes file_1 - and opens a new one.  Any call on a file may fail, and *)
(* the process may die between any two of them and start again, with the   *)
(* files as it left them.                                                  *)
(*                                                                         *)
(* A file is the sequence of its lines, file 0 the one that is written to. *)
(* A line is a record: its number in the order of writing, and the session *)
(* (start of the process) that wrote it.                                   *)
(***************************************************************************)
EXTENDS Integers, Sequences, FiniteSets

CONSTANTS Threads,
          RollNum,          \* rollnum given to qc_log_init
          FileLimit,        \* kbytes*1024 given to it
          LineLen,          \* the bytes of a line
          MaxLines, MaxSessions, MaxFailures,   \* bounds
          Absent            \* no such file

NoThread == "none"
Line     == [no : Nat, session : Nat]

ASSUME LogAssumption ==
    /\ RollNum \in Nat \ {0} /\ FileLimit \in Nat \ {0} /\ LineLen \in Nat \ {0}
    /\ {MaxLines, MaxSessions, MaxFailures} \subseteq Nat
    /\ NoThread \notin Threads
    /\ Absent \notin Seq(Line)

VARIABLES
    files,      \* what is on disk
    logf,       \* whether _logf is set
    curoffset,  \* _curoffset
    mutex,      \* the thread that holds _log_mutex, or none
    pc,         \* where a thread is
    roll,       \* the index i of the roll in progress
    session,    \* history: the number of the process's start, 0 before it
    written,    \*   how many lines were written in all
    failures,   \*   how many file operations failed,
    closeFailed \*   and whether closing the log file failed in this session

fileVars == <<files, written>>
vars == <<fileVars, logf, curoffset, mutex, pc, roll, session, failures, closeFailed>>

Oldest   == IF RollNum = 1 THEN 1 ELSE RollNum - 1
Indexes  == 0..Oldest

Init == /\ files = [i \in Indexes |-> Absent]
        /\ logf = FALSE /\ curoffset = 0 /\ mutex = NoThread
        /\ pc = [t \in Threads |-> "down"] /\ roll = 0
        /\ session = 0 /\ written = 0 /\ failures = 0 /\ closeFailed = FALSE

Fails == failures < MaxFailures /\ failures' = failures + 1
Works == UNCHANGED failures

-----------------------------------------------------------------------------
(* qc_log_init: opens file 0 for appending.  The position of a file that   *)
(* was just opened is 0 even when it has content.                          *)
Opens ==
    \/ /\ Works
       /\ files' = [files EXCEPT ![0] = IF @ = Absent THEN <<>> ELSE @]
       /\ logf' = TRUE
    \/ Fails /\ logf' = FALSE /\ UNCHANGED files

(* The process starts, again after it died. *)
StartsUp ==
    /\ session < MaxSessions
    /\ \A t \in Threads : pc[t] = "down"
    /\ session' = session + 1
    /\ Opens
    /\ curoffset' = 0
    /\ pc' = [t \in Threads |-> "idle"]
    /\ mutex' = NoThread
    /\ closeFailed' = FALSE
    /\ UNCHANGED <<written, roll>>

Dies ==
    /\ \E t \in Threads : pc[t] # "down"
    /\ pc' = [t \in Threads |-> "down"]
    /\ logf' = FALSE /\ mutex' = NoThread
    /\ UNCHANGED <<fileVars, curoffset, roll, session, failures, closeFailed>>

Goes(t, where) == pc' = [pc EXCEPT ![t] = where]

(* _qc_error, _qc_debug, _qc_warn and _qc_info: nothing is written unless  *)
(* _logf is set, which is read without the mutex.                          *)
Logs(t) ==
    /\ pc[t] = "idle" /\ logf /\ written < MaxLines
    /\ Goes(t, "lock")
    /\ UNCHANGED <<fileVars, logf, curoffset, mutex, roll, session, failures, closeFailed>>

Locks(t) ==
    /\ pc[t] = "lock" /\ mutex = NoThread
    /\ mutex' = t
    /\ Goes(t, "write")
    /\ UNCHANGED <<fileVars, logf, curoffset, roll, session, failures, closeFailed>>

(* qc_file_write, qc_file_exist, qc_file_rename and qc_file_remove. *)
Appended(line)  == files' = [files EXCEPT ![0] = Append(@, line)]
Exists(i)       == files[i] # Absent
Renamed(i, j)   == files' = [files EXCEPT ![i] = Absent, ![j] = files[i]]
Removed(i)      == files' = [files EXCEPT ![i] = Absent]

(* (The Mutant rolls one line late.) *)
RollDueMutant(offset) == offset > FileLimit
RollDue(offset) == offset >= FileLimit

(* Under the mutex _logf is looked at again.  A write that fails returns -1*)
(* as a size_t, which is added to _curoffset.                              *)
WritesLine(t) ==
    /\ pc[t] = "write" /\ logf
    /\ \/ /\ Works
          /\ written' = written + 1
          /\ Appended([no |-> written', session |-> session])
          /\ curoffset' = curoffset + LineLen
       \/ /\ Fails
          /\ curoffset' = curoffset - 1
          /\ UNCHANGED fileVars
    /\ Goes(t, IF RollDue(curoffset') THEN "close" ELSE "unlock")
    /\ UNCHANGED <<logf, mutex, roll, session, closeFailed>>

FindsClosed(t) ==
    /\ pc[t] = "write" /\ ~logf
    /\ Goes(t, "unlock")
    /\ UNCHANGED <<fileVars, logf, curoffset, mutex, roll, session, failures, closeFailed>>

Unlocks(t) ==
    /\ pc[t] = "unlock"
    /\ mutex' = NoThread
    /\ Goes(t, "idle")
    /\ UNCHANGED <<fileVars, logf, curoffset, roll, session, failures, closeFailed>>

-----------------------------------------------------------------------------
(* _rollfiles, by the thread that holds the mutex. *)

(* A failing call on a file logs an error: with _logf set, for the mutex   *)
(* that the thread itself holds and never gets.                            *)
AfterError == IF logf THEN "stuck" ELSE "unlock"

(* _logf = NULL once the file is closed.  (The Mutant leaves it set.) *)
LogfAfterCloseMutant == logf
LogfAfterClose == FALSE

Closes(t) ==
    /\ pc[t] = "close"
    /\ \/ /\ Works
          /\ logf' = LogfAfterClose
          /\ Goes(t, "roll") /\ roll' = RollNum - 1
          /\ UNCHANGED closeFailed
       \/ /\ Fails
          /\ Goes(t, AfterError)
          /\ closeFailed' = TRUE
          /\ UNCHANGED <<logf, roll>>
    /\ UNCHANGED <<fileVars, curoffset, mutex, session>>

(* The file that is removed.  (The Mutant is off by one.) *)
IsOldestMutant(i) == i = RollNum - 2
IsOldest(i) == i = RollNum - 1

(* One turn of the loop: the oldest file is removed, another renamed. *)
RollsOne(t) ==
    /\ pc[t] = "roll" /\ roll > 0
    /\ \/ ~Exists(roll) /\ Works /\ Goes(t, "roll") /\ UNCHANGED files
       \/ /\ Exists(roll) /\ Works
          /\ IF IsOldest(roll) THEN Removed(roll) ELSE Renamed(roll, roll + 1)
          /\ Goes(t, "roll")
       \/ Exists(roll) /\ Fails /\ Goes(t, AfterError) /\ UNCHANGED files
    /\ roll' = roll - 1
    /\ UNCHANGED <<written, logf, curoffset, mutex, session, closeFailed>>

RollsLast(t) ==
    /\ pc[t] = "roll" /\ roll = 0
    /\ \/ Works /\ Renamed(0, 1) /\ Goes(t, "open")
       \/ Fails /\ Goes(t, AfterError) /\ UNCHANGED files
    /\ UNCHANGED <<written, logf, curoffset, mutex, roll, session, closeFailed>>

(* qc_log_init again. *)
Reopens(t) ==
    /\ pc[t] = "open"
    /\ Opens
    /\ curoffset' = 0
    /\ Goes(t, "unlock")
    /\ UNCHANGED <<written, mutex, roll, session, closeFailed>>

-----------------------------------------------------------------------------
ThreadStep(t) == Locks(t) \/ WritesLine(t) \/ FindsClosed(t) \/ Unlocks(t)
                 \/ Closes(t) \/ RollsOne(t) \/ RollsLast(t) \/ Reopens(t)

Next == StartsUp \/ Dies \/ \E t \in Threads : Logs(t) \/ ThreadStep(t)

Spec == Init /\ [][Next]_vars

(* Threads inside a logging call go on, and whoever waits for the mutex    *)
(* gets it in the end; the process need not start, and may die.            *)
FairSpec == Spec /\ \A t \in Threads : WF_vars(ThreadStep(t)) /\ SF_vars(Locks(t))

-----------------------------------------------------------------------------
(* The lines on disk, oldest file first. *)
Lines(i) == IF files[i] = Absent THEN <<>> ELSE files[i]
OnDisk ==
    LET from[i \in Indexes] == IF i = Oldest THEN Lines(i) ELSE from[i + 1] \o Lines(i)
    IN  from[0]

(* However rolls fail or are cut short and are taken up again by the next  *)
(* one, the files in their order hold the latest lines written, in the     *)
(* order of writing and without a gap: only the oldest are ever dropped;   *)
(* and as long as nothing fails or dies, at least all but one of the files *)
(* that rollnum stands for are there, full (_rollfiles).                   *)
FileLines == CHOOSE n \in 1..FileLimit : n * LineLen >= FileLimit /\ (n - 1) * LineLen < FileLimit
SuffixKept ==
    /\ \A i \in DOMAIN OnDisk : OnDisk[i].no = written - Len(OnDisk) + i
    /\ (session = 1 /\ failures = 0) =>
          Len(OnDisk) >= written \/ Len(OnDisk) >= (RollNum - 1) * FileLines

(* A session adds less than the limit and one line to a file, but for the  *)
(* bytes by which failed writes have put _curoffset back; a file written by*)
(* several sessions may have the limit from each, since none looks at what *)
(* was in it (qc_log_init, _qc_log_write).                                 *)
Bytes(i, s) == LineLen * Cardinality({n \in DOMAIN files[i] : files[i][n].session = s})
SizeBounded ==
    \A i \in Indexes : files[i] # Absent =>
        \A s \in 1..session : Bytes(i, s) < FileLimit + LineLen + failures

(* A thread that has the mutex gives it back, whatever fails, unless what  *)
(* failed was closing the log file (qc_file_close logs that, under the     *)
(* mutex).                                                                 *)
MutexReleased == \A t \in Threads : mutex = t ~> mutex # t \/ closeFailed
=============================================================================
