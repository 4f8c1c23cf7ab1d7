------------------------------- MODULE Psist -------------------------------
(***************************************************************************)
(* Messages persisted in a file of fixed records (qc_psist.c,              *)
(* qc_psist_file.c), with a pool of record ids (QcNumPool of qc_utils.c)   *)
(* in memory only.  One thread uses the store, as the test does.  The      *)
(* process may die between any two writes; the file keeps what was written.*)
(*                                                                         *)
(* A session lasts from an opening to the death of the process or to       *)
(* qc_psist_close.  The pool of every session begins with all the ids,     *)
(* those of records in use included, so the first appends of a session     *)
(* overwrite what earlier sessions stored, as every run of the test after  *)
(* its first does.  The properties say which messages that can hit.        *)
(***************************************************************************)
EXTENDS StaticList, FiniteSets

CONSTANTS Messages,          \* messages of at most msgbuff_size bytes each
          CountLimit,        \* msgcount_limit, the number of records
          QueueLimit,        \* limit of the queue that records are loaded into
          None

ASSUME PsistAssumption == /\ CountLimit \in Nat \ {0}
                          /\ QueueLimit \in Nat \ {0}
                          /\ None \notin Messages

Ids == CellsOf(CountLimit)

VARIABLES file,        \* the records: flag, whose length and priority, whose bytes
          idPool,      \* qc_freeList of persistIdPool
          persistId,   \* persist_id of each message that is in memory or being
                       \* appended, otherwise Invalid
          held,        \* messages the application has in memory
          queue,       \* messages loaded and not yet gotten, all of one priority
          pc,          \* "ready", "closed", inside "append" or "load"
          msg,         \* the message being appended
          offset,      \* the record the load reads next, 0 outside a load
          loaded,      \* history: how the load ended, until anything else is done
          fate,        \* history: what became of each message, see below
          takes,       \* history: ids taken in this session, up to CountLimit + 1
          strayed      \* history: this session removed a message by an id that
                       \* had led to another message's record since it was loaded

memory == <<idPool, persistId, held, queue, pc, msg, offset>>
vars   == <<file, memory, loaded, fate, takes, strayed>>

Records == [flag : {0, 1}, info : Messages \cup {None}, body : Messages \cup {None}]
Unused  == [flag |-> 0, info |-> None, body |-> None]

(* "out"  not appended, removed, or its record overwritten                 *)
(* "new"  its append succeeded in this session (or the one just ended)     *)
(* "old"  its append succeeded in an earlier session                       *)
(* "hit"  in the file, but an append wrote over its bytes or began to, or  *)
(*        its session strayed: nothing is claimed of what it contains      *)
Fates == {"out", "new", "old", "hit"}

-----------------------------------------------------------------------------
(* A file of zeros, its head written. *)
Init == /\ file = [i \in Ids |-> Unused]
        /\ idPool = FullList(CountLimit)
        /\ persistId = [m \in Messages |-> Invalid]
        /\ held = {}
        /\ queue = <<>>
        /\ pc = "ready"
        /\ msg = None
        /\ offset = 0
        /\ loaded = "none"
        /\ fate = [m \in Messages |-> "out"]
        /\ takes = 0
        /\ strayed = FALSE

Queued   == {queue[i] : i \in DOMAIN queue}
InMemory == held \cup Queued

(* qc_numpool_put.  It reports a failure for id 0, which nobody looks at.  *)
(* (Definitions with a Mutant suffix are the same code with a plausible    *)
(* bug, see the properties.)                                               *)
PutBackMutant(id) == WithHead(idPool, id)
PutBack(id) == WithTail(idPool, id)

BodyWrittenMutant(r, m) == [r EXCEPT !.flag = 1, !.info = m]
BodyWritten(r, m) == [r EXCEPT !.body = m]
InfoWritten(r, m) == [r EXCEPT !.flag = 1, !.info = m]
InfoCleared(r) == [r EXCEPT !.flag = 0, !.info = None]

TakenMutant == idPool
Taken == WithoutHead(idPool)
CountTake == takes' = IF takes <= CountLimit THEN takes + 1 ELSE takes

(* The fetch stops where the last record begins. *)
EndOfFetchMutant == CountLimit - 2
EndOfFetch == CountLimit - 1
FetchedId == offset

-----------------------------------------------------------------------------
(* qc_psist_append of a message made for it: take an id, no id being an    *)
(* error.                                                                  *)
TakesId(m) ==
    /\ pc = "ready"
    /\ fate[m] = "out" /\ m \notin InMemory
    /\ idPool.head >= 0
    /\ idPool' = Taken
    /\ CountTake

(* The bytes are written to its record, whatever the record holds.  The    *)
(* take of number n in a session may so hit an older message in record n.  *)
AppendWritesBody(m) ==
    /\ TakesId(m)
    /\ persistId' = [persistId EXCEPT ![m] = idPool.head]
    /\ file' = [file EXCEPT ![idPool.head] = BodyWritten(@, m)]
    /\ msg' = m
    /\ pc' = "append"
    /\ loaded' = "none"
    /\ fate' = [x \in Messages |->
                   IF fate[x] = "old" /\ takes \in Ids /\ file[takes].info = x
                   THEN "hit" ELSE fate[x]]
    /\ UNCHANGED <<held, queue, offset, strayed>>

(* ... or the write returns 0, as it does for a message of no bytes: the   *)
(* append fails, the id is not put back, and the application gives the     *)
(* message up.  (A write that returns -1 is taken for a success, the sizes *)
(* being unsigned; disk errors are not modelled.)                          *)
AppendFailsAtOnce(m) ==
    /\ TakesId(m)
    /\ loaded' = "none"
    /\ UNCHANGED <<file, persistId, held, queue, pc, msg, offset, fate, strayed>>

(* Then the record's info is written, which marks it used. *)
AppendWritesInfo ==
    /\ pc = "append"
    /\ LET i == persistId[msg]
       IN  /\ file' = [file EXCEPT ![i] = InfoWritten(@, msg)]
           /\ fate' = [x \in Messages |->
                          IF x = msg THEN IF strayed THEN "hit" ELSE "new"
                          ELSE IF x = file[i].info /\ fate[x] = "hit" THEN "out"
                          ELSE fate[x]]
    /\ held' = held \cup {msg}
    /\ msg' = None
    /\ pc' = "ready"
    /\ UNCHANGED <<idPool, persistId, queue, offset, loaded, takes, strayed>>

(* ... or this write returns 0. *)
AppendFails ==
    /\ pc = "append"
    /\ persistId' = [persistId EXCEPT ![msg] = Invalid]
    /\ msg' = None
    /\ pc' = "ready"
    /\ UNCHANGED <<file, idPool, held, queue, offset, loaded, fate, takes, strayed>>

(* qc_psist_remove of a message the application has in memory, by the id   *)
(* it has had since it was appended or loaded.  The record of that id is   *)
(* marked unused, whosever it is by now.                                   *)
Remove(m) ==
    /\ pc = "ready"
    /\ m \in held
    /\ LET i      == persistId[m]
           victim == file[i].info
           strays == victim # m
       IN  /\ file' = [file EXCEPT ![i] = InfoCleared(@)]
           /\ idPool' = PutBack(i)
           /\ strayed' = (strayed \/ strays)
           /\ fate' = [x \in Messages |->
                          IF x = m THEN "out"
                          ELSE IF strays /\ x = victim /\ fate[x] # "old" THEN "out"
                          ELSE IF strays /\ fate[x] = "new" THEN "hit"
                          ELSE fate[x]]
    /\ persistId' = [persistId EXCEPT ![m] = Invalid]
    /\ held' = held \ {m}
    /\ loaded' = "none"
    /\ UNCHANGED <<queue, pc, msg, offset, takes>>

-----------------------------------------------------------------------------
(* qc_psist_loadqueue into an empty queue, by an application that has      *)
(* released its own copies.  (A message is known by the name in its        *)
(* record's info, though its bytes may be another's.)                      *)
LoadStarts ==
    /\ pc = "ready"
    /\ queue = <<>>
    /\ held' = {}
    /\ pc' = "load"
    /\ loaded' = "none"
    /\ persistId' = [m \in Messages |-> Invalid]
    /\ UNCHANGED <<file, idPool, queue, msg, offset, fate, takes, strayed>>

LoadSkips ==
    /\ pc = "load" /\ offset # EndOfFetch
    /\ file[offset].flag = 0
    /\ offset' = offset + 1
    /\ UNCHANGED <<file, idPool, persistId, held, queue, pc, msg, loaded, fate, takes, strayed>>

(* A used record becomes a message, which is put with a timeout of 0: on a *)
(* full queue the put fails, and the load with it.                         *)
LoadPuts ==
    /\ pc = "load" /\ offset # EndOfFetch
    /\ file[offset].flag # 0
    /\ LET m == file[offset].info
       IN  \/ /\ Len(queue) < QueueLimit
              /\ queue' = Append(queue, m)
              /\ persistId' = [persistId EXCEPT ![m] = FetchedId]
              /\ offset' = offset + 1
              /\ UNCHANGED <<pc, loaded>>
           \/ /\ Len(queue) >= QueueLimit
              /\ pc' = "ready"
              /\ offset' = 0
              /\ loaded' = "failed"
              /\ UNCHANGED <<queue, persistId>>
    /\ UNCHANGED <<file, idPool, held, msg, fate, takes, strayed>>

LoadEnds ==
    /\ pc = "load" /\ offset = EndOfFetch
    /\ pc' = "ready"
    /\ offset' = 0
    /\ loaded' = "completed"
    /\ UNCHANGED <<file, idPool, persistId, held, queue, msg, fate, takes, strayed>>

(* The application gets a loaded message from the queue. *)
GetsLoaded ==
    /\ pc = "ready"
    /\ queue # <<>>
    /\ held' = held \cup {Head(queue)}
    /\ queue' = Tail(queue)
    /\ loaded' = "none"
    /\ UNCHANGED <<file, idPool, persistId, pc, msg, offset, fate, takes, strayed>>

-----------------------------------------------------------------------------
(* The process dies, or closes the store: what is in memory is gone. *)
Dies ==
    /\ pc # "closed"
    /\ pc' = "closed"
    /\ persistId' = [m \in Messages |-> Invalid]
    /\ held' = {} /\ queue' = <<>> /\ msg' = None /\ offset' = 0 /\ loaded' = "none"
    /\ UNCHANGED <<file, idPool, fate, takes, strayed>>

(* qc_psist_open of the file that is there, with a pool of all the ids. *)
Reopens ==
    /\ pc = "closed"
    /\ pc' = "ready"
    /\ idPool' = FullList(CountLimit)
    /\ fate' = [m \in Messages |-> IF fate[m] = "new" THEN "old" ELSE fate[m]]
    /\ takes' = 0
    /\ strayed' = FALSE
    /\ UNCHANGED <<file, persistId, held, queue, msg, offset, loaded>>

Next == \/ \E m \in Messages : AppendWritesBody(m) \/ AppendFailsAtOnce(m) \/ Remove(m)
        \/ AppendWritesInfo \/ AppendFails
        \/ LoadStarts \/ LoadSkips \/ LoadPuts \/ LoadEnds \/ GetsLoaded
        \/ Dies \/ Reopens

Spec == Init /\ [][Next]_vars

-----------------------------------------------------------------------------
(* Ids are records of the file, in the links of the pool and in messages;  *)
(* the fetch stays inside the file.                                        *)
TypeOK ==
    /\ file \in [Ids -> Records]
    /\ idPool \in StaticLists(CountLimit)
    /\ persistId \in [Messages -> Links(CountLimit)]
    /\ held \in SUBSET Messages
    /\ queue \in Seq(Messages)
    /\ pc \in {"ready", "closed", "append", "load"}
    /\ msg \in Messages \cup {None}
    /\ offset \in Ids
    /\ loaded \in {"none", "completed", "failed"}
    /\ fate \in [Messages -> Fates]
    /\ takes \in 0..(CountLimit + 1)
    /\ strayed \in BOOLEAN

(* Whenever the process dies, the file holds every message whose append    *)
(* succeeded, once and whole, until it is removed; but a message of an     *)
(* earlier session in record n may be hit by take number n of a later one, *)
(* and by nothing else, and a session that strayed may lose its own.       *)
RecordsOf(m) == {i \in Ids : file[i].flag = 1 /\ file[i].info = m}
StoredDurably == \A m \in Messages :
    /\ Cardinality(RecordsOf(m)) = IF fate[m] = "out" THEN 0 ELSE 1
    /\ fate[m] \in {"new", "old"} => \A i \in RecordsOf(m) : file[i].body = m

(* Appends overwrite used records only in ascending order from the first   *)
(* on, each once, and none that this session wrote: however ids were taken,*)
(* put back or lost by failed appends, the id of a used record comes only  *)
(* from the pool's first round.  (A session that strayed may also overwrite*)
(* its own.)                                                               *)
OverwritesInOrder == [][\A i \in Ids :
    file[i].flag = 1 /\ file'[i] # file[i] /\ file'[i].flag = 1
        => /\ fate[file[i].info] # "new"
           /\ i = takes' - 1 \/ (strayed /\ fate[file[i].info] = "hit")]_vars

(* Ids lead to the right record: a message in memory that is in the file   *)
(* knows its own, and one whose record an append took does not know that of*)
(* an earlier session's message, so that removing a message never removes  *)
(* another of those; and the pool has every id at most once, none of a     *)
(* message of this session, and that of any other used record only where   *)
(* the first round comes to it.                                            *)
PoolOrder(l, s) ==
    /\ \A j, k \in DOMAIN s : s[j] = s[k] => j = k
    /\ l.head = IF s = <<>> THEN Invalid ELSE s[1]
    /\ l.tail = IF s = <<>> THEN Invalid ELSE s[Len(s)]
    /\ \A j \in DOMAIN s : l.next[s[j]] = IF j = Len(s) THEN Invalid ELSE s[j + 1]

IdsTrue ==
    /\ TypeOK
    /\ \A m \in InMemory :
          IF fate[m] # "out"
          THEN persistId[m] \in RecordsOf(m)
          ELSE /\ persistId[m] \in Ids
               /\ \A x \in Messages : persistId[m] \in RecordsOf(x) => fate[x] # "old"
    /\ strayed \/ \E n \in 0..CountLimit : \E s \in [1..n -> Ids] :
          /\ PoolOrder(idPool, s)
          /\ \A j \in 1..n :
                /\ file[s[j]].flag = 1 => s[j] = takes + j - 1 /\ fate[file[s[j]].info] # "new"
                /\ pc = "append" => persistId[msg] # s[j]

(* A load that reports success has queued the stored messages, each once,  *)
(* in the order of their ids; it may miss that of the highest id only.     *)
LoadMissesLastOnly == loaded = "completed" =>
    /\ \A m \in Messages : fate[m] # "out" => RecordsOf(m) = {CountLimit - 1} \/ m \in Queued
    /\ \A m \in Queued : fate[m] # "out"
    /\ \A i, j \in DOMAIN queue : i < j => persistId[queue[i]] < persistId[queue[j]]
=============================================================================
