---------------------------- MODULE QueueSystem -----------------------------
(***************************************************************************)
(* The queue system (qc_qsystem.c over qc_qmanager.c): an application adds *)
(* and deletes queues by name and at last destroys the system with the     *)
(* queues still in its table.                                              *)
(***************************************************************************)
EXTENDS QueueTable, FiniteSets

VARIABLES
    table,        \* queueTable, None when it is freed
    bound,        \* history: the queues added under each name, whatever its
                  \*   case, oldest first
    enum,         \* the table's cursor while the system is destroyed, or None
    destroyed     \* the queues qc_qmng_destory has destroyed, in order

tableVars == <<table, bound, enum, destroyed>>

Bound == {Folded(n) : n \in Names}

TableInit == /\ table = EmptyTable
             /\ bound = [n \in Bound |-> <<>>]
             /\ enum = None
             /\ destroyed = <<>>

(* qc_qsys_addqueue.  A queue is added once: the caller gives it up. *)
AddQueue(n, q) ==
    /\ enum = None
    /\ \A m \in Bound : \A i \in DOMAIN bound[m] : bound[m][i] # q
    /\ table' = Inserted(table, n, q)
    /\ bound' = [bound EXCEPT ![Folded(n)] = Append(@, q)]
    /\ UNCHANGED <<enum, destroyed>>

(* qc_qsys_delqueue, which reports the deletion of an entry as a failure   *)
(* and that of a name it does not have as a success.                       *)
DelQueue(n) ==
    /\ enum = None
    /\ table' = DeletedFrom(table, n)
    /\ bound' = IF DeleteReport(table, n) = 0 THEN bound
                ELSE [bound EXCEPT ![Folded(n)] = SubSeq(@, 1, Len(@) - 1)]
    /\ UNCHANGED <<enum, destroyed>>

(* qc_qsys_destory: enumerates the table and destroys each queue, and frees*)
(* the table at the end.                                                   *)
DestroyBegins ==
    /\ enum = None
    /\ enum' = EnumAt(table, EnumBegin)
    /\ UNCHANGED <<table, bound, destroyed>>

DestroysOne ==
    /\ enum # None /\ ~EnumDone(enum)
    /\ destroyed' = Append(destroyed, EnumData(table, enum))
    /\ enum' = LET next == EnumNext(enum)
               IN  IF next.bucket_no = BucketCount THEN next ELSE EnumAt(table, next)
    /\ UNCHANGED <<table, bound>>

(* qc_hashtbl_destroy: the entries and the table, not what they name. *)
DestroyEnds ==
    /\ enum # None /\ EnumDone(enum)
    /\ table # None /\ table' = None
    /\ UNCHANGED <<bound, enum, destroyed>>

TableNext == \/ \E n \in Names : DelQueue(n) \/ \E q \in Queues : AddQueue(n, q)
             \/ DestroyBegins \/ DestroysOne \/ DestroyEnds

TableSpec == TableInit /\ [][TableNext]_tableVars

-----------------------------------------------------------------------------
BoundQueues == UNION {{bound[n][i] : i \in DOMAIN bound[n]} : n \in Bound}

(* The table answers each name with the queue added last of those not      *)
(* deleted, whatever else shares its bucket and however the name is        *)
(* written, and counts its entries (qc_hashtbl_insert, find and delete,    *)
(* qc_hashstring and qc_strcompare).                                       *)
TableMatches == table # None =>
    /\ \A n \in Names :
          LET added == bound[Folded(n)]
          IN  Found(table, n) = IF added = <<>> THEN None ELSE added[Len(added)]
    /\ table.entry_count = Cardinality(BoundQueues)

(* Destroying the system destroys every queue of the table, those hidden by*)
(* a newer one of the same name included, and none twice (the enumeration  *)
(* of qc_qmng_destory).                                                    *)
DestroyedOnce ==
    /\ \A i, j \in DOMAIN destroyed : destroyed[i] = destroyed[j] => i = j
    /\ {destroyed[i] : i \in DOMAIN destroyed} \subseteq BoundQueues
    /\ (enum # None /\ EnumDone(enum)) => Len(destroyed) = Cardinality(BoundQueues)
=============================================================================
