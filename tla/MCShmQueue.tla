----------------------------- MODULE MCShmQueue -----------------------------
(***************************************************************************)
(* TLC instances of ShmQueue, and the operations of the static list checked*)
(* against operations on sequences, on every list the queue can reach.     *)
(***************************************************************************)
EXTENDS ShmQueue, TLC, SequencesExt

CONSTANTS s1, s2,      \* pushing processes
          r1, r2,      \* pulling processes
          m1, m2       \* messages

TwoPushers == {s1, s2}
TwoPullers == {r1, r2}
TwoMessages == {m1, m2}

-----------------------------------------------------------------------------
(* qc_staticlist_clear as it is written: heads taken one by one. *)
ClearLoop[n \in 0..QueSize] ==
    IF n = 0 THEN FullList(QueSize) ELSE WithoutHead(ClearLoop[n - 1])

(* Every operation of the static list does to the links what the operation *)
(* on sequences does to the order: also those no caller uses.              *)
ListMatchesSequence(l) ==
    LET s == Order(l)
        listed == ToSet(s)
    IN  /\ s # <<>> => /\ Represents(WithoutHead(l), Tail(s))
                       /\ Represents(WithoutTail(l), Front(s))
        /\ \A c \in Cells \ listed :
              /\ Represents(WithTail(l, c), Append(s, c))
              /\ Represents(WithHead(l, c), <<c>> \o s)
              /\ \A i \in DOMAIN s :
                    Represents(WithCellAfter(l, s[i], c), InsertAt(s, i + 1, c))
        /\ \A i \in DOMAIN s : Represents(WithoutCell(l, s[i]), RemoveAt(s, i))
        /\ listed = Linked(l)

ListOperationsMatch ==
    /\ ListMatchesSequence(used)
    /\ ListMatchesSequence(free)
    /\ ClearLoop[QueSize] = ClearedList(QueSize)
=============================================================================
