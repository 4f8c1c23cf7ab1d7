----------------------------- MODULE MCMsgChain -----------------------------
(***************************************************************************)
(* TLC instances of MsgChain, and the literal translation of the search    *)
(* loop of qc_msgchain_popmsg that the closed form Pops is checked against.*)
(***************************************************************************)
EXTENDS MsgChain, TLC, SequencesExt

LL == INSTANCE LinkedList

CONSTANTS h1, h2, m1, m2, l1,     \* messages of priority 3, 2 and 1
          z1                      \* and of 0, which setpriority accepts

ThreeLevels == {h1, h2, m1, m2, l1}
AnyLevel    == ThreeLevels \cup {z1}
AnyPrio     == [m \in Messages |-> CASE m \in {h1, h2} -> 3 [] m \in {m1, m2} -> 2
                                     [] m = l1 -> 1          [] m = z1 -> 0]

-----------------------------------------------------------------------------
(* The "locate the cursor" loop; 0 stands for its failed assertion. *)
RECURSIVE Locate(_, _)
Locate(b, p) == IF p = 0 THEN 0
                ELSE IF Len(b.bucket[p]) > 0 THEN p ELSE Locate(b, p - 1)

(* The try_loop of qc_msgchain_popmsg, from bucket p, in its given cycle.  *)
(* {} stands for either failed assertion (bucket_sn>=0, cycle == 0).       *)
RECURSIVE TryLoop(_, _, _, _)
TryLoop(b, top, p, cycle) ==
    IF b.popc[p] < p
    THEN IF Len(b.bucket[p]) > 0
         THEN {TakenFrom(b, p, top, [b.popc EXCEPT ![p] = @ + 1])}
         ELSE IF p = 1 THEN {} ELSE TryLoop(b, top, p - 1, cycle)
    ELSE IF Len(b.bucket[p]) = b.count
         THEN {TakenFrom(b, p, top, b.popc)}
         ELSE LET next == [b EXCEPT !.popc[p] = 0]
              IN  IF p > 1 THEN TryLoop(next, top, p - 1, cycle)
                  ELSE IF cycle = 1 THEN {}
                  ELSE TryLoop(next, top, PriorityMax, 1)

LoopPops(b) == LET top == Locate(b, b.cursor)
               IN  IF top = 0 THEN {} ELSE TryLoop(b, top, top, 0)

(* The closed form of the search and the loop of the code take the same    *)
(* message and leave the same chain, or fail together.                     *)
SearchMatchesLoop == chain.count > 0 => Pops(chain) = LoopPops(chain)

(* How long the weights 1, 2 and 3 really make a nonempty bucket wait, in  *)
(* pops of other buckets.  Taking turns would be at most 5, 4 and 3; but a *)
(* turn reset when the search wraps is lost, and the cursor restarts the   *)
(* search at the top.                                                      *)
BypassBounded == bypassed[1] <= 22 /\ bypassed[2] <= 7 /\ bypassed[3] <= 1

-----------------------------------------------------------------------------
(* Every operation of the linked list does to the entries and the cursor   *)
(* what the operation on sequences does, on the messages of the chain in   *)
(* the order of the buckets, wherever the cursor is: also the operations   *)
(* that no caller uses.  A cursor never points to a freed entry.           *)
Chained == chain.bucket[3] \o chain.bucket[2] \o chain.bucket[1]

Stable(s, key) == SelectSeq(s, LAMBDA m : key[m] = 1) \o SelectSeq(s, LAMBDA m : key[m] = 2)

LinkedListMatches ==
    LET s == Chained
        l == LL!ListOf(s)
        listed == ToSet(s)
    IN  /\ LL!Lists(LL!EnumBegin(l), s, 1)
        /\ \A k \in 1..(Len(s) + 1) :
              LET c == [l EXCEPT !.cur = IF k \in DOMAIN s THEN k ELSE LL!Null]
                  After(i) == IF i < k THEN k - 1 ELSE k
              IN  /\ s # <<>> => /\ LL!Lists(LL!PopHead(c), Tail(s), After(1))
                                 /\ LL!Lists(LL!PopTail(c), Front(s), k)
                  /\ LL!Lists(LL!EnumEntry(c).list, s, k + 1)
                  /\ \A m \in Messages \ listed :
                        /\ LL!Lists(LL!InsertTail2(c, m).list, Append(s, m), IF k > Len(s) THEN 0 ELSE k)
                        /\ LL!Lists(LL!InsertHead(c, m), <<m>> \o s, k + 1)
                        /\ LL!Lists(LL!RemoveFirst(c, m), s, 0)
                  /\ \A i \in DOMAIN s :
                        /\ LL!Lists(LL!RemoveEntry(c, i), RemoveAt(s, i), After(i))
                        /\ LL!Lists(LL!RemoveFirst(c, s[i]), RemoveAt(s, i), i)
        /\ \A key \in [listed -> 1..2] :
              LL!Lists(LL!EnumBegin(LL!InsertSort(l, key)), Stable(s, key), 1)
=============================================================================
