----------------------------- MODULE StaticList -----------------------------
(***************************************************************************)
(* The list over an array of cells of qc_list.c (QcStaticList): cells are  *)
(* linked by their indexes, so that it works in memory that processes map  *)
(* at different addresses.  A list is a record                             *)
(*   head, tail   the first and last listed cell, or Invalid               *)
(*   num          the number of listed cells                               *)
(*   prev, next   the links of every cell, listed or not                   *)
(* Adding does not look whether the cell is listed already; taking a cell  *)
(* out clears its links.                                                   *)
(***************************************************************************)
EXTENDS Integers, Sequences

Invalid == -99                               \* QC_INVALID_INT

CellsOf(n) == 0..(n - 1)
Links(n)   == CellsOf(n) \cup {Invalid}

StaticLists(n) == [head : Links(n), tail : Links(n), num : Int,
                   prev : [CellsOf(n) -> Links(n)], next : [CellsOf(n) -> Links(n)]]

(* qc_staticlist_init: every cell is listed, in order of index. *)
FullList(n) ==
    [head |-> 0, tail |-> n - 1, num |-> n,
     prev |-> [c \in CellsOf(n) |-> IF c = 0 THEN Invalid ELSE c - 1],
     next |-> [c \in CellsOf(n) |-> IF c = n - 1 THEN Invalid ELSE c + 1]]

(* qc_staticlist_clear of a full list: its heads taken one by one. *)
ClearedList(n) ==
    [head |-> Invalid, tail |-> Invalid, num |-> 0,
     prev |-> [c \in CellsOf(n) |-> Invalid], next |-> [c \in CellsOf(n) |-> Invalid]]

(* The rest of l when its head has been taken; nothing to do if empty.     *)
(* (The Mutant forgets that the new head has no predecessor any more.)     *)
WithoutHeadMutant(l) ==
    [head |-> l.next[l.head], tail |-> l.tail, num |-> l.num - 1, prev |-> l.prev,
     next |-> [l.next EXCEPT ![l.head] = Invalid]]
WithoutHead(l) ==
    IF l.head = Invalid THEN l
    ELSE LET second == l.next[l.head]
         IN  [head |-> second,
              tail |-> IF second = Invalid THEN Invalid ELSE l.tail,
              num  |-> l.num - 1,
              prev |-> [c \in DOMAIN l.prev |->
                           IF c \in {l.head, second} THEN Invalid ELSE l.prev[c]],
              next |-> [l.next EXCEPT ![l.head] = Invalid]]

WithTail(l, c) ==
    IF l.head = Invalid
    THEN [head |-> c, tail |-> c, num |-> 1,
          prev |-> [l.prev EXCEPT ![c] = Invalid],
          next |-> [l.next EXCEPT ![c] = Invalid]]
    ELSE [head |-> l.head, tail |-> c, num |-> l.num + 1,
          prev |-> [l.prev EXCEPT ![c] = l.tail],
          next |-> [l.next EXCEPT ![c] = Invalid, ![l.tail] = c]]

(* The mirror images of these two. *)
WithoutTail(l) ==
    IF l.tail = Invalid THEN l
    ELSE LET second == l.prev[l.tail]
         IN  [head |-> IF second = Invalid THEN Invalid ELSE l.head,
              tail |-> second,
              num  |-> l.num - 1,
              prev |-> [l.prev EXCEPT ![l.tail] = Invalid],
              next |-> [c \in DOMAIN l.next |->
                           IF c \in {l.tail, second} THEN Invalid ELSE l.next[c]]]

WithHead(l, c) ==
    IF l.head = Invalid
    THEN WithTail(l, c)
    ELSE [head |-> c, tail |-> l.tail, num |-> l.num + 1,
          prev |-> [l.prev EXCEPT ![c] = Invalid, ![l.head] = c],
          next |-> [l.next EXCEPT ![c] = l.head]]

(* Taking a cell from anywhere.  Whether it is listed is not looked at. *)
WithoutCell(l, c) ==
    IF l.head = Invalid THEN l
    ELSE LET before == l.prev[c]
             after  == l.next[c]
         IN  [head |-> IF before = Invalid THEN after ELSE l.head,
              tail |-> IF after = Invalid THEN before ELSE l.tail,
              num  |-> l.num - 1,
              prev |-> [x \in DOMAIN l.prev |->
                           IF x = c THEN Invalid ELSE IF x = after THEN before ELSE l.prev[x]],
              next |-> [x \in DOMAIN l.next |->
                           IF x = c THEN Invalid ELSE IF x = before THEN after ELSE l.next[x]]]

(* Putting a cell behind another one. *)
WithCellAfter(l, b, c) ==
    IF l.head = Invalid THEN l
    ELSE LET after == l.next[b]
         IN  [head |-> l.head,
              tail |-> IF after = Invalid THEN c ELSE l.tail,
              num  |-> l.num + 1,
              prev |-> [x \in DOMAIN l.prev |->
                           IF x = c THEN b ELSE IF x = after THEN c ELSE l.prev[x]],
              next |-> [x \in DOMAIN l.next |->
                           IF x = b THEN c ELSE IF x = c THEN after ELSE l.next[x]]]

-----------------------------------------------------------------------------
(* What a list stands for. *)

(* l lists exactly the cells of s, in that order, each once, with all the  *)
(* links that say so, and no cell outside it has a link.                   *)
Represents(l, s) ==
    /\ \A i, j \in DOMAIN s : s[i] = s[j] => i = j
    /\ l.num = Len(s)
    /\ l.head = IF s = <<>> THEN Invalid ELSE s[1]
    /\ l.tail = IF s = <<>> THEN Invalid ELSE s[Len(s)]
    /\ \A i \in DOMAIN s :
          /\ l.prev[s[i]] = IF i = 1 THEN Invalid ELSE s[i - 1]
          /\ l.next[s[i]] = IF i = Len(s) THEN Invalid ELSE s[i + 1]
    /\ \A c \in DOMAIN l.next :
          (\A i \in DOMAIN s : s[i] # c) => l.prev[c] = Invalid /\ l.next[c] = Invalid

WellFormed(l) == \E s \in [1..l.num -> DOMAIN l.next] : Represents(l, s)

(* The order of the cells of a well-formed list. *)
Order(l) == CHOOSE s \in [1..l.num -> DOMAIN l.next] : Represents(l, s)

(* The listed cells, as their links show. *)
Linked(l) == {c \in DOMAIN l.next : c = l.head \/ l.prev[c] # Invalid}
=============================================================================
