----------------------------- MODULE LinkedList -----------------------------
(***************************************************************************)
(* The doubly linked list of qc_list.c (QcList) on which the buckets, the  *)
(* tempList, the putters and the getters are kept.  A list is a record     *)
(*   head, tail, cur   the first, last and next enumerated entry, or Null  *)
(*   count                                                                 *)
(*   next, prev, data  of the allocated entries: their domain is the heap, *)
(*                     an entry that has been freed is not in it           *)
(***************************************************************************)
EXTENDS Integers, Sequences

Null == 0

(* qc_list_create. *)
NewList == [head |-> Null, tail |-> Null, cur |-> Null, count |-> 0,
            next |-> <<>>, prev |-> <<>>, data |-> <<>>]

Fresh(l) == CHOOSE e \in 1..(l.count + 1) : e \notin DOMAIN l.next

(* f with the pairs of g added or in place of its own, and without e. *)
With(f, g) == [x \in DOMAIN f \cup DOMAIN g |-> IF x \in DOMAIN g THEN g[x] ELSE f[x]]
Single(x, y) == [z \in {x} |-> y]
Link(f, x, y) == IF x = Null THEN f ELSE With(f, Single(x, y))
Freed(f, e) == [x \in DOMAIN f \ {e} |-> f[x]]

InsertHead(l, d) ==
    LET e == Fresh(l)
    IN  [l EXCEPT !.head = e,
                  !.tail = IF @ = Null THEN e ELSE @,
                  !.count = @ + 1,
                  !.next = Link(@, e, l.head),
                  !.prev = Link(Link(@, l.head, e), e, Null),
                  !.data = Link(@, e, d)]

(* qc_list_inserttail; qc_list_inserttail2 also returns the entry. *)
InsertTail(l, d) ==
    LET e == Fresh(l)
    IN  [l EXCEPT !.head = IF l.tail = Null THEN e ELSE @,
                  !.tail = e,
                  !.count = @ + 1,
                  !.next = Link(Link(@, l.tail, e), e, Null),
                  !.prev = Link(@, e, l.tail),
                  !.data = Link(@, e, d)]
InsertTail2(l, d) == [list |-> InsertTail(l, d), entry |-> Fresh(l)]

Without(l, e, next, prev) ==
    [l EXCEPT !.next = Freed(next, e), !.prev = Freed(prev, e), !.data = Freed(@, e),
              !.count = @ - 1]

(* The rest when the head, or the tail, is taken.  A cursor at the head    *)
(* moves on, one at the tail is at the end.  (The Mutant keeps the tail.)  *)
PopHeadMutant(l) ==
    IF l.head = Null THEN l
    ELSE LET second == l.next[l.head]
             rest == Without(l, l.head, l.next, Link(l.prev, second, Null))
         IN  [rest EXCEPT !.head = second, !.cur = IF @ = l.head THEN second ELSE @]
PopHead(l) ==
    IF l.head = Null THEN l
    ELSE LET second == l.next[l.head]
             rest == Without(l, l.head, l.next, Link(l.prev, second, Null))
         IN  [rest EXCEPT !.head = second, !.cur = IF @ = l.head THEN second ELSE @,
                          !.tail = IF rest.count = 0 THEN Null ELSE @]

PopTail(l) ==
    IF l.head = Null THEN l
    ELSE LET last == l.prev[l.tail]
             rest == Without(l, l.tail, Link(l.next, last, Null), l.prev)
         IN  [rest EXCEPT !.tail = last, !.cur = IF @ = l.tail THEN Null ELSE @,
                          !.head = IF l.tail = @ THEN Null ELSE @]

EnumBegin(l) == [l EXCEPT !.cur = l.head]
EnumEntry(l) == [list  |-> IF l.cur = Null THEN l ELSE [l EXCEPT !.cur = l.next[@]],
                 entry |-> l.cur]

RemoveEntry(l, e) ==
    LET before == l.prev[e]
        after  == l.next[e]
        rest   == Without(l, e, Link(l.next, before, after), Link(l.prev, after, before))
    IN  [rest EXCEPT !.head = IF before = Null THEN after ELSE @,
                     !.tail = IF after = Null THEN before ELSE @,
                     !.cur  = IF @ = e THEN after ELSE @]

(* qc_list_removefirst looks with the list's own cursor and leaves it      *)
(* behind the entry it found, or at the end.                               *)
RECURSIVE RemoveNext(_, _)
RemoveNext(l, d) ==
    LET step == EnumEntry(l)
    IN  IF step.entry = Null THEN step.list
        ELSE IF l.data[step.entry] = d THEN RemoveEntry(step.list, step.entry)
        ELSE RemoveNext(step.list, d)
RemoveFirst(l, d) == RemoveNext(EnumBegin(l), d)

(* qc_list_insertsort, from an entry up to which the list is sorted: the   *)
(* next entry moves before the first one it is smaller than, or becomes    *)
(* the end of the sorted part.                                             *)
RECURSIVE FirstGreater(_, _, _, _)
FirstGreater(l, e, from, key) ==
    IF from = e \/ key[l.data[e]] < key[l.data[from]] THEN from
    ELSE FirstGreater(l, e, l.next[from], key)

RECURSIVE SortFrom(_, _, _)
SortFrom(l, sorted, key) ==
    LET e     == l.next[sorted]
        place == FirstGreater(l, e, l.head, key)
        after == l.next[e]
        p     == l.prev[place]
        moved == [l EXCEPT
                    !.next = Link(Link(Link(@, sorted, after), p, e), e, place),
                    !.prev = Link(Link(Link(@, after, sorted), e, p), place, e),
                    !.head = IF p = Null THEN e ELSE @,
                    !.tail = IF @ = e THEN sorted ELSE @]
    IN  IF e = Null THEN l
        ELSE IF place = e THEN SortFrom(l, e, key)
        ELSE SortFrom(moved, sorted, key)
InsertSort(l, key) == IF l.head = Null THEN l ELSE SortFrom(l, l.head, key)

-----------------------------------------------------------------------------
(* What a list stands for. *)

RECURSIVE ListOf(_)
ListOf(s) == IF s = <<>> THEN NewList
             ELSE InsertTail(ListOf(SubSeq(s, 1, Len(s) - 1)), s[Len(s)])

(* The entries from the head on. *)
Walk(l) == LET w[i \in 1..l.count] == IF i = 1 THEN l.head ELSE l.next[w[i - 1]] IN w

(* l lists the data of s in this order, with the cursor at the k-th of them*)
(* or at the end, and no other entry is allocated.                         *)
Lists(l, s, k) ==
    LET o == Walk(l)
    IN  /\ l.count = Len(s)
        /\ DOMAIN l.next = {o[i] : i \in DOMAIN s}
        /\ l.head = IF s = <<>> THEN Null ELSE o[1]
        /\ l.tail = IF s = <<>> THEN Null ELSE o[Len(s)]
        /\ l.cur = IF k \in DOMAIN s THEN o[k] ELSE Null
        /\ \A i \in DOMAIN s :
              /\ l.data[o[i]] = s[i]
              /\ l.prev[o[i]] = IF i = 1 THEN Null ELSE o[i - 1]
              /\ l.next[o[i]] = IF i = Len(s) THEN Null ELSE o[i + 1]
=============================================================================
