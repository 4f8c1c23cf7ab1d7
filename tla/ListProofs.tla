----------------------------- MODULE ListProofs -----------------------------
(***************************************************************************)
(* Proofs about the operations on lists that the other proofs build on: the*)
(* static lists of an array of any size (StaticList), and the buckets of   *)
(* messages or putters for any number of priorities (PriorityBuckets).     *)
(***************************************************************************)
EXTENDS StaticList, PriorityBuckets, FiniteSetTheorems, FunctionTheorems, SequenceTheorems, TLAPS

-----------------------------------------------------------------------------
(***************************************************************************)
(* What the operations of StaticList do to the sequence of cells a list    *)
(* stands for, for an array of any size: a well-formed list has one order, *)
(* its links show which cells are listed, adding at the tail appends to the*)
(* order, and taking the head leaves the order's tail.                     *)
(***************************************************************************)

(* The cells of a sequence. *)
CellsIn(s) == {s[i] : i \in DOMAIN s}

-----------------------------------------------------------------------------
(* Induction, by way of sets: a set of naturals that is not empty has a    *)
(* least element.                                                          *)
LEMMA LeastNatural ==
    ASSUME NEW T \in SUBSET Nat, T # {}
    PROVE  \E x \in T : \A y \in T : x <= y
<1>1. PICK n \in T : TRUE
  OBVIOUS
<1> DEFINE Below(m) == 0..m
           S == 0..n
           Segments == {Below(m) : m \in {k \in T : k <= n}}
<1>2. IsWellFoundedOn(StrictSubsetOrdering(S), SUBSET S)
  <2>1. IsFiniteSet(S)
    BY <1>1, FS_Interval
  <2> HIDE DEF S
  <2>2. FiniteSubsetsOf(S) = SUBSET S
    BY <2>1, FS_FiniteSubsetsOfFinite
  <2>3. IsWellFoundedOn(StrictSubsetOrdering(S), FiniteSubsetsOf(S))
    BY FS_StrictSubsetOrderingWellFounded
  <2> QED
    BY <2>2, <2>3
<1>3. Segments \subseteq SUBSET S /\ Segments # {}
  BY <1>1
<1>4. PICK g \in Segments : \A h \in Segments : <<h, g>> \notin StrictSubsetOrdering(S)
  BY <1>2, <1>3, WFMin
<1>5. PICK m \in T : m <= n /\ g = Below(m)
  BY <1>4
<1>6. ASSUME NEW y \in T, y < m PROVE FALSE
  <2>1. Below(y) \in Segments
    BY <1>1, <1>5, <1>6
  <2>2. Below(y) \subseteq g /\ Below(y) # g
    BY <1>5, <1>6
  <2>3. <<Below(y), g>> \in StrictSubsetOrdering(S)
    BY <1>3, <2>1, <2>2 DEF StrictSubsetOrdering
  <2> QED
    BY <1>4, <2>1, <2>3
<1> QED
  BY <1>5, <1>6

-----------------------------------------------------------------------------
(* The order of a list. *)

(* A list stands for one sequence only: the first cell is the head, and    *)
(* each cell's link gives the next one.                                    *)
LEMMA OneOrder ==
    ASSUME NEW n \in Nat, NEW l \in StaticLists(n),
           NEW s \in Seq(CellsOf(n)), NEW t \in Seq(CellsOf(n)),
           Represents(l, s), Represents(l, t)
    PROVE  s = t
<1>1. Len(s) = Len(t) /\ Len(s) \in Nat
  BY DEF Represents
<1> DEFINE Differing == {i \in 1..Len(s) : s[i] # t[i]}
<1>2. CASE Differing # {}
  <2>1. PICK i \in Differing : \A j \in Differing : i <= j
    <3>1. Differing \in SUBSET Nat
      OBVIOUS
    <3> HIDE DEF Differing
    <3> QED
      BY <1>2, <3>1, LeastNatural
  <2>2. CASE i = 1
    BY <1>1, <2>1, <2>2 DEF Represents
  <2>3. CASE i # 1
    <3>1. i - 1 \in 1..Len(s) /\ i - 1 \notin Differing
      BY <1>1, <2>1, <2>3
    <3>2. i - 1 \in DOMAIN s /\ i - 1 \in DOMAIN t /\ i - 1 # Len(s) /\ i - 1 # Len(t)
      BY <1>1, <2>1, <3>1
    <3>3. /\ \A k \in DOMAIN s : k # Len(s) => l.next[s[k]] = s[k + 1]
          /\ \A k \in DOMAIN t : k # Len(t) => l.next[t[k]] = t[k + 1]
      BY DEF Represents
    <3>4. i = (i - 1) + 1
      BY <2>1
    <3>5. s[i] = l.next[s[i - 1]] /\ t[i] = l.next[t[i - 1]]
      BY <3>2, <3>3, <3>4
    <3> QED
      BY <2>1, <3>1, <3>5
  <2> QED
    BY <2>2, <2>3
<1>3. CASE Differing = {}
  BY <1>1, <1>3, SeqEqual
<1> QED
  BY <1>2, <1>3

(* A function on 1..num that a list stands for is a sequence. *)
LEMMA OrderIsSequence ==
    ASSUME NEW n \in Nat, NEW l \in StaticLists(n),
           NEW s \in [1..l.num -> DOMAIN l.next], Represents(l, s)
    PROVE  s \in Seq(CellsOf(n))
<1>1. l.num \in Int /\ DOMAIN l.next = CellsOf(n) /\ l.num = Len(s)
  BY DEF StaticLists, Represents
<1>2. CASE l.num \in Nat
  BY <1>1, <1>2
<1>3. CASE l.num < 0
  <2>1. s = <<>>
    BY <1>1, <1>3
  <2> QED
    BY <1>1, <1>3, <2>1
<1> QED
  BY <1>1, <1>2, <1>3

(* So a list that stands for a sequence is well-formed and has it as order.*)
LEMMA OrderIs ==
    ASSUME NEW n \in Nat, NEW l \in StaticLists(n),
           NEW s \in Seq(CellsOf(n)), Represents(l, s)
    PROVE  WellFormed(l) /\ Order(l) = s
<1>1. DOMAIN l.next = CellsOf(n)
  BY DEF StaticLists
<1>2. s \in [1..l.num -> DOMAIN l.next]
  BY <1>1 DEF Represents
<1>3. ASSUME NEW t \in [1..l.num -> DOMAIN l.next], Represents(l, t)
      PROVE  t = s
  <2>1. t \in Seq(CellsOf(n))
    BY <1>3, OrderIsSequence
  <2> QED
    BY <1>3, <2>1, OneOrder
<1> QED
  BY <1>2, <1>3 DEF WellFormed, Order

(* ... and a well-formed list stands for its order. *)
LEMMA OrderRepresents ==
    ASSUME NEW n \in Nat, NEW l \in StaticLists(n), WellFormed(l)
    PROVE  /\ Order(l) \in Seq(CellsOf(n))
           /\ Represents(l, Order(l))
<1>1. PICK s \in [1..l.num -> DOMAIN l.next] : Represents(l, s)
  BY DEF WellFormed
<1>2. s \in Seq(CellsOf(n))
  BY <1>1, OrderIsSequence
<1> QED
  BY <1>1, <1>2, OrderIs

(* The links show the listed cells. *)
LEMMA LinkedIsListed ==
    ASSUME NEW n \in Nat, NEW l \in StaticLists(n),
           NEW s \in Seq(CellsOf(n)), Represents(l, s)
    PROVE  Linked(l) = CellsIn(s)
<1>1. ASSUME NEW c \in DOMAIN l.next, c \notin CellsIn(s) PROVE c \notin Linked(l)
  <2>1. l.prev[c] = Invalid /\ c # Invalid
    BY <1>1 DEF Represents, CellsIn, StaticLists, Invalid, CellsOf
  <2>2. c # l.head
    BY <1>1, <2>1 DEF Represents, CellsIn
  <2> QED
    BY <2>1, <2>2 DEF Linked
<1>2. ASSUME NEW i \in DOMAIN s PROVE s[i] \in Linked(l)
  <2>1. s[i] \in CellsOf(n) /\ DOMAIN l.next = CellsOf(n)
    BY <1>2 DEF StaticLists
  <2>2. CASE i = 1
    BY <1>2, <2>1, <2>2 DEF Represents, Linked
  <2>3. CASE i # 1
    <3>1. s[i - 1] \in CellsOf(n)
      BY <1>2, <2>3
    <3>2. l.prev[s[i]] = s[i - 1]
      BY <1>2, <2>3 DEF Represents
    <3> QED
      BY <2>1, <3>1, <3>2 DEF Linked, CellsOf, Invalid
  <2> QED
    BY <2>2, <2>3
<1> QED
  BY <1>1, <1>2 DEF CellsIn, Linked

(* A function that gives no value twice keeps the size of a set. *)
LEMMA OneToOneCounted ==
    ASSUME NEW S, IsFiniteSet(S), NEW f, DOMAIN f = S,
           \A x, y \in S : f[x] = f[y] => x = y
    PROVE  /\ IsFiniteSet({f[x] : x \in S})
           /\ Cardinality({f[x] : x \in S}) = Cardinality(S)
<1> DEFINE T == {f[x] : x \in S}
           g == [x \in S |-> f[x]]
<1>1. /\ g \in [S -> T]
      /\ \A x, y \in S : g[x] = g[y] => x = y
      /\ \A t \in T : \E x \in S : g[x] = t
  OBVIOUS
<1> HIDE DEF g, T
<1>2. g \in Bijection(S, T)
  BY <1>1, Fun_IsBij
<1>3. ExistsBijection(S, T)
  BY <1>2 DEF ExistsBijection
<1>4. IsFiniteSet(T) /\ Cardinality(T) = Cardinality(S)
  BY <1>3, FS_Bijection
<1> QED
  BY <1>4 DEF T

(* num is the number of listed cells. *)
LEMMA LinkedCounted ==
    ASSUME NEW n \in Nat, NEW l \in StaticLists(n), WellFormed(l)
    PROVE  IsFiniteSet(Linked(l)) /\ Cardinality(Linked(l)) = l.num
<1> DEFINE s == Order(l)
<1>1. s \in Seq(CellsOf(n)) /\ Represents(l, s)
  BY OrderRepresents
<1> HIDE DEF s
<1>2. /\ DOMAIN s = 1..l.num /\ l.num \in Nat
      /\ \A i, j \in DOMAIN s : s[i] = s[j] => i = j
  BY <1>1 DEF Represents
<1>3. IsFiniteSet(DOMAIN s) /\ Cardinality(DOMAIN s) = l.num
  <2>1. 1 \in Int /\ l.num \in Int
    BY <1>2
  <2>2. IsFiniteSet(1..l.num) /\ Cardinality(1..l.num) = IF 1 > l.num THEN 0 ELSE l.num - 1 + 1
    BY <2>1, FS_Interval
  <2> QED
    BY <1>2, <2>2
<1>4. Linked(l) = {s[i] : i \in DOMAIN s}
  BY <1>1, LinkedIsListed DEF CellsIn
<1>5. /\ IsFiniteSet({s[i] : i \in DOMAIN s})
      /\ Cardinality({s[i] : i \in DOMAIN s}) = Cardinality(DOMAIN s)
  BY <1>2, <1>3, OneToOneCounted
<1> QED
  BY <1>3, <1>4, <1>5

-----------------------------------------------------------------------------
(* Initial lists. *)

(* After qc_staticlist_init the cells are listed by index. *)
LEMMA FullListOrder ==
    ASSUME NEW n \in Nat \ {0}
    PROVE  /\ FullList(n) \in StaticLists(n)
           /\ WellFormed(FullList(n))
           /\ Linked(FullList(n)) = CellsOf(n)
<1> DEFINE s == [i \in 1..n |-> i - 1]
<1>1. s \in Seq(CellsOf(n)) /\ Len(s) = n /\ DOMAIN s = 1..n
  BY DEF CellsOf
<1>2. FullList(n) \in StaticLists(n)
  BY DEF FullList, StaticLists, Links, CellsOf
<1>3. Represents(FullList(n), s)
  BY <1>1 DEF Represents, FullList, CellsOf
<1>4. CellsIn(s) = CellsOf(n)
  <2>1. ASSUME NEW c \in CellsOf(n) PROVE c = s[c + 1] /\ c + 1 \in DOMAIN s
    BY <2>1, <1>1 DEF CellsOf
  <2> QED
    BY <1>1, <2>1 DEF CellsIn, CellsOf
<1> HIDE DEF s
<1> QED
  BY <1>1, <1>2, <1>3, <1>4, OrderIs, LinkedIsListed

(* A cleared list is empty. *)
LEMMA ClearedListOrder ==
    ASSUME NEW n \in Nat \ {0}
    PROVE  /\ ClearedList(n) \in StaticLists(n)
           /\ WellFormed(ClearedList(n))
           /\ Order(ClearedList(n)) = <<>>
           /\ Linked(ClearedList(n)) = {}
<1>1. ClearedList(n) \in StaticLists(n)
  BY DEF ClearedList, StaticLists, Links
<1>2. Represents(ClearedList(n), <<>>)
  BY DEF Represents, ClearedList
<1>3. CellsIn(<<>>) = {} /\ <<>> \in Seq(CellsOf(n))
  BY DEF CellsIn
<1> QED
  BY <1>1, <1>2, <1>3, OrderIs, LinkedIsListed

-----------------------------------------------------------------------------
(* Adding at the tail. *)

(* No link leaves the array, even if the cell is listed already.           *)
LEMMA TailTyped ==
    ASSUME NEW n \in Nat, NEW l \in StaticLists(n), NEW c \in CellsOf(n)
    PROVE  WithTail(l, c) \in StaticLists(n)
<1> DEFINE r == WithTail(l, c)
<1>1. /\ l.head \in Links(n) /\ l.tail \in Links(n) /\ l.num \in Int
      /\ l.prev \in [CellsOf(n) -> Links(n)] /\ l.next \in [CellsOf(n) -> Links(n)]
  BY DEF StaticLists
<1>2. c \in Links(n) /\ Invalid \in Links(n)
  BY DEF Links
<1>3. CASE l.head = Invalid
  BY <1>1, <1>2, <1>3 DEF StaticLists, WithTail
<1>4. CASE l.head # Invalid
  <2>1. /\ r = [head |-> l.head, tail |-> c, num |-> l.num + 1,
                prev |-> [l.prev EXCEPT ![c] = l.tail],
                next |-> [l.next EXCEPT ![c] = Invalid, ![l.tail] = c]]
        /\ [l.prev EXCEPT ![c] = l.tail] \in [CellsOf(n) -> Links(n)]
        /\ [l.next EXCEPT ![c] = Invalid, ![l.tail] = c] \in [CellsOf(n) -> Links(n)]
    BY <1>1, <1>2, <1>4 DEF WithTail
  <2> QED
    BY <1>1, <1>2, <2>1 DEF StaticLists
<1> QED
  BY <1>3, <1>4

(* Adding a cell that is not listed appends it to the order. *)
LEMMA TailAdded ==
    ASSUME NEW n \in Nat, NEW l \in StaticLists(n), NEW c \in CellsOf(n),
           WellFormed(l), c \notin Linked(l)
    PROVE  /\ WithTail(l, c) \in StaticLists(n)
           /\ WellFormed(WithTail(l, c))
           /\ Order(WithTail(l, c)) = Append(Order(l), c)
           /\ Linked(WithTail(l, c)) = Linked(l) \cup {c}
           /\ WithTail(l, c).num = l.num + 1
<1> DEFINE s == Order(l)
           r == WithTail(l, c)
           a == Append(s, c)
<1>1. s \in Seq(CellsOf(n)) /\ Represents(l, s)
  BY OrderRepresents
<1> HIDE DEF s
<1>2. \A i \in DOMAIN s : s[i] # c
  BY <1>1, LinkedIsListed DEF CellsIn
<1>3. /\ a \in Seq(CellsOf(n))
      /\ Len(a) = Len(s) + 1
      /\ \A i \in 1..Len(s) : a[i] = s[i]
      /\ a[Len(s) + 1] = c
  BY <1>1, AppendProperties
<1>4. r \in StaticLists(n)
  BY TailTyped
<1>5. Represents(r, a)
  <2>1. CASE s = <<>>
    BY <1>1, <1>2, <1>3, <2>1 DEF Represents, WithTail, StaticLists
  <2>2. CASE s # <<>>
    <3>1. Len(s) \in Nat \ {0} /\ l.head # Invalid /\ l.tail = s[Len(s)] /\ l.tail \in CellsOf(n)
      BY <1>1, <2>2 DEF Represents, Invalid, CellsOf
    <3>2. r = [head |-> l.head, tail |-> c, num |-> l.num + 1,
               prev |-> [l.prev EXCEPT ![c] = l.tail],
               next |-> [l.next EXCEPT ![c] = Invalid, ![l.tail] = c]]
      BY <3>1 DEF WithTail
    <3> QED
      BY <1>1, <1>2, <1>3, <2>2, <3>1, <3>2 DEF Represents, StaticLists
  <2> QED
    BY <2>1, <2>2
<1>6. CellsIn(a) = CellsIn(s) \cup {c}
  BY <1>1, <1>3 DEF CellsIn
<1>7. Order(r) = a /\ WellFormed(r) /\ Linked(r) = CellsIn(a)
  BY <1>3, <1>4, <1>5, OrderIs, LinkedIsListed
<1>8. Linked(l) = CellsIn(s)
  BY <1>1, LinkedIsListed
<1>9. r.num = l.num + 1
  BY <1>1, <1>3, <1>5 DEF Represents
<1> QED
  BY <1>4, <1>6, <1>7, <1>8, <1>9 DEF s

-----------------------------------------------------------------------------
(* Taking the head. *)

(* An empty list has no head, one that is not empty has its first cell. *)
LEMMA HeadOfList ==
    ASSUME NEW n \in Nat, NEW l \in StaticLists(n), WellFormed(l)
    PROVE  /\ l.num = Len(Order(l)) /\ l.num \in Nat
           /\ l.head = Invalid <=> l.num = 0
           /\ l.head # Invalid => /\ l.head \in Linked(l) /\ l.head = Head(Order(l))
                                  /\ l.head \in CellsOf(n) /\ Order(l) # <<>>
<1>1. Order(l) \in Seq(CellsOf(n)) /\ Represents(l, Order(l))
  BY OrderRepresents
<1>2. Linked(l) = CellsIn(Order(l))
  BY <1>1, LinkedIsListed
<1> QED
  BY <1>1, <1>2 DEF Represents, CellsIn, Invalid, CellsOf

(* Taking the head of a list leaves the rest of its order. *)
LEMMA HeadTaken ==
    ASSUME NEW n \in Nat, NEW l \in StaticLists(n), WellFormed(l), l.head # Invalid
    PROVE  /\ WithoutHead(l) \in StaticLists(n)
           /\ WellFormed(WithoutHead(l))
           /\ Order(WithoutHead(l)) = Tail(Order(l))
           /\ Linked(WithoutHead(l)) = Linked(l) \ {l.head}
           /\ WithoutHead(l).num = l.num - 1
<1> DEFINE s == Order(l)
           r == WithoutHead(l)
           a == Tail(s)
<1>1. s \in Seq(CellsOf(n)) /\ Represents(l, s)
  BY OrderRepresents
<1> HIDE DEF s
<1>2. s # <<>> /\ Len(s) \in Nat \ {0} /\ l.head = s[1] /\ DOMAIN s = 1..Len(s)
  BY <1>1 DEF Represents
<1>3. /\ a \in Seq(CellsOf(n))
      /\ Len(a) = Len(s) - 1
      /\ \A i \in 1..Len(a) : a[i] = s[i + 1]
  BY <1>1, <1>2, HeadTailProperties
<1> HIDE DEF a
<1> DEFINE second == l.next[l.head]
<1>4. r = [head |-> second,
           tail |-> IF second = Invalid THEN Invalid ELSE l.tail,
           num  |-> l.num - 1,
           prev |-> [c \in CellsOf(n) |->
                       IF c \in {l.head, second} THEN Invalid ELSE l.prev[c]],
           next |-> [l.next EXCEPT ![l.head] = Invalid]]
  BY DEF WithoutHead, StaticLists
<1>5. second = IF Len(s) = 1 THEN Invalid ELSE s[2]
  BY <1>1, <1>2 DEF Represents
<1>6. second \in Links(n)
  BY <1>1, <1>2, <1>5 DEF Links
<1> HIDE DEF second, r
<1>7. r \in StaticLists(n)
  BY <1>1, <1>2, <1>4, <1>6 DEF StaticLists, Links
<1>8. Represents(r, a)
  <2>1. CASE Len(s) = 1
    BY <1>1, <1>2, <1>3, <1>4, <1>5, <2>1 DEF Represents, StaticLists, Invalid, CellsOf
  <2>2. CASE Len(s) > 1
    <3>0. \A i, j \in DOMAIN s : s[i] = s[j] => i = j
      BY <1>1 DEF Represents
    <3>1. second = s[2] /\ second \in CellsOf(n) /\ second # Invalid
      <4>1. 2 \in 1..Len(s) /\ Len(s) # 1
        BY <1>2, <2>2
      <4>2. second = s[2]
        BY <1>5, <4>1
      <4>3. s[2] \in CellsOf(n)
        BY <1>1, <4>1, ElementOfSeq
      <4> QED
        BY <4>2, <4>3 DEF Invalid, CellsOf
    <3>2. /\ a # <<>> /\ DOMAIN a = 1..(Len(s) - 1)
          /\ a[1] = second /\ a[Len(a)] = s[Len(s)]
      BY <1>2, <1>3, <2>2, <3>1
    <3>3. /\ \A i, j \in DOMAIN a : a[i] = a[j] => i = j
          /\ r.num = Len(a) /\ r.head = a[1] /\ r.tail = a[Len(a)]
      <4>1. ASSUME NEW i \in DOMAIN a, NEW j \in DOMAIN a, a[i] = a[j] PROVE i = j
        <5>1. i + 1 \in DOMAIN s /\ j + 1 \in DOMAIN s /\ s[i + 1] = s[j + 1]
          BY <1>2, <1>3, <3>2, <4>1
        <5>2. i + 1 = j + 1
          BY <3>0, <5>1
        <5> QED
          BY <3>2, <5>2
      <4>2. l.num = Len(s) /\ l.tail = s[Len(s)]
        BY <1>1, <1>2 DEF Represents
      <4>3. r.num = Len(a) /\ r.head = second /\ r.tail = l.tail
        BY <1>3, <1>4, <3>1, <4>2
      <4> QED
        BY <3>2, <4>1, <4>2, <4>3
    <3>4. ASSUME NEW i \in DOMAIN a
          PROVE  /\ r.prev[a[i]] = IF i = 1 THEN Invalid ELSE a[i - 1]
                 /\ r.next[a[i]] = IF i = Len(a) THEN Invalid ELSE a[i + 1]
      <4>1. /\ i + 1 \in DOMAIN s /\ a[i] = s[i + 1] /\ s[i + 1] \in CellsOf(n)
            /\ s[i + 1] # l.head /\ (i # 1 => s[i + 1] # second)
            /\ i # 1 => a[i - 1] = s[i]
            /\ i # Len(a) => a[i + 1] = s[i + 2]
        BY <1>1, <1>2, <1>3, <3>0, <3>1, <3>2
      <4>2. /\ l.prev[s[i + 1]] = s[i]
            /\ l.next[s[i + 1]] = IF i + 1 = Len(s) THEN Invalid ELSE s[i + 2]
        <5>1. \A k \in DOMAIN s :
                 /\ l.prev[s[k]] = IF k = 1 THEN Invalid ELSE s[k - 1]
                 /\ l.next[s[k]] = IF k = Len(s) THEN Invalid ELSE s[k + 1]
          BY <1>1 DEF Represents
        <5>2. i + 1 # 1 /\ (i + 1) - 1 = i /\ (i + 1) + 1 = i + 2
          BY <3>2
        <5> QED
          BY <4>1, <5>1, <5>2
      <4> QED
        BY <1>3, <1>4, <3>1, <3>2, <4>1, <4>2 DEF StaticLists
    <3>5. ASSUME NEW c \in DOMAIN r.next, \A i \in DOMAIN a : a[i] # c
          PROVE  r.prev[c] = Invalid /\ r.next[c] = Invalid
      <4>1. c \in CellsOf(n) /\ DOMAIN l.next = CellsOf(n) /\ c # second
        BY <1>4, <3>2, <3>5 DEF StaticLists
      <4>2. CASE c = l.head
        BY <1>4, <4>1, <4>2 DEF StaticLists
      <4>3. CASE c # l.head
        <5>1. ASSUME NEW i \in DOMAIN s PROVE s[i] # c
          <6>1. CASE i = 1
            BY <1>2, <4>3, <6>1
          <6>2. CASE i # 1
            <7>1. i - 1 \in DOMAIN a /\ a[i - 1] = s[(i - 1) + 1] /\ (i - 1) + 1 = i
              BY <1>2, <1>3, <3>2, <5>1, <6>2
            <7> QED
              BY <3>5, <7>1
          <6> QED
            BY <6>1, <6>2
        <5>2. l.prev[c] = Invalid /\ l.next[c] = Invalid
          BY <1>1, <4>1, <5>1 DEF Represents
        <5> QED
          BY <1>4, <4>1, <4>3, <5>2 DEF StaticLists
      <4> QED
        BY <4>2, <4>3
    <3> QED
      BY <3>2, <3>3, <3>4, <3>5 DEF Represents
  <2> QED
    BY <1>2, <2>1, <2>2
<1>9. CellsIn(a) = CellsIn(s) \ {l.head}
  <2>1. ASSUME NEW i \in DOMAIN a PROVE a[i] \in CellsIn(s) \ {l.head}
    <3>1. i + 1 \in DOMAIN s /\ a[i] = s[i + 1] /\ i + 1 # 1 /\ 1 \in DOMAIN s
      BY <1>2, <1>3, <2>1
    <3>2. s[i + 1] # s[1]
      BY <1>1, <3>1 DEF Represents
    <3> QED
      BY <1>2, <3>1, <3>2 DEF CellsIn
  <2>2. ASSUME NEW i \in DOMAIN s, s[i] # l.head PROVE s[i] \in CellsIn(a)
    <3>1. i - 1 \in DOMAIN a /\ a[i - 1] = s[i]
      BY <1>2, <1>3, <2>2
    <3> QED
      BY <3>1 DEF CellsIn
  <2> QED
    BY <2>1, <2>2 DEF CellsIn
<1>10. Order(r) = a /\ WellFormed(r) /\ Linked(r) = CellsIn(a)
  BY <1>3, <1>7, <1>8, OrderIs, LinkedIsListed
<1>11. Linked(l) = CellsIn(s)
  BY <1>1, LinkedIsListed
<1>12. r.num = l.num - 1
  BY <1>4
<1> QED
  BY <1>7, <1>9, <1>10, <1>11, <1>12 DEF s, a, r

-----------------------------------------------------------------------------
(***************************************************************************)
(* What the operations on a bucket chain preserve: for any number of       *)
(* buckets and any set S of elements, each yields a chain over S, moves the*)
(* count by one, and adds or removes only the element it is about.  The    *)
(* invariants of the queue rest on these lemmas.                           *)
(***************************************************************************)

(* The buckets of a chain over S hold elements of S. *)
LEMMA MembersTyped ==
    ASSUME NEW S, NEW b \in Chains(S)
    PROVE  Members(b) \subseteq S
<1>1. ASSUME NEW p \in Prios, NEW i \in DOMAIN b.bucket[p]
      PROVE  b.bucket[p][i] \in S
  <2>1. b.bucket[p] \in Seq(S)
    BY DEF Chains
  <2>2. i \in 1..Len(b.bucket[p])
    BY <2>1, LenProperties
  <2> QED
    BY <2>1, <2>2, ElementOfSeq
<1> QED
  BY <1>1 DEF Members

(* The places a chain's buckets have; msg_count and putter_count are meant *)
(* to be their number, kept by hand next to the lists.                     *)
Positions(b) == {at \in Prios \X Nat : at[2] \in 1..Len(b.bucket[at[1]])}
Counted(b)   == IsFiniteSet(Positions(b)) /\ b.count = Cardinality(Positions(b))

(* A counted chain's count is a natural number. *)
LEMMA CountedNat ==
    ASSUME NEW b, Counted(b)
    PROVE  b.count \in Nat
BY FS_CardinalityType DEF Counted

(* One bucket longer by one is one more position, whatever else changes. *)
LEMMA OneMoreCounted ==
    ASSUME NEW S, NEW b \in Chains(S), NEW c \in Chains(S), NEW p \in Prios,
           Counted(b), c.count = b.count + 1,
           Len(c.bucket[p]) = Len(b.bucket[p]) + 1,
           \A q \in Prios \ {p} : c.bucket[q] = b.bucket[q]
    PROVE  Counted(c)
<1> DEFINE at == <<p, Len(b.bucket[p]) + 1>>
<1>1. \A q \in Prios : Len(b.bucket[q]) \in Nat
  BY LenProperties DEF Chains
<1>2. at \notin Positions(b) /\ at \in Prios \X Nat
  BY <1>1 DEF Positions
<1>3. ASSUME NEW q \in Prios, NEW i \in Nat
      PROVE  i \in 1..Len(c.bucket[q]) <=> i \in 1..Len(b.bucket[q]) \/ <<q, i>> = at
  <2>1. CASE q = p
    BY <1>1, <2>1
  <2>2. CASE q # p
    BY <1>1, <2>2
  <2> QED
    BY <2>1, <2>2
<1>4. Positions(c) = Positions(b) \cup {at}
  <2> HIDE DEF at
  <2> QED
    BY <1>2, <1>3 DEF Positions
<1>5. Cardinality(Positions(c)) = Cardinality(Positions(b)) + 1 /\ IsFiniteSet(Positions(c))
  <2> HIDE DEF at
  <2> QED
    BY <1>2, <1>4, FS_AddElement DEF Counted
<1> QED
  BY <1>5 DEF Counted

(* One bucket shorter by one is one position less. *)
LEMMA OneLessCounted ==
    ASSUME NEW S, NEW b \in Chains(S), NEW c \in Chains(S), NEW p \in Prios,
           Counted(b), c.count = b.count - 1,
           Len(c.bucket[p]) = Len(b.bucket[p]) - 1,
           \A q \in Prios \ {p} : c.bucket[q] = b.bucket[q]
    PROVE  Counted(c)
<1> DEFINE at == <<p, Len(b.bucket[p])>>
<1>1. \A q \in Prios : Len(b.bucket[q]) \in Nat /\ Len(c.bucket[q]) \in Nat
  BY LenProperties DEF Chains
<1>2. Len(b.bucket[p]) \in Nat \ {0}
  BY <1>1
<1>3. at \in Positions(b)
  BY <1>2 DEF Positions
<1>4. ASSUME NEW q \in Prios, NEW i \in Nat
      PROVE  i \in 1..Len(c.bucket[q]) <=> i \in 1..Len(b.bucket[q]) /\ <<q, i>> # at
  <2>1. CASE q = p
    <3> DEFINE n == Len(b.bucket[p])
    <3>1. <<q, i>> # at <=> i # n
      BY <2>1
    <3>2. n \in Nat /\ Len(c.bucket[p]) = n - 1
      BY <1>1
    <3> HIDE DEF n
    <3>3. i \in 1..(n - 1) <=> i \in 1..n /\ i # n
      BY <3>2
    <3> QED
      BY <2>1, <3>1, <3>2, <3>3 DEF n
  <2>2. CASE q # p
    BY <1>1, <2>2
  <2> QED
    BY <2>1, <2>2
<1>5. Positions(c) = Positions(b) \ {at}
  <2> HIDE DEF at
  <2> QED
    BY <1>4 DEF Positions
<1> QED
  BY <1>3, <1>5, FS_RemoveElement DEF Counted

(* A new chain is a chain, with no members. *)
LEMMA EmptyChainTyped ==
    ASSUME NEW S
    PROVE  /\ EmptyChain \in Chains(S)
           /\ Members(EmptyChain) = {}
           /\ Counted(EmptyChain)
<1>1. 1 \in Prios
  BY PriorityMaxAssumption DEF Prios
<1>2. EmptyChain \in Chains(S)
  BY <1>1, EmptySeq DEF EmptyChain, Chains
<1>3. \A p \in Prios : DOMAIN EmptyChain.bucket[p] = {} /\ Len(EmptyChain.bucket[p]) = 0
  BY DEF EmptyChain
<1>4. Positions(EmptyChain) = {} /\ EmptyChain.count = 0
  BY <1>3 DEF Positions, EmptyChain
<1> QED
  BY <1>2, <1>3, <1>4, FS_EmptySet DEF Members, Counted

(* A push adds one element and counts it. *)
LEMMA PushedTyped ==
    ASSUME NEW S, NEW b \in Chains(S), NEW p \in Prios, NEW x \in S
    PROVE  /\ Pushed(b, p, x) \in Chains(S)
           /\ Pushed(b, p, x).count = b.count + 1
           /\ Members(Pushed(b, p, x)) = Members(b) \cup {x}
           /\ Counted(b) => Counted(Pushed(b, p, x))
<1> DEFINE c == Pushed(b, p, x)
<1>1. b.bucket \in [Prios -> Seq(S)] /\ b.popc \in [Prios -> Nat]
      /\ b.cursor \in Prios /\ b.count \in Int
  BY DEF Chains
<1>2. /\ Append(b.bucket[p], x) \in Seq(S)
      /\ DOMAIN Append(b.bucket[p], x) = 1..(Len(b.bucket[p]) + 1)
      /\ \A i \in 1..Len(b.bucket[p]) : Append(b.bucket[p], x)[i] = b.bucket[p][i]
      /\ Append(b.bucket[p], x)[Len(b.bucket[p]) + 1] = x
  BY <1>1, AppendProperties, LenProperties
<1>3. c \in Chains(S)
  BY <1>1, <1>2 DEF Chains, Pushed, Raised
<1>4. c.count = b.count + 1
  BY DEF Pushed
<1>5. c.bucket = [b.bucket EXCEPT ![p] = Append(@, x)]
  BY DEF Pushed
<1>6. \A q \in Prios : DOMAIN b.bucket[q] = 1..Len(b.bucket[q]) /\ Len(b.bucket[q]) \in Nat
  BY <1>1, LenProperties
<1>7. ASSUME NEW q \in Prios
      PROVE  {c.bucket[q][i] : i \in DOMAIN c.bucket[q]}
                = {b.bucket[q][i] : i \in DOMAIN b.bucket[q]} \cup (IF q = p THEN {x} ELSE {})
  <2>1. CASE q = p
    <3>1. c.bucket[q] = Append(b.bucket[p], x)
      BY <1>1, <1>5, <2>1
    <3>2. DOMAIN c.bucket[q] = DOMAIN b.bucket[p] \cup {Len(b.bucket[p]) + 1}
      BY <1>2, <1>6, <3>1
    <3> QED
      BY <1>2, <1>6, <2>1, <3>1, <3>2
  <2>2. CASE q # p
    BY <1>1, <1>5, <2>2
  <2> QED
    BY <2>1, <2>2
<1>8. Members(c) = Members(b) \cup {x}
  <2> DEFINE In(d, q) == {d.bucket[q][i] : i \in DOMAIN d.bucket[q]}
  <2>1. Members(c) = UNION {In(c, q) : q \in Prios} /\ Members(b) = UNION {In(b, q) : q \in Prios}
    BY DEF Members
  <2>2. \A q \in Prios : In(c, q) = In(b, q) \cup (IF q = p THEN {x} ELSE {})
    BY <1>7
  <2> HIDE DEF In, c
  <2> QED
    BY <2>1, <2>2
<1>9. /\ Len(c.bucket[p]) = Len(b.bucket[p]) + 1
      /\ \A q \in Prios \ {p} : c.bucket[q] = b.bucket[q]
  BY <1>1, <1>5, AppendProperties
<1>10. Counted(b) => Counted(c)
  <2> HIDE DEF c
  <2> QED
    BY <1>3, <1>4, <1>9, OneMoreCounted
<1> QED
  BY <1>3, <1>4, <1>8, <1>10

(* Reducing one bucket to a sequence of its own elements counts one off and*)
(* adds none, whatever happens to the pop counters and the cursor.         *)
LEMMA ShortenedTyped ==
    ASSUME NEW S, NEW b \in Chains(S), NEW p \in Prios, NEW s \in Seq(S),
           NEW popc \in [Prios -> Nat], NEW cursor \in Prios,
           Len(s) = Len(b.bucket[p]) - 1,
           \A i \in DOMAIN s : \E j \in DOMAIN b.bucket[p] : s[i] = b.bucket[p][j]
    PROVE  /\ Shortened(b, p, s, popc, cursor) \in Chains(S)
           /\ Shortened(b, p, s, popc, cursor).count = b.count - 1
           /\ Members(Shortened(b, p, s, popc, cursor)) \subseteq Members(b)
           /\ Counted(b) => Counted(Shortened(b, p, s, popc, cursor))
<1> DEFINE c == Shortened(b, p, s, popc, cursor)
<1>1. b.bucket \in [Prios -> Seq(S)] /\ b.count \in Int
  BY DEF Chains
<1>2. c \in Chains(S)
  BY <1>1 DEF Shortened, Chains
<1>3. c.count = b.count - 1 /\ c.bucket = [b.bucket EXCEPT ![p] = s]
  BY DEF Shortened
<1>4. ASSUME NEW q \in Prios, NEW i \in DOMAIN c.bucket[q]
      PROVE  c.bucket[q][i] \in Members(b)
  <2>1. CASE q = p
    BY <1>1, <1>3, <2>1 DEF Members
  <2>2. CASE q # p
    BY <1>1, <1>3, <2>2 DEF Members
  <2> QED
    BY <2>1, <2>2
<1>5. Members(c) \subseteq Members(b)
  <2> HIDE DEF c
  <2>1. ASSUME NEW x \in Members(c) PROVE x \in Members(b)
    <3>1. PICK q \in Prios : x \in {c.bucket[q][i] : i \in DOMAIN c.bucket[q]}
      BY DEF Members
    <3>2. PICK i \in DOMAIN c.bucket[q] : x = c.bucket[q][i]
      BY <3>1
    <3> QED
      BY <1>4, <3>2
  <2> QED
    BY <2>1
<1>6. c.bucket[p] = s /\ \A q \in Prios \ {p} : c.bucket[q] = b.bucket[q]
  BY <1>1, <1>3
<1>7. Counted(b) => Counted(c)
  <2> HIDE DEF c
  <2> QED
    BY <1>2, <1>3, <1>6, OneLessCounted
<1> QED
  BY <1>2, <1>3, <1>5, <1>7

(* Taking the head of a nonempty bucket. *)
LEMMA TakenFromTyped ==
    ASSUME NEW S, NEW b \in Chains(S), NEW p \in Prios, NEW top \in Prios,
           NEW popc \in [Prios -> Nat], b.bucket[p] # <<>>
    PROVE  /\ TakenFrom(b, p, top, popc).item \in Members(b)
           /\ TakenFrom(b, p, top, popc).rest \in Chains(S)
           /\ TakenFrom(b, p, top, popc).rest.count = b.count - 1
           /\ Members(TakenFrom(b, p, top, popc).rest) \subseteq Members(b)
           /\ Counted(b) => Counted(TakenFrom(b, p, top, popc).rest)
<1> DEFINE r == TakenFrom(b, p, top, popc)
           s == Tail(b.bucket[p])
<1>1. b.bucket \in [Prios -> Seq(S)]
  BY DEF Chains
<1>2. /\ s \in Seq(S)
      /\ Len(s) = Len(b.bucket[p]) - 1
      /\ \A i \in 1..Len(s) : s[i] = b.bucket[p][i + 1]
  BY <1>1, HeadTailProperties
<1>3. /\ DOMAIN b.bucket[p] = 1..Len(b.bucket[p])
      /\ Len(b.bucket[p]) \in Nat \ {0}
      /\ DOMAIN s = 1..Len(s)
  BY <1>1, <1>2, LenProperties, EmptySeq
<1>4. Head(b.bucket[p]) = b.bucket[p][1] /\ 1 \in DOMAIN b.bucket[p]
  BY <1>1, <1>3
<1>5. r.item \in Members(b)
  BY <1>4 DEF TakenFrom, Members
<1>6. \A i \in DOMAIN s : \E j \in DOMAIN b.bucket[p] : s[i] = b.bucket[p][j]
  <2> SUFFICES ASSUME NEW i \in DOMAIN s
               PROVE  \E j \in DOMAIN b.bucket[p] : s[i] = b.bucket[p][j]
    OBVIOUS
  <2>1. i + 1 \in DOMAIN b.bucket[p] /\ s[i] = b.bucket[p][i + 1]
    BY <1>2, <1>3
  <2> QED
    BY <2>1
<1>7. r.rest = Shortened(b, p, s, popc, top)
  BY DEF TakenFrom
<1>8. /\ Shortened(b, p, s, popc, top) \in Chains(S)
      /\ Shortened(b, p, s, popc, top).count = b.count - 1
      /\ Members(Shortened(b, p, s, popc, top)) \subseteq Members(b)
      /\ Counted(b) => Counted(Shortened(b, p, s, popc, top))
  <2> HIDE DEF s
  <2> QED
    BY <1>2, <1>6, ShortenedTyped
<1> QED
  BY <1>5, <1>7, <1>8

(* Starting new turns leaves pop counters pop counters. *)
LEMMA TurnsResetTyped ==
    ASSUME NEW S, NEW b \in Chains(S), NEW lo, NEW hi
    PROVE  TurnsReset(b, lo, hi) \in [Prios -> Nat]
BY DEF TurnsReset, Chains

(* A pop of a nonempty chain, wherever the round robin search ends, takes a*)
(* member out of the chain and counts it off.                              *)
LEMMA PopsTyped ==
    ASSUME NEW S, NEW b \in Chains(S), b.count # 0, NEW r \in Pops(b)
    PROVE  /\ r.item \in Members(b)
           /\ r.rest \in Chains(S)
           /\ r.rest.count = b.count - 1
           /\ Members(r.rest) \subseteq Members(b)
           /\ Counted(b) => Counted(r.rest)
<1>1. PICK top \in Tops(b) : r \in DirectPops(b, top) \cup WrappedPops(b, top)
  BY DEF Pops
<1>2. top \in Prios /\ b.bucket[top] # <<>>
  BY DEF Tops, Greatest, NonEmpty
<1>3. 1..top \subseteq Prios
  BY <1>2, PriorityMaxAssumption DEF Prios
<1>4. CASE r \in DirectPops(b, top)
  <2> DEFINE counters(p) == LET passed == TurnsReset(b, p + 1, top)
                            IN  IF Ready(b, p) THEN [passed EXCEPT ![p] = @ + 1] ELSE passed
  <2>1. PICK p \in Servers(b, top) : r = TakenFrom(b, p, top, counters(p))
    BY <1>4 DEF DirectPops
  <2>2. p \in Prios /\ (Ready(b, p) \/ Sole(b, p))
    BY <1>3 DEF Servers, Greatest
  <2>3. b.bucket[p] # <<>>
    <3>1. CASE Ready(b, p)
      BY <3>1 DEF Ready
    <3>2. CASE Sole(b, p)
      BY <3>2, EmptySeq DEF Sole
    <3> QED
      BY <2>2, <3>1, <3>2
  <2>4. TurnsReset(b, p + 1, top) \in [Prios -> Nat]
    BY TurnsResetTyped
  <2>5. counters(p) \in [Prios -> Nat]
    BY <2>2, <2>4
  <2> QED
    BY <1>2, <2>1, <2>2, <2>3, <2>5, TakenFromTyped
<1>5. CASE r \in WrappedPops(b, top)
  <2> DEFINE counters == [TurnsReset(b, 1, PriorityMax) EXCEPT ![top] = @ + 1]
  <2>1. r = TakenFrom(b, top, top, counters)
    BY <1>5 DEF WrappedPops
  <2>2. TurnsReset(b, 1, PriorityMax) \in [Prios -> Nat]
    BY TurnsResetTyped
  <2>3. counters \in [Prios -> Nat]
    BY <1>2, <2>2
  <2> QED
    BY <1>2, <2>1, <2>3, TakenFromTyped
<1> QED
  BY <1>1, <1>4, <1>5

(* Leaving out one position of a sequence. *)
LEMMA WithoutTyped ==
    ASSUME NEW S, NEW s \in Seq(S), NEW k \in 1..Len(s)
    PROVE  /\ Without(s, k) \in Seq(S)
           /\ Len(Without(s, k)) = Len(s) - 1
           /\ \A i \in DOMAIN Without(s, k) : \E j \in DOMAIN s : Without(s, k)[i] = s[j]
<1> DEFINE u == SubSeq(s, 1, k - 1)
           v == SubSeq(s, k + 1, Len(s))
<1>1. Len(s) \in Nat /\ DOMAIN s = 1..Len(s)
  BY LenProperties
<1>2. \A i \in 1..(k - 1) : i \in 1..Len(s) /\ s[i] \in S
  BY <1>1, ElementOfSeq
<1>3. \A i \in (k + 1)..Len(s) : i \in 1..Len(s) /\ s[i] \in S
  BY <1>1, ElementOfSeq
<1>4. /\ u \in Seq(S) /\ Len(u) = k - 1
      /\ \A i \in 1..(k - 1) : u[i] = s[i]
  BY <1>1, <1>2, SubSeqProperties
<1>5. /\ v \in Seq(S) /\ Len(v) = Len(s) - k
      /\ \A i \in 1..(Len(s) - k) : v[i] = s[k + i]
  <2>1. /\ v \in Seq(S)
        /\ Len(v) = IF k + 1 <= Len(s) THEN Len(s) - (k + 1) + 1 ELSE 0
        /\ \A i \in 1..(Len(s) - (k + 1) + 1) : v[i] = s[(k + 1) + i - 1]
    <3>1. k + 1 \in Int /\ Len(s) \in Int
      BY <1>1
    <3> QED
      BY <1>3, <3>1, SubSeqProperties
  <2> HIDE DEF v
  <2>2. Len(s) - (k + 1) + 1 = Len(s) - k
    BY <1>1
  <2>3. ASSUME NEW i \in 1..(Len(s) - k)
        PROVE  v[i] = s[k + i]
    <3>1. v[i] = s[(k + 1) + i - 1]
      BY <2>1, <2>2
    <3>2. (k + 1) + i - 1 = k + i
      BY <1>1
    <3> QED
      BY <3>1, <3>2
  <2>4. Len(v) = Len(s) - k
    <3>1. k \in Int /\ Len(s) \in Int /\ k <= Len(s)
      BY <1>1
    <3>2. CASE k = Len(s)
      BY <2>1, <3>1, <3>2
    <3>3. CASE k < Len(s)
      <4>1. k + 1 <= Len(s)
        BY <3>1, <3>3
      <4>2. Len(v) = Len(s) - (k + 1) + 1
        BY <2>1, <4>1, Zenon
      <4> QED
        BY <2>2, <4>2, Zenon
    <3> QED
      BY <3>1, <3>2, <3>3
  <2> QED
    BY <2>1, <2>3, <2>4
<1> HIDE DEF u, v
<1>6. /\ u \o v \in Seq(S)
      /\ Len(u \o v) = Len(s) - 1
      /\ \A i \in 1..(Len(s) - 1) : (u \o v)[i] = IF i <= k - 1 THEN u[i] ELSE v[i - (k - 1)]
  <2>1. Len(u) + Len(v) = Len(s) - 1
    BY <1>1, <1>4, <1>5
  <2>2. /\ u \o v \in Seq(S)
        /\ Len(u \o v) = Len(u) + Len(v)
        /\ \A i \in 1..(Len(u) + Len(v)) :
              (u \o v)[i] = IF i <= Len(u) THEN u[i] ELSE v[i - Len(u)]
    BY <1>4, <1>5, ConcatProperties
  <2> QED
    BY <1>4, <2>1, <2>2
<1>7. DOMAIN (u \o v) = 1..(Len(s) - 1)
  BY <1>6, LenProperties
<1>8. ASSUME NEW i \in 1..(Len(s) - 1)
      PROVE  \E j \in DOMAIN s : (u \o v)[i] = s[j]
  <2>1. CASE i <= k - 1
    <3>1. i \in 1..(k - 1) /\ i \in DOMAIN s
      BY <1>1, <2>1
    <3>2. (u \o v)[i] = s[i]
      BY <1>4, <1>6, <2>1, <3>1
    <3> QED
      BY <3>1, <3>2
  <2>2. CASE i > k - 1
    <3>1. i - (k - 1) \in 1..(Len(s) - k)
      BY <1>1, <2>2
    <3>2. (u \o v)[i] = s[k + (i - (k - 1))]
      <4>1. (u \o v)[i] = v[i - (k - 1)]
        BY <1>1, <1>6, <2>2
      <4> QED
        BY <1>5, <3>1, <4>1
    <3>3. k + (i - (k - 1)) \in DOMAIN s
      BY <1>1, <3>1
    <3> QED
      BY <3>2, <3>3
  <2>3. i <= k - 1 \/ i > k - 1
    BY <1>1
  <2> QED
    BY <2>1, <2>2, <2>3
<1> QED
  BY <1>6, <1>7, <1>8 DEF Without, u, v

(* Unlinking an entry counts it off and adds nothing. *)
LEMMA RemovalsTyped ==
    ASSUME NEW S, NEW b \in Chains(S), NEW p \in Prios, NEW x, NEW c \in Removals(b, p, x)
    PROVE  /\ c \in Chains(S)
           /\ c.count = b.count - 1
           /\ Members(c) \subseteq Members(b)
           /\ Counted(b) => Counted(c)
<1>1. PICK k \in DOMAIN b.bucket[p] :
         c = Shortened(b, p, Without(b.bucket[p], k), b.popc, b.cursor)
  BY DEF Removals
<1>2. b.bucket \in [Prios -> Seq(S)] /\ b.popc \in [Prios -> Nat] /\ b.cursor \in Prios
  BY DEF Chains
<1>3. k \in 1..Len(b.bucket[p])
  BY <1>2, LenProperties
<1> DEFINE s == b.bucket[p]
           w == Without(s, k)
<1>4. s \in Seq(S) /\ k \in 1..Len(s)
  BY <1>2, <1>3
<1>5. /\ w \in Seq(S) /\ Len(w) = Len(s) - 1
      /\ \A i \in DOMAIN w : \E j \in DOMAIN s : w[i] = s[j]
  <2> HIDE DEF s
  <2> QED
    BY <1>4, WithoutTyped
<1>6. c = Shortened(b, p, w, b.popc, b.cursor)
  BY <1>1
<1> HIDE DEF w
<1>7. /\ Shortened(b, p, w, b.popc, b.cursor) \in Chains(S)
      /\ Shortened(b, p, w, b.popc, b.cursor).count = b.count - 1
      /\ Members(Shortened(b, p, w, b.popc, b.cursor)) \subseteq Members(b)
      /\ Counted(b) => Counted(Shortened(b, p, w, b.popc, b.cursor))
  BY <1>2, <1>5, ShortenedTyped
<1> QED
  BY <1>6, <1>7

(* Making room on a full chain drops one member. *)
LEMMA EvictionsTyped ==
    ASSUME NEW S, NEW b \in Chains(S), NEW r \in Evictions(b)
    PROVE  /\ r.item \in Members(b)
           /\ r.rest \in Chains(S)
           /\ r.rest.count = b.count - 1
           /\ Members(r.rest) \subseteq Members(b)
           /\ Counted(b) => Counted(r.rest)
<1>1. PICK p \in Least(NonEmpty(b)) : r = TakenFrom(b, p, b.cursor, b.popc)
  BY DEF Evictions
<1>2. p \in Prios /\ b.bucket[p] # <<>>
  BY DEF Least, NonEmpty
<1>3. b.popc \in [Prios -> Nat] /\ b.cursor \in Prios
  BY DEF Chains
<1> QED
  BY <1>1, <1>2, <1>3, TakenFromTyped

-----------------------------------------------------------------------------
(* What the search relies on. *)

NoneTwice(b) == \A p, q \in Prios : \A i \in DOMAIN b.bucket[p], j \in DOMAIN b.bucket[q] :
    b.bucket[p][i] = b.bucket[q][j] => p = q /\ i = j

(* The cursor is at or above every message; no turn is overdrawn. *)
Ruled(b) == /\ \A p \in NonEmpty(b) : p <= b.cursor
            /\ \A p \in Prios : b.popc[p] <= p

(* A chain as the calls leave it. *)
Kept(S, b) == b \in Chains(S) /\ Counted(b) /\ NoneTwice(b) /\ Ruled(b)

-----------------------------------------------------------------------------
(* Chains, positions and members. *)

(* The places of a chain are those of its lists. *)
LEMMA BucketTyped ==
    ASSUME NEW S, NEW b \in Chains(S), NEW p \in Prios
    PROVE  /\ b.bucket[p] \in Seq(S) /\ Len(b.bucket[p]) \in Nat
           /\ DOMAIN b.bucket[p] = 1..Len(b.bucket[p])
           /\ b.popc[p] \in Nat /\ b.cursor \in Prios
           /\ b.bucket \in [Prios -> Seq(S)] /\ b.popc \in [Prios -> Nat]
<1>1. b.bucket[p] \in Seq(S) /\ b.popc[p] \in Nat /\ b.cursor \in Prios
  BY DEF Chains
<1>2. b.bucket \in [Prios -> Seq(S)] /\ b.popc \in [Prios -> Nat]
  BY DEF Chains
<1> QED
  BY <1>1, <1>2, LenProperties

(* A new chain is kept so. *)
LEMMA EmptyChainKept ==
    ASSUME NEW S
    PROVE  Kept(S, EmptyChain) /\ Members(EmptyChain) = {} /\ EmptyChain.count = 0
<1>1. EmptyChain \in Chains(S) /\ Members(EmptyChain) = {} /\ Counted(EmptyChain)
  BY EmptyChainTyped
<1>2. /\ \A p \in Prios : EmptyChain.bucket[p] = <<>> /\ EmptyChain.popc[p] = 0
      /\ EmptyChain.count = 0
  BY DEF EmptyChain
<1>3. NoneTwice(EmptyChain)
  BY <1>2 DEF NoneTwice
<1>4. Ruled(EmptyChain)
  BY <1>2 DEF Ruled, NonEmpty, Prios
<1> QED
  BY <1>1, <1>2, <1>3, <1>4 DEF Kept

(* A message listed once each time it is listed makes the two counts equal.*)
LEMMA MembersCounted ==
    ASSUME NEW S, NEW b \in Chains(S), Counted(b), NoneTwice(b)
    PROVE  b.count = Cardinality(Members(b))
<1> DEFINE f == [at \in Positions(b) |-> b.bucket[at[1]][at[2]]]
<1>1. \A at \in Positions(b) : at[1] \in Prios /\ at[2] \in DOMAIN b.bucket[at[1]]
                               /\ at = <<at[1], at[2]>>
  <2> SUFFICES ASSUME NEW at \in Positions(b)
               PROVE  at[1] \in Prios /\ at[2] \in DOMAIN b.bucket[at[1]] /\ at = <<at[1], at[2]>>
    OBVIOUS
  <2>1. at[1] \in Prios /\ at[2] \in 1..Len(b.bucket[at[1]]) /\ at = <<at[1], at[2]>>
    BY DEF Positions
  <2> QED
    BY <2>1, BucketTyped
<1>2. \A x, y \in Positions(b) : f[x] = f[y] => x = y
  BY <1>1 DEF NoneTwice
<1>3. {f[x] : x \in Positions(b)} = Members(b)
  <2>1. ASSUME NEW p \in Prios, NEW i \in DOMAIN b.bucket[p]
        PROVE  <<p, i>> \in Positions(b) /\ f[<<p, i>>] = b.bucket[p][i]
    <3>1. i \in 1..Len(b.bucket[p]) /\ i \in Nat
      BY <2>1, BucketTyped
    <3> QED
      BY <3>1 DEF Positions
  <2>2. ASSUME NEW x \in Positions(b) PROVE f[x] \in Members(b)
    BY <1>1 DEF Members
  <2>3. ASSUME NEW m \in Members(b) PROVE \E x \in Positions(b) : f[x] = m
    <3>1. PICK p \in Prios : \E i \in DOMAIN b.bucket[p] : m = b.bucket[p][i]
      BY DEF Members
    <3> HIDE DEF f
    <3> QED
      BY <2>1, <3>1
  <2> HIDE DEF f
  <2> QED
    BY <2>2, <2>3
<1>4. IsFiniteSet(Positions(b)) /\ b.count = Cardinality(Positions(b)) /\ DOMAIN f = Positions(b)
  BY DEF Counted
<1> HIDE DEF f
<1> QED
  BY <1>2, <1>3, <1>4, OneToOneCounted

(* What is at a place is a member. *)
LEMMA ListedIsMember ==
    ASSUME NEW b, NEW p \in Prios, NEW i \in DOMAIN b.bucket[p]
    PROVE  b.bucket[p][i] \in Members(b)
BY DEF Members

(* A set of levels that is not empty has a greatest one. *)
LEMMA GreatestExists ==
    ASSUME NEW T \in SUBSET Prios, T # {}
    PROVE  \E p \in Greatest(T) : p \in T
<1> DEFINE Mirrored == {PriorityMax - p : p \in T}
<1>1. Mirrored \in SUBSET Nat /\ Mirrored # {}
  <2>1. \A p \in T : PriorityMax - p \in Nat
    BY PriorityMaxAssumption DEF Prios
  <2> QED
    BY <2>1
<1>2. PICK x \in Mirrored : \A y \in Mirrored : x <= y
  <2> HIDE DEF Mirrored
  <2> QED
    BY <1>1, LeastNatural
<1>3. PICK p \in T : x = PriorityMax - p
  BY <1>2
<1>4. \A q \in T : PriorityMax - p <= PriorityMax - q
  BY <1>2, <1>3
<1>5. \A q \in T : q <= p
  <2>1. PriorityMax \in Int /\ p \in Int /\ \A q \in T : q \in Int
    BY PriorityMaxAssumption DEF Prios
  <2> QED
    BY <1>4, <2>1
<1> QED
  BY <1>5 DEF Greatest

-----------------------------------------------------------------------------
(* What the operations keep. *)

(* The push: the message is at the end of its list, the cursor not below.  *)
LEMMA PushedKept ==
    ASSUME NEW S, NEW b, Kept(S, b), NEW p \in Prios, NEW m \in S, m \notin Members(b)
    PROVE  Kept(S, Pushed(b, p, m)) /\ Pushed(b, p, m).count = b.count + 1
<1> DEFINE c == Pushed(b, p, m)
           N == Len(b.bucket[p]) + 1
<1>1. b \in Chains(S) /\ Counted(b)
  BY DEF Kept
<1>2. c \in Chains(S) /\ c.count = b.count + 1 /\ Counted(c)
  BY <1>1, PushedTyped
<1>3. /\ b.bucket[p] \in Seq(S) /\ Len(b.bucket[p]) \in Nat
      /\ DOMAIN b.bucket[p] = 1..Len(b.bucket[p])
      /\ b.bucket \in [Prios -> Seq(S)] /\ b.cursor \in Prios
  BY <1>1, BucketTyped
<1>4. /\ \A q \in Prios \ {p} : c.bucket[q] = b.bucket[q]
      /\ c.bucket[p] = Append(b.bucket[p], m)
      /\ c.popc = b.popc /\ c.cursor = Raised(b, p)
  BY <1>3 DEF Pushed
<1>5. /\ DOMAIN c.bucket[p] = DOMAIN b.bucket[p] \cup {N} /\ c.bucket[p][N] = m
      /\ \A i \in DOMAIN b.bucket[p] : c.bucket[p][i] = b.bucket[p][i]
  BY <1>3, <1>4
<1> HIDE DEF c
<1>6. ASSUME NEW q \in Prios, NEW i \in DOMAIN c.bucket[q]
      PROVE  \/ i \in DOMAIN b.bucket[q] /\ c.bucket[q][i] = b.bucket[q][i] /\ c.bucket[q][i] # m
             \/ q = p /\ i = N /\ c.bucket[q][i] = m
  <2>1. CASE i \in DOMAIN b.bucket[q]
    <3>1. c.bucket[q][i] = b.bucket[q][i]
      BY <1>4, <1>5, <2>1
    <3> QED
      BY <2>1, <3>1, ListedIsMember
  <2>2. CASE i \notin DOMAIN b.bucket[q]
    BY <1>4, <1>5, <1>6, <2>2
  <2> QED
    BY <2>1, <2>2
<1>7. NoneTwice(c)
  BY <1>6 DEF NoneTwice, Kept
<1>8. Ruled(c)
  <2>1. /\ p \in Int /\ b.cursor \in Int /\ \A q \in Prios : q \in Int
        /\ \A q \in NonEmpty(b) : q <= b.cursor
        /\ \A q \in Prios : b.popc[q] <= q
    BY <1>3 DEF Prios, Kept, Ruled
  <2>2. p <= c.cursor /\ b.cursor <= c.cursor /\ c.cursor \in Int
    BY <1>4, <2>1 DEF Raised
  <2>3. ASSUME NEW q \in NonEmpty(c) PROVE q <= c.cursor
    <3>1. q \in Prios /\ (q = p \/ q \in NonEmpty(b))
      BY <1>4 DEF NonEmpty
    <3>2. CASE q = p
      BY <2>2, <3>2
    <3>3. CASE q \in NonEmpty(b)
      <4>1. q <= b.cursor /\ q \in Int
        BY <2>1, <3>1, <3>3
      <4> QED
        BY <2>1, <2>2, <4>1
    <3> QED
      BY <3>1, <3>2, <3>3
  <2> QED
    BY <1>4, <2>1, <2>3 DEF Ruled
<1> QED
  BY <1>2, <1>7, <1>8 DEF Kept, c

(* Leaving out position k of a sequence: what follows it moves up by one.  *)
LEMMA WithoutAt ==
    ASSUME NEW S, NEW s \in Seq(S), NEW k \in 1..Len(s)
    PROVE  /\ DOMAIN Without(s, k) = 1..(Len(s) - 1)
           /\ \A i \in 1..(Len(s) - 1) : Without(s, k)[i] = s[IF i < k THEN i ELSE i + 1]
<1> DEFINE u == SubSeq(s, 1, k - 1)
           v == SubSeq(s, k + 1, Len(s))
           n == Len(s)
<1>1. n \in Nat /\ k \in Nat /\ 1 <= k /\ k <= n
  <2>1. n \in Nat
    BY LenProperties
  <2> QED
    BY <2>1
<1>2. Without(s, k) \in Seq(S) /\ Len(Without(s, k)) = n - 1
  BY WithoutTyped
<1>3. /\ u \in Seq(S) /\ Len(u) = k - 1
      /\ \A i \in 1..(k - 1) : u[i] = s[i]
  <2>1. \A i \in 1..(k - 1) : s[i] \in S
    BY <1>1, ElementOfSeq
  <2> QED
    BY <1>1, <2>1, SubSeqProperties
<1>4. /\ v \in Seq(S)
      /\ Len(v) = IF k + 1 <= n THEN n - (k + 1) + 1 ELSE 0
      /\ \A i \in 1..(n - (k + 1) + 1) : v[i] = s[(k + 1) + i - 1]
  <2>1. \A i \in (k + 1)..n : s[i] \in S
    BY <1>1, ElementOfSeq
  <2>2. k + 1 \in Int /\ n \in Int
    BY <1>1
  <2> QED
    BY <2>1, <2>2, SubSeqProperties
<1> HIDE DEF u, v, n
<1>5. Len(v) = n - k
  <2>1. CASE k = n
    BY <1>1, <1>4, <2>1
  <2>2. CASE k < n
    BY <1>1, <1>4, <2>2
  <2> QED
    BY <1>1, <2>1, <2>2
<1>6. \A i \in 1..(n - 1) : (u \o v)[i] = IF i <= k - 1 THEN u[i] ELSE v[i - (k - 1)]
  <2>1. \A i \in 1..(Len(u) + Len(v)) :
            (u \o v)[i] = IF i <= Len(u) THEN u[i] ELSE v[i - Len(u)]
    BY <1>3, <1>4, ConcatProperties
  <2>2. Len(u) + Len(v) = n - 1
    BY <1>1, <1>3, <1>5
  <2> QED
    BY <1>3, <2>1, <2>2
<1>7. ASSUME NEW i \in 1..(n - 1)
      PROVE  (u \o v)[i] = s[IF i < k THEN i ELSE i + 1]
  <2>1. CASE i < k
    <3>1. i \in 1..(k - 1) /\ i <= k - 1
      BY <1>1, <2>1
    <3> QED
      BY <1>3, <1>6, <2>1, <3>1
  <2>2. CASE ~(i < k)
    <3>1. i - (k - 1) \in 1..(n - (k + 1) + 1) /\ ~(i <= k - 1)
      BY <1>1, <2>2
    <3>2. (k + 1) + (i - (k - 1)) - 1 = i + 1
      BY <1>1
    <3>3. (u \o v)[i] = v[i - (k - 1)]
      BY <1>6, <3>1
    <3>4. v[i - (k - 1)] = s[(k + 1) + (i - (k - 1)) - 1]
      BY <1>4, <3>1
    <3> QED
      BY <2>2, <3>2, <3>3, <3>4
  <2> QED
    BY <2>1, <2>2
<1>8. Without(s, k) = u \o v
  BY DEF Without, u, v, n
<1> QED
  BY <1>2, <1>7, <1>8, LenProperties DEF n

(* s is the list l without its k-th entry. *)
LosesAt(s, l, k) == /\ DOMAIN s = 1..(Len(l) - 1)
                    /\ \A i \in DOMAIN s : s[i] = l[IF i < k THEN i ELSE i + 1]

(* A cursor and counters that rule the chain b. *)
Rules(cursor, popc, b) == /\ \A q \in NonEmpty(b) : q <= cursor
                          /\ \A q \in Prios : popc[q] <= q

(* A list that loses its k-th entry, with counters and a cursor that rule  *)
(* what is left: the chain loses that element and no other.                *)
LEMMA ShortenedKept ==
    ASSUME NEW S, NEW b, Kept(S, b), NEW p \in Prios, NEW k \in DOMAIN b.bucket[p],
           NEW s \in Seq(S), LosesAt(s, b.bucket[p], k),
           NEW cursor \in Prios, NEW popc \in [Prios -> Nat], Rules(cursor, popc, b)
    PROVE  /\ Kept(S, Shortened(b, p, s, popc, cursor))
           /\ Shortened(b, p, s, popc, cursor).count = b.count - 1
           /\ Members(Shortened(b, p, s, popc, cursor)) = Members(b) \ {b.bucket[p][k]}
<1> USE DEF LosesAt, Rules
<1> DEFINE c == Shortened(b, p, s, popc, cursor)
           At(i) == IF i < k THEN i ELSE i + 1
<1>1. b \in Chains(S) /\ Counted(b)
  BY DEF Kept
<1>2. /\ b.bucket[p] \in Seq(S) /\ Len(b.bucket[p]) \in Nat
      /\ DOMAIN b.bucket[p] = 1..Len(b.bucket[p])
      /\ b.bucket \in [Prios -> Seq(S)]
      /\ k \in Nat /\ 1 <= k /\ k <= Len(b.bucket[p])
  <2>1. b.bucket[p] \in Seq(S) /\ Len(b.bucket[p]) \in Nat
        /\ DOMAIN b.bucket[p] = 1..Len(b.bucket[p]) /\ b.bucket \in [Prios -> Seq(S)]
    BY <1>1, BucketTyped
  <2> QED
    BY <2>1
<1>3. ASSUME NEW i \in DOMAIN s
      PROVE  At(i) \in DOMAIN b.bucket[p] /\ At(i) # k /\ s[i] = b.bucket[p][At(i)] /\ i \in Nat
  <2>1. i \in Nat /\ 1 <= i /\ i <= Len(b.bucket[p]) - 1
    BY <1>2
  <2> QED
    BY <1>2, <2>1
<1>4. Len(s) = Len(b.bucket[p]) - 1
  <2>1. DOMAIN s = 1..Len(s) /\ Len(s) \in Nat
    BY LenProperties
  <2> QED
    BY <1>2, <2>1
<1>5. \A i \in DOMAIN s : \E j \in DOMAIN b.bucket[p] : s[i] = b.bucket[p][j]
  BY <1>3
<1>6. c \in Chains(S) /\ c.count = b.count - 1 /\ Counted(c)
  <2> HIDE DEF LosesAt, Rules
  <2>1. /\ Shortened(b, p, s, popc, cursor) \in Chains(S)
        /\ Shortened(b, p, s, popc, cursor).count = b.count - 1
        /\ Counted(b) => Counted(Shortened(b, p, s, popc, cursor))
    BY <1>1, <1>4, <1>5, ShortenedTyped
  <2> QED
    BY <1>1, <2>1
<1>7. /\ \A q \in Prios \ {p} : c.bucket[q] = b.bucket[q]
      /\ c.bucket[p] = s /\ c.popc = popc /\ c.cursor = cursor
  BY <1>2 DEF Shortened
<1>8. \A x, y \in Prios : \A i \in DOMAIN b.bucket[x], j \in DOMAIN b.bucket[y] :
          b.bucket[x][i] = b.bucket[y][j] => x = y /\ i = j
  BY DEF Kept, NoneTwice
<1>9. \A i, j \in Nat : At(i) = At(j) => i = j
  BY <1>2
<1> HIDE DEF c, At
(* Every entry of c is an entry of b at another place than the k-th of p. *)
<1>10. ASSUME NEW q \in Prios, NEW i \in DOMAIN c.bucket[q]
       PROVE  /\ (IF q = p THEN At(i) ELSE i) \in DOMAIN b.bucket[q]
              /\ c.bucket[q][i] = b.bucket[q][IF q = p THEN At(i) ELSE i]
              /\ c.bucket[q][i] # b.bucket[p][k]
              /\ q = p => i \in Nat
  <2>1. CASE q = p
    <3>1. /\ At(i) \in DOMAIN b.bucket[p] /\ At(i) # k /\ c.bucket[p][i] = b.bucket[p][At(i)]
          /\ i \in Nat
      BY <1>3, <1>7, <2>1
    <3>2. b.bucket[p][At(i)] # b.bucket[p][k]
      BY <1>8, <3>1
    <3> QED
      BY <2>1, <3>1, <3>2
  <2>2. CASE q # p
    <3>1. i \in DOMAIN b.bucket[q] /\ c.bucket[q][i] = b.bucket[q][i]
      BY <1>7, <2>2
    <3>2. b.bucket[q][i] # b.bucket[p][k]
      BY <1>8, <2>2, <3>1
    <3> QED
      BY <2>2, <3>1, <3>2
  <2> QED
    BY <2>1, <2>2
<1>11. NoneTwice(c)
  <2> SUFFICES ASSUME NEW q \in Prios, NEW r \in Prios,
                      NEW i \in DOMAIN c.bucket[q], NEW j \in DOMAIN c.bucket[r],
                      c.bucket[q][i] = c.bucket[r][j]
               PROVE  q = r /\ i = j
    BY DEF NoneTwice
  <2> DEFINE u == IF q = p THEN At(i) ELSE i
             v == IF r = p THEN At(j) ELSE j
  <2>1. /\ u \in DOMAIN b.bucket[q] /\ c.bucket[q][i] = b.bucket[q][u]
        /\ v \in DOMAIN b.bucket[r] /\ c.bucket[r][j] = b.bucket[r][v]
        /\ (q = p => i \in Nat) /\ (r = p => j \in Nat)
    BY <1>10
  <2>2. q = r /\ u = v
    <3> HIDE DEF u, v
    <3>1. b.bucket[q][u] = b.bucket[r][v]
      BY <2>1
    <3> QED
      BY <1>8, <2>1, <3>1
  <2> QED
    BY <1>9, <2>1, <2>2
<1>12. Ruled(c)
  <2>1. NonEmpty(c) \subseteq NonEmpty(b)
    <3>1. s # <<>> => b.bucket[p] # <<>>
      BY <1>2, EmptySeq
    <3> QED
      BY <1>7, <3>1 DEF NonEmpty
  <2> QED
    BY <1>7, <2>1 DEF Ruled
<1>13. Members(c) = Members(b) \ {b.bucket[p][k]}
  <2>1. ASSUME NEW m \in Members(c) PROVE m \in Members(b) \ {b.bucket[p][k]}
    <3>1. PICK q \in Prios : \E i \in DOMAIN c.bucket[q] : m = c.bucket[q][i]
      BY DEF Members
    <3>2. PICK i \in DOMAIN c.bucket[q] : m = c.bucket[q][i]
      BY <3>1
    <3> DEFINE j == IF q = p THEN At(i) ELSE i
    <3>3. j \in DOMAIN b.bucket[q] /\ m = b.bucket[q][j] /\ m # b.bucket[p][k]
      BY <1>10, <3>2
    <3> HIDE DEF j
    <3>4. b.bucket[q][j] \in Members(b)
      BY <3>3, ListedIsMember
    <3> QED
      BY <3>3, <3>4
  <2>2. ASSUME NEW m \in Members(b), m # b.bucket[p][k] PROVE m \in Members(c)
    <3>1. PICK q \in Prios : \E i \in DOMAIN b.bucket[q] : m = b.bucket[q][i]
      BY DEF Members
    <3>2. PICK i \in DOMAIN b.bucket[q] : m = b.bucket[q][i]
      BY <3>1
    <3>3. CASE q # p
      <4>1. i \in DOMAIN c.bucket[q] /\ m = c.bucket[q][i]
        BY <1>7, <3>2, <3>3
      <4> QED
        BY <4>1, ListedIsMember
    <3>4. CASE q = p
      <4> DEFINE j == IF i < k THEN i ELSE i - 1
      <4>1. i \in Nat /\ 1 <= i /\ i <= Len(b.bucket[p]) /\ i # k
        <5>1. i \in DOMAIN b.bucket[p] /\ i # k
          BY <2>2, <3>2, <3>4
        <5> QED
          BY <1>2, <5>1
      <4>2. j \in 1..(Len(b.bucket[p]) - 1) /\ At(j) = i
        BY <1>2, <4>1 DEF At
      <4> HIDE DEF j
      <4>3. j \in DOMAIN c.bucket[p] /\ c.bucket[p][j] = m
        BY <1>3, <1>7, <3>2, <3>4, <4>2
      <4> QED
        BY <4>3, ListedIsMember
    <3> QED
      BY <3>3, <3>4
  <2> QED
    BY <2>1, <2>2
<1> QED
  BY <1>6, <1>11, <1>12, <1>13 DEF Kept, c

(* Taking the head of a list, with counters and a cursor that rule it.     *)
LEMMA TakenFromKept ==
    ASSUME NEW S, NEW b, Kept(S, b), NEW p \in Prios, NEW top \in Prios,
           NEW popc \in [Prios -> Nat], b.bucket[p] # <<>>, Rules(top, popc, b)
    PROVE  /\ Kept(S, TakenFrom(b, p, top, popc).rest)
           /\ TakenFrom(b, p, top, popc).rest.count = b.count - 1
           /\ TakenFrom(b, p, top, popc).item \in Members(b)
           /\ Members(TakenFrom(b, p, top, popc).rest)
                 = Members(b) \ {TakenFrom(b, p, top, popc).item}
<1> DEFINE s == Tail(b.bucket[p])
           r == TakenFrom(b, p, top, popc)
<1>1. /\ b.bucket[p] \in Seq(S) /\ Len(b.bucket[p]) \in Nat \ {0}
      /\ DOMAIN b.bucket[p] = 1..Len(b.bucket[p])
  BY BucketTyped, EmptySeq DEF Kept
<1>2. /\ s \in Seq(S) /\ Len(s) = Len(b.bucket[p]) - 1
      /\ \A i \in 1..Len(s) : s[i] = b.bucket[p][i + 1]
  BY <1>1, HeadTailProperties
<1>3. DOMAIN s = 1..(Len(b.bucket[p]) - 1) /\ 1 \in DOMAIN b.bucket[p]
  BY <1>1, <1>2, LenProperties
<1>4. \A i \in DOMAIN s : s[i] = b.bucket[p][IF i < 1 THEN i ELSE i + 1]
  <2> HIDE DEF s
  <2> QED
    BY <1>1, <1>2, <1>3
<1>5. r.item = b.bucket[p][1] /\ r.rest = Shortened(b, p, s, popc, top)
  BY <1>1 DEF TakenFrom
<1> HIDE DEF s, r
<1>6. /\ Kept(S, Shortened(b, p, s, popc, top))
      /\ Shortened(b, p, s, popc, top).count = b.count - 1
      /\ Members(Shortened(b, p, s, popc, top)) = Members(b) \ {b.bucket[p][1]}
  <2>1. s \in Seq(S) /\ LosesAt(s, b.bucket[p], 1) /\ Rules(top, popc, b)
    BY <1>2, <1>3, <1>4 DEF LosesAt
  <2> QED
    BY <1>3, <2>1, ShortenedKept
<1> QED
  BY <1>3, <1>5, <1>6, ListedIsMember DEF r

(* Unlinking an entry takes it out, wherever it is in its list.            *)
LEMMA RemovalsKept ==
    ASSUME NEW S, NEW b, Kept(S, b), NEW p \in Prios, NEW x, NEW c \in Removals(b, p, x)
    PROVE  /\ Kept(S, c) /\ c.count = b.count - 1
           /\ x \in Members(b) /\ Members(c) = Members(b) \ {x}
<1>1. PICK k \in DOMAIN b.bucket[p] :
         b.bucket[p][k] = x /\ c = Shortened(b, p, Without(b.bucket[p], k), b.popc, b.cursor)
  BY DEF Removals
<1> DEFINE s == Without(b.bucket[p], k)
<1>2. /\ b.bucket[p] \in Seq(S) /\ DOMAIN b.bucket[p] = 1..Len(b.bucket[p])
      /\ b.popc \in [Prios -> Nat] /\ b.cursor \in Prios
  BY BucketTyped DEF Kept
<1>3. /\ s \in Seq(S) /\ DOMAIN s = 1..(Len(b.bucket[p]) - 1)
      /\ \A i \in DOMAIN s : s[i] = b.bucket[p][IF i < k THEN i ELSE i + 1]
  <2> DEFINE l == b.bucket[p]
  <2>1. l \in Seq(S) /\ k \in 1..Len(l)
    BY <1>2
  <2>2. s = Without(l, k)
    OBVIOUS
  <2> HIDE DEF l, s
  <2>3. /\ s \in Seq(S) /\ DOMAIN s = 1..(Len(l) - 1)
        /\ \A i \in 1..(Len(l) - 1) : s[i] = l[IF i < k THEN i ELSE i + 1]
    BY <2>1, <2>2, WithoutTyped, WithoutAt
  <2> QED
    BY <2>3 DEF l
<1>4. (\A q \in NonEmpty(b) : q <= b.cursor) /\ (\A q \in Prios : b.popc[q] <= q)
  BY DEF Kept, Ruled
<1>5. c = Shortened(b, p, s, b.popc, b.cursor)
  BY <1>1
<1> HIDE DEF s
<1>6. /\ Kept(S, Shortened(b, p, s, b.popc, b.cursor))
      /\ Shortened(b, p, s, b.popc, b.cursor).count = b.count - 1
      /\ Members(Shortened(b, p, s, b.popc, b.cursor)) = Members(b) \ {b.bucket[p][k]}
  <2>1. s \in Seq(S) /\ LosesAt(s, b.bucket[p], k) /\ Rules(b.cursor, b.popc, b)
    BY <1>3, <1>4 DEF LosesAt, Rules
  <2> DEFINE popc == b.popc
             cursor == b.cursor
  <2>2. popc \in [Prios -> Nat] /\ cursor \in Prios /\ Rules(cursor, popc, b)
    BY <1>2, <2>1
  <2> HIDE DEF popc, cursor
  <2>3. /\ Kept(S, Shortened(b, p, s, popc, cursor))
        /\ Shortened(b, p, s, popc, cursor).count = b.count - 1
        /\ Members(Shortened(b, p, s, popc, cursor)) = Members(b) \ {b.bucket[p][k]}
    BY <2>1, <2>2, ShortenedKept
  <2> QED
    BY <2>3 DEF popc, cursor
<1>7. b.bucket[p][k] \in Members(b)
  BY ListedIsMember
<1> QED
  BY <1>1, <1>5, <1>6, <1>7

(* A counter that has not reached its bucket's turn is below it, and one   *)
(* that has is set back.                                                   *)
LEMMA TurnsResetRuled ==
    ASSUME NEW S, NEW b, Kept(S, b), NEW lo, NEW hi
    PROVE  /\ TurnsReset(b, lo, hi) \in [Prios -> Nat]
           /\ \A q \in Prios : /\ TurnsReset(b, lo, hi)[q] <= q
                               /\ q \in lo..hi => TurnsReset(b, lo, hi)[q] < q
                               /\ q \notin lo..hi => TurnsReset(b, lo, hi)[q] = b.popc[q]
<1> DEFINE t == TurnsReset(b, lo, hi)
<1>1. b \in Chains(S) /\ \A q \in Prios : b.popc[q] <= q /\ b.popc[q] \in Nat
  BY BucketTyped DEF Kept, Ruled
<1>2. t \in [Prios -> Nat]
  BY <1>1, TurnsResetTyped
<1>3. ASSUME NEW q \in Prios
      PROVE  /\ t[q] <= q /\ (q \in lo..hi => t[q] < q) /\ (q \notin lo..hi => t[q] = b.popc[q])
  <2>1. q \in Nat \ {0} /\ b.popc[q] \in Nat /\ b.popc[q] <= q
    BY <1>1 DEF Prios
  <2>2. t[q] = IF q \in lo..hi /\ b.popc[q] >= q THEN 0 ELSE b.popc[q]
    BY DEF TurnsReset
  <2> HIDE DEF t
  <2>3. CASE q \in lo..hi
    BY <2>1, <2>2, <2>3
  <2>4. CASE q \notin lo..hi
    BY <2>1, <2>2, <2>4
  <2> QED
    BY <2>3, <2>4
<1> QED
  BY <1>2, <1>3

(* The pop, wherever the search ends. *)
LEMMA PopsKept ==
    ASSUME NEW S, NEW b, Kept(S, b), b.count # 0, NEW r \in Pops(b)
    PROVE  /\ Kept(S, r.rest) /\ r.rest.count = b.count - 1
           /\ r.item \in Members(b) /\ Members(r.rest) = Members(b) \ {r.item}
<1>1. PICK top \in Tops(b) : r \in DirectPops(b, top) \cup WrappedPops(b, top)
  BY DEF Pops
<1>2. top \in Prios /\ b.bucket[top] # <<>> /\ \A q \in NonEmpty(b) : q <= top
  BY DEF Tops, Greatest, NonEmpty, Kept, Ruled
<1>3. top \in Nat \ {0} /\ \A q \in 1..top : q \in Prios /\ q \in Nat
  BY <1>2, PriorityMaxAssumption DEF Prios
<1>4. CASE r \in DirectPops(b, top)
  <2> DEFINE passed(p) == TurnsReset(b, p + 1, top)
             counters(p) == IF Ready(b, p) THEN [passed(p) EXCEPT ![p] = @ + 1] ELSE passed(p)
  <2>1. PICK p \in Servers(b, top) : r = TakenFrom(b, p, top, counters(p))
    BY <1>4 DEF DirectPops
  <2>2. p \in Prios /\ p \in Nat /\ (Ready(b, p) \/ Sole(b, p))
    BY <1>3 DEF Servers, Greatest
  <2>3. b.bucket[p] # <<>>
    <3>1. CASE Ready(b, p)
      BY <3>1 DEF Ready
    <3>2. CASE Sole(b, p)
      BY <3>2, EmptySeq DEF Sole
    <3> QED
      BY <2>2, <3>1, <3>2
  <2>4. /\ passed(p) \in [Prios -> Nat]
        /\ \A q \in Prios : passed(p)[q] <= q
        /\ p \notin (p + 1)..top => passed(p)[p] = b.popc[p]
    BY <2>2, TurnsResetRuled
  <2>5. passed(p)[p] = b.popc[p]
    BY <2>2, <2>4
  <2> HIDE DEF passed
  <2>6. counters(p) \in [Prios -> Nat]
    BY <2>2, <2>4
  <2>7. ASSUME NEW q \in Prios PROVE counters(p)[q] <= q
    <3>1. CASE Ready(b, p) /\ q = p
      <4>1. b.popc[p] < p /\ b.popc[p] \in Nat
        BY <2>2, <2>4, <2>5, <3>1 DEF Ready
      <4>2. counters(p)[q] = b.popc[p] + 1
        BY <2>2, <2>4, <2>5, <3>1
      <4> QED
        BY <2>2, <3>1, <4>1, <4>2
    <3>2. CASE ~(Ready(b, p) /\ q = p)
      BY <2>4, <3>2
    <3> QED
      BY <3>1, <3>2
  <2> DEFINE popc == counters(p)
  <2>8. r = TakenFrom(b, p, top, popc) /\ popc \in [Prios -> Nat] /\ Rules(top, popc, b)
    BY <1>2, <2>1, <2>6, <2>7 DEF Rules
  <2> HIDE DEF counters, popc
  <2> DEFINE taken == TakenFrom(b, p, top, popc)
  <2>9. /\ Kept(S, taken.rest) /\ taken.rest.count = b.count - 1
        /\ taken.item \in Members(b) /\ Members(taken.rest) = Members(b) \ {taken.item}
    BY <1>2, <2>2, <2>3, <2>8, TakenFromKept
  <2> HIDE DEF taken
  <2>10. r = taken
    BY <2>8 DEF taken
  <2> QED
    BY <2>9, <2>10
<1>5. CASE r \in WrappedPops(b, top)
  <2> DEFINE reset == TurnsReset(b, 1, PriorityMax)
             counters == [reset EXCEPT ![top] = @ + 1]
  <2>1. r = TakenFrom(b, top, top, counters)
    BY <1>5 DEF WrappedPops
  <2>2. /\ reset \in [Prios -> Nat]
        /\ \A q \in Prios : reset[q] <= q /\ (q \in 1..PriorityMax => reset[q] < q)
    BY TurnsResetRuled
  <2> HIDE DEF reset
  <2>3. \A q \in Prios : reset[q] < q /\ q \in Nat /\ reset[q] \in Nat
    <3>1. \A q \in Prios : q \in 1..PriorityMax /\ q \in Nat
      BY DEF Prios
    <3> QED
      BY <2>2, <3>1
  <2>4. counters \in [Prios -> Nat] /\ \A q \in Prios : counters[q] <= q
    BY <1>2, <2>2, <2>3
  <2> HIDE DEF counters
  <2>5. Rules(top, counters, b)
    BY <1>2, <2>4 DEF Rules
  <2> QED
    BY <1>2, <2>1, <2>4, <2>5, TakenFromKept
<1> QED
  BY <1>1, <1>4, <1>5

(* The eviction from a full chain. *)
LEMMA EvictionsKept ==
    ASSUME NEW S, NEW b, Kept(S, b), NEW r \in Evictions(b)
    PROVE  /\ Kept(S, r.rest) /\ r.rest.count = b.count - 1
           /\ r.item \in Members(b) /\ Members(r.rest) = Members(b) \ {r.item}
<1>1. PICK p \in Least(NonEmpty(b)) : r = TakenFrom(b, p, b.cursor, b.popc)
  BY DEF Evictions
<1>2. p \in Prios /\ b.bucket[p] # <<>>
  BY DEF Least, NonEmpty
<1>3. b.popc \in [Prios -> Nat] /\ b.cursor \in Prios
  BY DEF Chains, Kept
<1>4. Rules(b.cursor, b.popc, b)
  BY DEF Kept, Ruled, Rules
<1> QED
  BY <1>1, <1>2, <1>3, <1>4, TakenFromKept

(* The places of one list are as many as it is long. *)
Row(p, n) == {<<p, i>> : i \in 1..n}

LEMMA RowCounted ==
    ASSUME NEW p, NEW n \in Nat
    PROVE  Cardinality(Row(p, n)) = n
<1> DEFINE D == 1..n
           f == [i \in D |-> <<p, i>>]
           R == {f[i] : i \in D}
<1>1. IsFiniteSet(D) /\ Cardinality(D) = n
  <2>1. IsFiniteSet(1..n) /\ Cardinality(1..n) = IF 1 > n THEN 0 ELSE n - 1 + 1
    BY FS_Interval
  <2> QED
    BY <2>1
<1>2. DOMAIN f = D /\ \A i, j \in D : f[i] = f[j] => i = j
  OBVIOUS
<1>3. R = Row(p, n)
  BY DEF Row
<1> HIDE DEF f, D
<1>4. Cardinality(R) = Cardinality(D)
  BY <1>1, <1>2, OneToOneCounted
<1> HIDE DEF R
<1> QED
  BY <1>1, <1>3, <1>4

(* A chain whose only messages are in one list counts that list. *)
LEMMA OneListCounted ==
    ASSUME NEW S, NEW b \in Chains(S), Counted(b), NEW p \in Prios, NonEmpty(b) \subseteq {p}
    PROVE  b.count = Len(b.bucket[p])
<1> DEFINE n == Len(b.bucket[p])
<1>1. n \in Nat
  BY BucketTyped
<1>2. ASSUME NEW q \in Prios, q # p PROVE Len(b.bucket[q]) = 0
  <2>1. b.bucket[q] = <<>>
    BY <1>2 DEF NonEmpty
  <2> QED
    BY <2>1
<1>3. Row(p, n) = Positions(b)
  <2>1. ASSUME NEW at \in Positions(b) PROVE at[2] \in 1..n /\ at = <<p, at[2]>>
    <3>1. at[1] \in Prios /\ at[2] \in 1..Len(b.bucket[at[1]]) /\ at = <<at[1], at[2]>>
      BY DEF Positions
    <3>2. at[1] = p
      BY <1>2, <3>1
    <3> QED
      BY <3>1, <3>2
  <2>2. \A i \in 1..n : <<p, i>> \in Positions(b)
    BY <1>1 DEF Positions
  <2> HIDE DEF n
  <2> QED
    BY <2>1, <2>2 DEF Row
<1> HIDE DEF n
<1>4. Cardinality(Row(p, n)) = n
  BY <1>1, RowCounted
<1> QED
  BY <1>3, <1>4 DEF Counted, n

(* No list of a chain is longer than its count. *)
LEMMA ListWithinCount ==
    ASSUME NEW S, NEW b, Kept(S, b), NEW p \in Prios
    PROVE  Len(b.bucket[p]) <= b.count
<1> DEFINE n == Len(b.bucket[p])
<1>1. n \in Nat /\ IsFiniteSet(Positions(b)) /\ b.count = Cardinality(Positions(b))
  BY BucketTyped DEF Kept, Counted
<1>2. Row(p, n) \subseteq Positions(b)
  BY <1>1 DEF Row, Positions
<1> HIDE DEF n
<1>3. Cardinality(Row(p, n)) <= Cardinality(Positions(b))
  BY <1>1, <1>2, FS_Subset
<1>4. Cardinality(Row(p, n)) = n
  BY <1>1, RowCounted
<1> QED
  BY <1>1, <1>3, <1>4 DEF n

(* The search ends in its assertion only when bucket 1 is empty and has    *)
(* not been served since its last turn began, while messages wait in two   *)
(* or more other buckets.                                                  *)
LEMMA WhenPopAborts ==
    ASSUME NEW S, NEW b, Kept(S, b), b.count # 0, Pops(b) = {}
    PROVE  /\ b.bucket[1] = <<>> /\ b.popc[1] = 0
           /\ \E p, q \in NonEmpty(b) : p # q
<1>1. b \in Chains(S) /\ Counted(b) /\ 1 \in Prios
  BY PriorityMaxAssumption DEF Kept, Prios
<1>2. PICK top \in Tops(b) : TRUE
  <2> DEFINE T == {p \in NonEmpty(b) : p <= b.cursor}
  <2>1. NonEmpty(b) # {}
    <3> SUFFICES ASSUME NonEmpty(b) = {} PROVE FALSE
      OBVIOUS
    <3>1. b.count = Len(b.bucket[1])
      BY <1>1, OneListCounted
    <3>2. b.bucket[1] = <<>>
      BY <1>1 DEF NonEmpty
    <3> QED
      BY <3>1, <3>2
  <2>2. T \in SUBSET Prios /\ T # {}
    BY <2>1 DEF Kept, Ruled, NonEmpty
  <2>3. Tops(b) = Greatest(T)
    BY DEF Tops
  <2> HIDE DEF T
  <2> QED
    BY <2>2, <2>3, GreatestExists
<1>3. top \in Prios /\ top \in NonEmpty(b) /\ top \in Nat \ {0} /\ 1..top \in SUBSET Prios
  BY <1>2, PriorityMaxAssumption DEF Tops, Greatest, NonEmpty, Prios
<1>4. DirectPops(b, top) = {} /\ WrappedPops(b, top) = {}
  BY <1>2 DEF Pops
<1>5. \A p \in 1..top : ~Ready(b, p) /\ ~Sole(b, p)
  <2> DEFINE T == {p \in 1..top : Ready(b, p) \/ Sole(b, p)}
  <2>1. Servers(b, top) = {}
    BY <1>4 DEF DirectPops
  <2>2. T = {}
    <3>1. T \in SUBSET Prios /\ Servers(b, top) = Greatest(T)
      BY <1>3 DEF Servers
    <3> HIDE DEF T
    <3> QED
      BY <2>1, <3>1, GreatestExists
  <2> QED
    BY <2>2
<1>6. b.popc[1] = 0
  <2>1. Servers(b, top) = {}
    BY <1>4 DEF DirectPops
  <2>2. ~(b.popc[1] >= 1)
    BY <1>4, <2>1 DEF WrappedPops
  <2>3. b.popc[1] \in Nat
    BY <1>1, BucketTyped
  <2> QED
    BY <2>2, <2>3
<1>7. b.bucket[1] = <<>>
  <2>1. ~Ready(b, 1)
    BY <1>3, <1>5
  <2> QED
    BY <1>6, <2>1 DEF Ready
<1>8. \E q \in NonEmpty(b) : q # top
  <2> SUFFICES ASSUME NonEmpty(b) \subseteq {top} PROVE FALSE
    OBVIOUS
  <2>1. Len(b.bucket[top]) = b.count
    BY <1>1, <1>3, OneListCounted
  <2>2. b.bucket[top] # <<>> /\ top \in 1..top /\ b.popc[top] \in Nat
    BY <1>1, <1>3, BucketTyped DEF NonEmpty
  <2>3. ~Ready(b, top) /\ ~Sole(b, top)
    BY <1>5, <2>2
  <2> QED
    BY <1>3, <2>1, <2>2, <2>3 DEF Ready, Sole
<1> QED
  BY <1>3, <1>6, <1>7, <1>8

(* So it takes messages of two levels other than the lowest.               *)
FewLevels(L) == \A p, q \in L \ {1} : p = q

LEMMA FewLevelsPop ==
    ASSUME NEW S, NEW b, Kept(S, b), b.count # 0, FewLevels(NonEmpty(b))
    PROVE  Pops(b) # {}
<1> SUFFICES ASSUME Pops(b) = {} PROVE FALSE
  OBVIOUS
<1>1. b.bucket[1] = <<>> /\ \E p, q \in NonEmpty(b) : p # q
  BY WhenPopAborts
<1>2. 1 \notin NonEmpty(b)
  BY <1>1 DEF NonEmpty
<1> QED
  BY <1>1, <1>2 DEF FewLevels

(* A level becomes nonempty only when an entry of its priority is pushed.  *)
LEMMA PushedLevels ==
    ASSUME NEW S, NEW b \in Chains(S), NEW p \in Prios, NEW x
    PROVE  NonEmpty(Pushed(b, p, x)) \subseteq NonEmpty(b) \cup {p}
BY DEF Pushed, NonEmpty, Chains

LEMMA ShortenedLevels ==
    ASSUME NEW S, NEW b \in Chains(S), NEW p \in NonEmpty(b), NEW s, NEW popc, NEW cursor
    PROVE  NonEmpty(Shortened(b, p, s, popc, cursor)) \subseteq NonEmpty(b)
BY DEF Shortened, NonEmpty, Chains

LEMMA TakenFromLevels ==
    ASSUME NEW S, NEW b \in Chains(S), NEW p \in NonEmpty(b), NEW top, NEW popc
    PROVE  NonEmpty(TakenFrom(b, p, top, popc).rest) \subseteq NonEmpty(b)
BY ShortenedLevels DEF TakenFrom

LEMMA PopsLevels ==
    ASSUME NEW S, NEW b, Kept(S, b), b.count # 0, NEW r \in Pops(b)
    PROVE  NonEmpty(r.rest) \subseteq NonEmpty(b)
<1>1. b \in Chains(S) /\ b.count # 0
  BY DEF Kept
<1>2. PICK top \in Tops(b) : r \in DirectPops(b, top) \/ r \in WrappedPops(b, top)
  BY DEF Pops
<1>3. top \in NonEmpty(b) /\ 1..top \subseteq Prios
  BY <1>2, PriorityMaxAssumption DEF Tops, Greatest, NonEmpty, Prios
<1>4. CASE r \in WrappedPops(b, top)
  BY <1>1, <1>3, <1>4, TakenFromLevels DEF WrappedPops
<1>5. CASE r \in DirectPops(b, top)
  <2>1. PICK p \in Servers(b, top) : \E popc : r = TakenFrom(b, p, top, popc)
    BY <1>5 DEF DirectPops
  <2>2. p \in Prios /\ (Ready(b, p) \/ Sole(b, p))
    BY <1>3, <2>1 DEF Servers, Greatest
  <2>3. b.bucket[p] # <<>>
    BY <1>1, <2>2 DEF Ready, Sole
  <2> QED
    BY <1>1, <2>1, <2>2, <2>3, TakenFromLevels DEF NonEmpty
<1> QED
  BY <1>2, <1>4, <1>5

LEMMA RemovalsLevels ==
    ASSUME NEW S, NEW b \in Chains(S), NEW p \in Prios, NEW x, NEW r \in Removals(b, p, x)
    PROVE  NonEmpty(r) \subseteq NonEmpty(b)
<1>1. PICK i \in DOMAIN b.bucket[p] :
         r = Shortened(b, p, Without(b.bucket[p], i), b.popc, b.cursor)
  BY DEF Removals
<1>2. p \in NonEmpty(b)
  BY <1>1 DEF NonEmpty
<1> QED
  BY <1>1, <1>2, ShortenedLevels

LEMMA EvictionsLevels ==
    ASSUME NEW S, NEW b \in Chains(S), NEW r \in Evictions(b)
    PROVE  NonEmpty(r.rest) \subseteq NonEmpty(b)
<1>1. PICK p \in NonEmpty(b) : r = TakenFrom(b, p, b.cursor, b.popc)
  BY DEF Evictions, Least
<1> QED
  BY <1>1, TakenFromLevels

LEMMA EmptyChainLevels == NonEmpty(EmptyChain) = {}
BY DEF NonEmpty, EmptyChain
=============================================================================
