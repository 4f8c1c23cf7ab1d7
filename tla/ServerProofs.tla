---------------------------- MODULE ServerProofs ----------------------------
(***************************************************************************)
(* Proofs about QueueSystem and about Server, which is built on it, for any*)
(* names, queues, buckets, clients, messages and limit: first the table of *)
(* queues by itself, then the table and the connections together.          *)
(***************************************************************************)
EXTENDS Server, ListProofs

-----------------------------------------------------------------------------
(***************************************************************************)
(* Proofs about QueueSystem, for any names, queues and number of buckets:  *)
(* the table answers each name with the queue added last, whatever shares  *)
(* its bucket, and destroying the system destroys every queue once.        *)
(*                                                                         *)
(* IInv relates the lists of the buckets to the history of what was added: *)
(* each entry is in its name's bucket and of a queue added under the name, *)
(* every queue added has an entry, and of two entries of a name the newer  *)
(* is nearer to the head.                                                  *)
(***************************************************************************)

-----------------------------------------------------------------------------
(* qc_hashstring. *)

Accumulators == [ret : Nat, hash : Nat]

Added(before, char, i) ==
    IF i % 5 = 1 THEN [ret |-> before.ret + before.hash, hash |-> char]
                 ELSE [ret |-> before.ret, hash |-> 9 * before.hash + char]

IsSums(f, chars, n) ==
    f = [i \in 0..n |-> IF i = 0 THEN [ret |-> 0, hash |-> 0]
                        ELSE Added(f[i - 1], chars[i], i)]

(* The loop over the characters has a result: a function on the first k    *)
(* characters extends to the next one, so that none is the least without.  *)
LEMMA SumsExist ==
    ASSUME NEW chars, NEW n \in Nat
    PROVE  \E f : IsSums(f, chars, n)
<1> DEFINE Missing == {k \in 0..n : ~ \E f : IsSums(f, chars, k)}
<1>1. CASE Missing = {}
  <2>1. n \in 0..n
    OBVIOUS
  <2> QED
    BY <1>1, <2>1
<1>2. CASE Missing # {}
  <2>1. PICK k \in Missing : \A j \in Missing : k <= j
    <3>1. Missing \in SUBSET Nat
      OBVIOUS
    <3> HIDE DEF Missing
    <3> QED
      BY <1>2, <3>1, LeastNatural
  <2>2. CASE k = 0
    <3>1. IsSums([i \in 0..0 |-> [ret |-> 0, hash |-> 0]], chars, 0)
      BY DEF IsSums
    <3> QED
      BY <2>1, <2>2, <3>1
  <2>3. CASE k # 0
    <3>1. k \in Nat \ {0} /\ k - 1 \in 0..n /\ k - 1 \notin Missing
      BY <2>1, <2>3
    <3>2. PICK f : IsSums(f, chars, k - 1)
      BY <3>1
    <3> DEFINE g == [i \in 0..k |-> IF i = k THEN Added(f[k - 1], chars[k], k) ELSE f[i]]
    <3>3. \A i \in 0..(k - 1) : f[i] = IF i = 0 THEN [ret |-> 0, hash |-> 0]
                                       ELSE Added(f[i - 1], chars[i], i)
      BY <3>2 DEF IsSums
    <3>4. ASSUME NEW i \in 0..k
          PROVE  g[i] = IF i = 0 THEN [ret |-> 0, hash |-> 0] ELSE Added(g[i - 1], chars[i], i)
      <4>1. CASE i = 0
        BY <3>1, <3>3, <4>1
      <4>2. CASE i = k
        <5>1. i - 1 \in 0..k /\ i - 1 # k
          BY <3>1, <4>2
        <5> QED
          BY <3>1, <4>2, <5>1
      <4>3. CASE i # 0 /\ i # k
        <5>1. i \in 0..(k - 1) /\ i - 1 \in 0..k /\ i - 1 # k
          BY <3>1, <4>3
        <5> QED
          BY <3>3, <4>3, <5>1
      <4> QED
        BY <4>1, <4>2, <4>3
    <3>5. IsSums(g, chars, k)
      <4>1. DOMAIN g = 0..k /\ g = [i \in DOMAIN g |-> g[i]]
        OBVIOUS
      <4> HIDE DEF g
      <4> QED
        BY <3>4, <4>1 DEF IsSums
    <3> QED
      BY <2>1, <3>5
  <2> QED
    BY <2>2, <2>3
<1> QED
  BY <1>1, <1>2

(* ... and the result is a pair of naturals ... *)
LEMMA SumsTyped ==
    ASSUME NEW chars \in Seq(Nat)
    PROVE  Sums(chars) \in [0..Len(chars) -> Accumulators]
<1> DEFINE n == Len(chars)
           s == Sums(chars)
<1>1. IsSums(s, chars, n)
  <2>1. s = CHOOSE f : IsSums(f, chars, n)
    BY DEF Sums, IsSums, Added
  <2>2. \E f : IsSums(f, chars, n)
    <3>1. n \in Nat
      OBVIOUS
    <3> HIDE DEF n
    <3> QED
      BY <3>1, SumsExist
  <2> HIDE DEF s
  <2> QED
    BY <2>1, <2>2
<1> HIDE DEF s
<1>2. \A i \in 0..n : s[i] = IF i = 0 THEN [ret |-> 0, hash |-> 0]
                             ELSE Added(s[i - 1], chars[i], i)
  BY <1>1 DEF IsSums
<1> DEFINE Untyped == {i \in 0..n : s[i] \notin Accumulators}
<1>3. CASE Untyped # {}
  <2>1. PICK k \in Untyped : \A j \in Untyped : k <= j
    <3>1. Untyped \in SUBSET Nat
      OBVIOUS
    <3> HIDE DEF Untyped
    <3> QED
      BY <1>3, <3>1, LeastNatural
  <2>2. CASE k = 0
    BY <1>2, <2>1, <2>2 DEF Accumulators
  <2>3. CASE k # 0
    <3>1. k - 1 \in 0..n /\ k - 1 \notin Untyped /\ k \in 1..n
      BY <2>1, <2>3
    <3>2. s[k - 1] \in Accumulators /\ chars[k] \in Nat
      BY <3>1
    <3>3. s[k] = Added(s[k - 1], chars[k], k)
      BY <1>2, <2>3, <3>1
    <3>4. Added(s[k - 1], chars[k], k) \in Accumulators
      <4>1. ASSUME NEW r \in Accumulators, NEW c \in Nat PROVE Added(r, c, k) \in Accumulators
        <5>1. /\ [ret |-> r.ret + r.hash, hash |-> c] \in Accumulators
              /\ [ret |-> r.ret, hash |-> 9 * r.hash + c] \in Accumulators
          BY <4>1 DEF Accumulators
        <5> QED
          BY <5>1 DEF Added
      <4> QED
        BY <3>2, <4>1
    <3> QED
      BY <2>1, <3>3, <3>4
  <2> QED
    BY <2>2, <2>3
<1>4. CASE Untyped = {}
  <2>1. s = [i \in 0..n |-> s[i]]
    BY <1>1 DEF IsSums
  <2> QED
    BY <1>4, <2>1 DEF s
<1> QED
  BY <1>3, <1>4

(* ... so that every name has a bucket, the same in whatever case.         *)
LEMMA BucketOfName ==
    ASSUME NEW n \in Names
    PROVE  /\ Bucket[n] \in 0..(BucketCount - 1)
           /\ \A m \in Names : SameName(n, m) => Bucket[n] = Bucket[m]
<1>1. n \in Seq(1..255)
  BY QueueTableAssumption
<1>2. Folded(n) \in Seq(Nat)
  <2>1. \A c \in 1..255 : Lower(c) \in Nat
    BY DEF Lower
  <2>2. DOMAIN n = 1..Len(n) /\ Len(n) \in Nat /\ \A i \in DOMAIN n : n[i] \in 1..255
    <3> DEFINE Chars == 1..255
    <3>1. n \in Seq(Chars)
      BY <1>1
    <3> HIDE DEF Chars
    <3>2. DOMAIN n = 1..Len(n) /\ Len(n) \in Nat /\ \A i \in DOMAIN n : n[i] \in Chars
      BY <3>1
    <3> QED
      BY <3>2 DEF Chars
  <2>3. Folded(n) \in [1..Len(n) -> Nat]
    BY <2>1, <2>2 DEF Folded
  <2> QED
    BY <2>2, <2>3
<1> DEFINE c == Folded(n)
           sum == Sums(c)[Len(c)]
<1>3. sum \in Accumulators
  <2>1. Len(c) \in 0..Len(c)
    BY <1>2
  <2> QED
    BY <1>2, <2>1, SumsTyped
<1>4. sum.ret + sum.hash \in Nat
  BY <1>3 DEF Accumulators
<1>5. HashOf(c) = (sum.ret + sum.hash) % BucketCount
  BY DEF HashOf
<1>6. Bucket[n] = HashOf(c)
  BY DEF Bucket, HashString
<1>7. HashOf(c) \in 0..(BucketCount - 1)
  <2> DEFINE x == sum.ret + sum.hash
  <2>1. x \in Nat /\ HashOf(c) = x % BucketCount
    BY <1>4, <1>5
  <2> HIDE DEF x, c
  <2> QED
    BY <2>1, QueueTableAssumption
<1>8. \A m \in Names : SameName(n, m) => Bucket[n] = Bucket[m]
  BY DEF Bucket, HashString, SameName
<1> QED
  BY <1>6, <1>7, <1>8

-----------------------------------------------------------------------------
(* The table and its history. *)

Buckets == 0..(BucketCount - 1)

(* The queues in a history h: what was added under each name, oldest first.*)
QueuesIn(h) == UNION {{h[f][k] : k \in DOMAIN h[f]} : f \in Bound}

AddedOnce(h) == \A f, g \in Bound : \A k \in DOMAIN h[f], l \in DOMAIN h[g] :
    h[f][k] = h[g][l] => f = g /\ k = l

(* The entry e is that of the k-th queue added under its name.             *)
AddedAs(h, e, k) == k \in DOMAIN h[Folded(e.key)] /\ h[Folded(e.key)][k] = e.data

InOwnBucket(t, h) == \A b \in Buckets : \A i \in DOMAIN t.bucket[b] :
    /\ Bucket[t.bucket[b][i].key] = b
    /\ \E k \in Nat : AddedAs(h, t.bucket[b][i], k)

EveryListed(t, h) == \A n \in Names : \A k \in DOMAIN h[Folded(n)] :
    \E i \in DOMAIN t.bucket[Bucket[n]] :
        /\ SameName(t.bucket[Bucket[n]][i].key, n)
        /\ t.bucket[Bucket[n]][i].data = h[Folded(n)][k]

NewestFirst(t, h) == \A b \in Buckets : \A i, j \in DOMAIN t.bucket[b] :
    i < j /\ SameName(t.bucket[b][i].key, t.bucket[b][j].key) =>
        \A k, l \in Nat : AddedAs(h, t.bucket[b][i], k) /\ AddedAs(h, t.bucket[b][j], l) => l < k

Intact(t, h) ==
    /\ t \in Tables /\ h \in [Bound -> Seq(Queues)]
    /\ IsFiniteSet(QueuesIn(h)) /\ t.entry_count = Cardinality(QueuesIn(h))
    /\ AddedOnce(h) /\ InOwnBucket(t, h) /\ EveryListed(t, h) /\ NewestFirst(t, h)

(* The first entry of a name in its bucket is that of the queue added last.*)
LEMMA FirstIsNewest ==
    ASSUME NEW t, NEW h, Intact(t, h), NEW n \in Names
    PROVE  /\ h[Folded(n)] = <<>> => FirstOf(t, n) = {}
           /\ h[Folded(n)] # <<>> =>
                 \E i \in DOMAIN t.bucket[Bucket[n]] :
                    /\ FirstOf(t, n) = {i}
                    /\ SameName(t.bucket[Bucket[n]][i].key, n)
                    /\ t.bucket[Bucket[n]][i].data = h[Folded(n)][Len(h[Folded(n)])]
<1> DEFINE b == Bucket[n]
           list == t.bucket[b]
           added == h[Folded(n)]
<1>1. /\ b \in Buckets /\ list \in Seq(Entries) /\ DOMAIN list = 1..Len(list)
      /\ Len(list) \in Nat
      /\ Folded(n) \in Bound /\ added \in Seq(Queues) /\ DOMAIN added = 1..Len(added)
      /\ Len(added) \in Nat
  <2>1. b \in Buckets /\ Folded(n) \in Bound
    BY BucketOfName DEF Buckets, Bound
  <2>2. t.bucket \in [Buckets -> Seq(Entries)] /\ h \in [Bound -> Seq(Queues)]
    BY DEF Intact, Tables, Buckets
  <2>3. list \in Seq(Entries) /\ added \in Seq(Queues)
    BY <2>1, <2>2
  <2> HIDE DEF b, list, added
  <2> QED
    BY <2>1, <2>3
<1>2. ASSUME added = <<>> PROVE FirstOf(t, n) = {}
  <2>1. ASSUME NEW i \in DOMAIN list, SameName(list[i].key, n) PROVE FALSE
    <3>1. \E k \in Nat : AddedAs(h, list[i], k)
      BY <1>1, <2>1 DEF Intact, InOwnBucket
    <3> QED
      BY <1>1, <1>2, <2>1, <3>1 DEF AddedAs, SameName
  <2> QED
    BY <2>1 DEF FirstOf
<1>3. ASSUME added # <<>>
      PROVE  \E i \in DOMAIN list : /\ FirstOf(t, n) = {i}
                                    /\ SameName(list[i].key, n)
                                    /\ list[i].data = added[Len(added)]
  <2>1. Len(added) \in DOMAIN added
    BY <1>1, <1>3
  <2>2. PICK j \in DOMAIN list : SameName(list[j].key, n) /\ list[j].data = added[Len(added)]
    BY <2>1 DEF Intact, EveryListed
  <2> HIDE DEF list, added
  <2>3. PICK i \in DOMAIN list :
            SameName(list[i].key, n) /\ \A x \in 1..(i - 1) : ~SameName(list[x].key, n)
    <3> DEFINE Same == {x \in DOMAIN list : SameName(list[x].key, n)}
    <3>1. Same \in SUBSET Nat /\ Same # {}
      BY <1>1, <2>2
    <3> HIDE DEF Same
    <3>2. PICK x \in Same : \A y \in Same : x <= y
      BY <3>1, LeastNatural
    <3>3. \A y \in 1..(x - 1) : y \in DOMAIN list /\ ~(x <= y)
      BY <1>1, <3>2 DEF Same
    <3> QED
      BY <3>2, <3>3 DEF Same
  <2>4. FirstOf(t, n) = {i}
    <3>1. ASSUME NEW y \in DOMAIN list, SameName(list[y].key, n),
                 \A x \in 1..(y - 1) : ~SameName(list[x].key, n)
          PROVE  y = i
      <4>1. i \in Nat /\ y \in Nat /\ i >= 1 /\ y >= 1
        BY <1>1, <2>3, <3>1
      <4>2. ~(i < y) /\ ~(y < i)
        BY <2>3, <3>1, <4>1
      <4> QED
        BY <4>1, <4>2
    <3> QED
      BY <2>3, <3>1 DEF FirstOf, list
  <2>5. list[i].data = added[Len(added)]
    <3>1. CASE i = j
      BY <2>2, <3>1
    <3>2. CASE i # j
      <4>1. i < j
        BY <1>1, <2>2, <2>3, <3>2
      <4>2. PICK k \in Nat : AddedAs(h, list[i], k)
        BY <1>1 DEF Intact, InOwnBucket, list
      <4>3. k \in DOMAIN added /\ Len(added) \in Nat /\ k <= Len(added)
        BY <1>1, <2>3, <4>2 DEF AddedAs, SameName, added
      <4>4. AddedAs(h, list[j], Len(added))
        BY <2>1, <2>2 DEF AddedAs, SameName, added
      <4>5. SameName(list[i].key, list[j].key)
        BY <2>2, <2>3 DEF SameName
      <4>6. Len(added) < k
        BY <1>1, <4>1, <4>2, <4>3, <4>4, <4>5 DEF Intact, NewestFirst, list
      <4> QED
        BY <4>3, <4>6
    <3> QED
      BY <3>1, <3>2
  <2> QED
    BY <2>3, <2>4, <2>5
<1> QED
  BY <1>2, <1>3

(* What the table's lists and the history hold. *)
LEMMA IntactTypes ==
    ASSUME NEW t, NEW h, Intact(t, h)
    PROVE  /\ BucketCount \in Nat \ {0}
           /\ t.bucket \in [Buckets -> Seq(Entries)] /\ t.entry_count \in Nat
           /\ h \in [Bound -> Seq(Queues)]
           /\ \A b \in Buckets : /\ t.bucket[b] \in Seq(Entries)
                                 /\ DOMAIN t.bucket[b] = 1..Len(t.bucket[b])
                                 /\ Len(t.bucket[b]) \in Nat
                                 /\ \A i \in DOMAIN t.bucket[b] :
                                      /\ t.bucket[b][i] \in Entries
                                      /\ t.bucket[b][i].key \in Names
                                      /\ Folded(t.bucket[b][i].key) \in Bound
           /\ \A f \in Bound : /\ h[f] \in Seq(Queues) /\ Len(h[f]) \in Nat
                               /\ DOMAIN h[f] = 1..Len(h[f])
                               /\ \A k \in DOMAIN h[f] : h[f][k] \in Queues
           /\ \A n \in Names : Bucket[n] \in Buckets /\ Folded(n) \in Bound
<1>1. /\ t.bucket \in [Buckets -> Seq(Entries)] /\ t.entry_count \in Nat
      /\ h \in [Bound -> Seq(Queues)]
  BY DEF Intact, Tables, Buckets
<1>2. ASSUME NEW b \in Buckets
      PROVE  /\ t.bucket[b] \in Seq(Entries)
             /\ DOMAIN t.bucket[b] = 1..Len(t.bucket[b])
             /\ Len(t.bucket[b]) \in Nat
             /\ \A i \in DOMAIN t.bucket[b] :
                   /\ t.bucket[b][i] \in Entries
                   /\ t.bucket[b][i].key \in Names
                   /\ Folded(t.bucket[b][i].key) \in Bound
  <2>1. t.bucket[b] \in Seq(Entries)
    BY <1>1, <1>2
  <2>2. \A i \in DOMAIN t.bucket[b] : t.bucket[b][i] \in Entries
    BY <2>1
  <2> QED
    BY <2>1, <2>2 DEF Entries, Bound
<1>3. \A f \in Bound : /\ h[f] \in Seq(Queues) /\ Len(h[f]) \in Nat
                       /\ DOMAIN h[f] = 1..Len(h[f])
                       /\ \A k \in DOMAIN h[f] : h[f][k] \in Queues
  BY <1>1
<1>4. \A n \in Names : Bucket[n] \in Buckets /\ Folded(n) \in Bound
  BY BucketOfName DEF Buckets, Bound
<1> QED
  BY <1>1, <1>2, <1>3, <1>4, QueueTableAssumption

(* Every queue of a history is one of its queues. *)
LEMMA InHistory ==
    ASSUME NEW h, NEW f \in Bound, NEW k \in DOMAIN h[f]
    PROVE  h[f][k] \in QueuesIn(h)
BY DEF QueuesIn

(* Adding a queue keeps the table true to its history. *)
LEMMA InsertedIntact ==
    ASSUME NEW t, NEW h, Intact(t, h), NEW n \in Names, NEW q \in Queues, q \notin QueuesIn(h)
    PROVE  Intact(Inserted(t, n, q), [h EXCEPT ![Folded(n)] = Append(@, q)])
<1> DEFINE F == Folded(n)
           B == Bucket[n]
           e == [key |-> n, data |-> q]
           r == Inserted(t, n, q)
           g == [h EXCEPT ![F] = Append(@, q)]
           N == Len(h[F]) + 1
<1>1. /\ t.bucket \in [Buckets -> Seq(Entries)] /\ t.entry_count \in Nat
      /\ h \in [Bound -> Seq(Queues)]
      /\ B \in Buckets /\ F \in Bound /\ e \in Entries /\ N \in Nat
      /\ h[F] \in Seq(Queues) /\ DOMAIN h[F] = 1..Len(h[F]) /\ Len(h[F]) \in Nat
      /\ t.bucket[B] \in Seq(Entries) /\ DOMAIN t.bucket[B] = 1..Len(t.bucket[B])
      /\ Len(t.bucket[B]) \in Nat
  <2>1. B \in Buckets /\ F \in Bound /\ e \in Entries
    BY IntactTypes DEF Entries
  <2> HIDE DEF B, F, e
  <2> QED
    BY <2>1, IntactTypes
<1>2. /\ r \in Tables /\ r.entry_count = t.entry_count + 1
      /\ \A b \in Buckets \ {B} : r.bucket[b] = t.bucket[b]
      /\ DOMAIN r.bucket[B] = 1..(Len(t.bucket[B]) + 1)
      /\ r.bucket[B][1] = e
      /\ \A i \in DOMAIN t.bucket[B] : r.bucket[B][i + 1] = t.bucket[B][i]
  <2> DEFINE list == <<e>> \o t.bucket[B]
  <2>1. /\ list \in Seq(Entries) /\ DOMAIN list = 1..(Len(t.bucket[B]) + 1)
        /\ list[1] = e /\ \A i \in DOMAIN t.bucket[B] : list[i + 1] = t.bucket[B][i]
    BY <1>1
  <2>2. r.bucket = [t.bucket EXCEPT ![B] = list] /\ r.entry_count = t.entry_count + 1
        /\ r = [bucket |-> r.bucket, entry_count |-> r.entry_count]
    BY DEF Inserted
  <2> HIDE DEF list, r, e, B
  <2>3. r.bucket \in [Buckets -> Seq(Entries)] /\ r.bucket[B] = list
        /\ \A b \in Buckets \ {B} : r.bucket[b] = t.bucket[b]
    BY <1>1, <2>1, <2>2
  <2>4. r \in Tables
    <3>1. r.bucket \in [Buckets -> Seq(Entries)] /\ r.entry_count \in Nat
      BY <1>1, <2>2, <2>3
    <3>2. [bucket |-> r.bucket, entry_count |-> r.entry_count] \in Tables
      BY <3>1 DEF Tables, Buckets
    <3> QED
      BY <2>2, <3>2
  <2> QED
    BY <2>1, <2>2, <2>3, <2>4
<1>3. /\ g \in [Bound -> Seq(Queues)]
      /\ \A f \in Bound \ {F} : g[f] = h[f]
      /\ DOMAIN g[F] = DOMAIN h[F] \cup {N} /\ g[F][N] = q
      /\ \A k \in DOMAIN h[F] : g[F][k] = h[F][k] /\ k < N /\ h[F][k] # q
  <2>1. \A k \in DOMAIN h[F] : h[F][k] \in QueuesIn(h)
    BY <1>1 DEF QueuesIn
  <2> HIDE DEF F
  <2> QED
    BY <1>1, <2>1
<1> HIDE DEF F, B, r, g, N
<1>4. QueuesIn(g) = QueuesIn(h) \cup {q}
  <2>1. ASSUME NEW f \in Bound, NEW k \in DOMAIN g[f] PROVE g[f][k] \in QueuesIn(h) \cup {q}
    <3>1. (k \in DOMAIN h[f] /\ g[f][k] = h[f][k]) \/ g[f][k] = q
      BY <1>1, <1>3, <2>1
    <3> QED
      BY <2>1, <3>1, InHistory
  <2>2. ASSUME NEW f \in Bound, NEW k \in DOMAIN h[f] PROVE h[f][k] \in QueuesIn(g)
    <3>1. k \in DOMAIN g[f] /\ g[f][k] = h[f][k]
      BY <1>1, <1>3, <2>2
    <3> QED
      BY <2>2, <3>1, InHistory
  <2>3. q \in QueuesIn(g)
    BY <1>1, <1>3, InHistory
  <2> QED
    BY <2>1, <2>2, <2>3 DEF QueuesIn
<1>5. IsFiniteSet(QueuesIn(g)) /\ r.entry_count = Cardinality(QueuesIn(g))
  BY <1>2, <1>4, FS_AddElement DEF Intact
<1>6. AddedOnce(g)
  <2>1. \A f \in Bound : \A k \in DOMAIN h[f] : h[f][k] # q
    BY DEF QueuesIn
  <2> SUFFICES ASSUME NEW f1 \in Bound, NEW f2 \in Bound,
                      NEW k \in DOMAIN g[f1], NEW l \in DOMAIN g[f2], g[f1][k] = g[f2][l]
               PROVE  f1 = f2 /\ k = l
    BY DEF AddedOnce
  <2>2. \A f \in Bound : \A x \in DOMAIN g[f] :
            \/ x \in DOMAIN h[f] /\ g[f][x] = h[f][x] /\ g[f][x] # q
            \/ f = F /\ x = N /\ g[f][x] = q
    <3> SUFFICES ASSUME NEW f \in Bound, NEW x \in DOMAIN g[f]
                 PROVE  \/ x \in DOMAIN h[f] /\ g[f][x] = h[f][x] /\ g[f][x] # q
                        \/ f = F /\ x = N /\ g[f][x] = q
      OBVIOUS
    <3>1. CASE f # F
      BY <1>3, <2>1, <3>1
    <3>2. CASE f = F
      BY <1>3, <3>2
    <3> QED
      BY <3>1, <3>2
  <2>3. \A f, z \in Bound : \A x \in DOMAIN h[f], y \in DOMAIN h[z] :
            h[f][x] = h[z][y] => f = z /\ x = y
    BY DEF Intact, AddedOnce
  <2> QED
    BY <2>2, <2>3
<1>7. \A x \in Entries, k \in Nat : AddedAs(g, x, k) <=>
          AddedAs(h, x, k) \/ (Folded(x.key) = F /\ k = N /\ x.data = q)
  <2>1. ASSUME NEW x \in Entries, NEW k \in Nat
        PROVE  AddedAs(g, x, k) <=>
                 AddedAs(h, x, k) \/ (Folded(x.key) = F /\ k = N /\ x.data = q)
    <3>1. Folded(x.key) \in Bound
      BY DEF Entries, Bound
    <3>2. CASE Folded(x.key) = F
      BY <1>3, <3>2 DEF AddedAs
    <3>3. CASE Folded(x.key) # F
      BY <1>3, <3>1, <3>3 DEF AddedAs
    <3> QED
      BY <3>2, <3>3
  <2> QED
    BY <2>1
<1>8. /\ \A b \in Buckets : \A i \in DOMAIN t.bucket[b] : t.bucket[b][i] \in Entries
      /\ \A i \in DOMAIN r.bucket[B] : i = 1 \/ (i - 1 \in DOMAIN t.bucket[B]
                                                 /\ r.bucket[B][i] = t.bucket[B][i - 1])
  <2>1. ASSUME NEW i \in DOMAIN r.bucket[B], i # 1
        PROVE  i - 1 \in DOMAIN t.bucket[B] /\ r.bucket[B][i] = t.bucket[B][i - 1]
    <3>1. i - 1 \in DOMAIN t.bucket[B] /\ (i - 1) + 1 = i
      <4> DEFINE old == t.bucket[B]
                 new == r.bucket[B]
      <4>1. old \in Seq(Entries) /\ Len(new) = Len(old) + 1 /\ DOMAIN new = 1..Len(new) /\ i \in DOMAIN new /\ i # 1
        BY <1>1, <1>2, <2>1
      <4> HIDE DEF old, new
      <4>2. i - 1 \in DOMAIN old /\ (i - 1) + 1 = i
        BY ONLY <4>1
      <4> QED
        BY <4>2 DEF old
    <3> QED
      BY <1>2, <3>1
  <2> QED
    BY <2>1, IntactTypes
<1>9. AddedAs(g, e, N) /\ e \in Entries /\ Bucket[e.key] = B /\ Folded(e.key) = F
  BY <1>1, <1>7 DEF B, F
<1>10. InOwnBucket(r, g)
  <2>1. ASSUME NEW b \in Buckets, NEW i \in DOMAIN t.bucket[b]
        PROVE  Bucket[t.bucket[b][i].key] = b /\ \E k \in Nat : AddedAs(g, t.bucket[b][i], k)
    BY <1>7, <1>8, <2>1 DEF Intact, InOwnBucket
  <2> SUFFICES ASSUME NEW b \in Buckets, NEW i \in DOMAIN r.bucket[b]
               PROVE  Bucket[r.bucket[b][i].key] = b /\ \E k \in Nat : AddedAs(g, r.bucket[b][i], k)
    BY DEF InOwnBucket
  <2> HIDE DEF e
  <2>2. CASE b # B
    BY <1>2, <2>1, <2>2
  <2>3. CASE b = B /\ i = 1
    BY <1>1, <1>2, <1>9, <2>3
  <2>4. CASE b = B /\ i # 1
    BY <1>8, <2>1, <2>4
  <2> QED
    BY <2>2, <2>3, <2>4
<1>11. EveryListed(r, g)
  <2> SUFFICES ASSUME NEW m \in Names, NEW k \in DOMAIN g[Folded(m)]
               PROVE  \E i \in DOMAIN r.bucket[Bucket[m]] :
                          /\ SameName(r.bucket[Bucket[m]][i].key, m)
                          /\ r.bucket[Bucket[m]][i].data = g[Folded(m)][k]
    BY DEF EveryListed
  <2>1. CASE k \in DOMAIN h[Folded(m)]
    <3>1. PICK i \in DOMAIN t.bucket[Bucket[m]] :
              /\ SameName(t.bucket[Bucket[m]][i].key, m)
              /\ t.bucket[Bucket[m]][i].data = h[Folded(m)][k]
      BY <2>1 DEF Intact, EveryListed
    <3>2. g[Folded(m)][k] = h[Folded(m)][k] /\ Bucket[m] \in Buckets
      BY <1>3, <2>1, IntactTypes
    <3>3. CASE Bucket[m] # B
      BY <1>2, <3>1, <3>2, <3>3
    <3>4. CASE Bucket[m] = B
      <4>1. i + 1 \in DOMAIN r.bucket[B] /\ r.bucket[B][i + 1] = t.bucket[B][i]
        <5> HIDE DEF e
        <5>1. i \in DOMAIN t.bucket[B]
          BY <3>4
        <5>2. i + 1 \in 1..(Len(t.bucket[B]) + 1)
          BY <1>1, <5>1
        <5> QED
          BY <1>2, <5>1, <5>2
      <4> QED
        BY <3>1, <3>2, <3>4, <4>1
    <3> QED
      BY <3>3, <3>4
  <2>2. CASE k \notin DOMAIN h[Folded(m)]
    <3>1. Folded(m) = F /\ k = N /\ SameName(n, m)
      BY <1>3, <2>2, IntactTypes DEF F, SameName
    <3>2. Bucket[m] = B
      BY <3>1, BucketOfName DEF B
    <3>3. 1 \in DOMAIN r.bucket[B]
      BY <1>1, <1>2
    <3> QED
      <4>1. r.bucket[B][1].key = n /\ r.bucket[B][1].data = q
        BY <1>2
      <4> QED
        BY <1>3, <3>1, <3>2, <3>3, <4>1
  <2> QED
    BY <2>1, <2>2
<1>12. NewestFirst(r, g)
  <2> SUFFICES ASSUME NEW b \in Buckets, NEW i \in DOMAIN r.bucket[b], NEW j \in DOMAIN r.bucket[b],
                      i < j, SameName(r.bucket[b][i].key, r.bucket[b][j].key),
                      NEW k \in Nat, NEW l \in Nat,
                      AddedAs(g, r.bucket[b][i], k), AddedAs(g, r.bucket[b][j], l)
               PROVE  l < k
    BY DEF NewestFirst
  <2>1. ASSUME NEW c \in Buckets, NEW x \in DOMAIN t.bucket[c], NEW a \in Nat,
               AddedAs(g, t.bucket[c][x], a)
        PROVE  AddedAs(h, t.bucket[c][x], a)
    <3>1. PICK z \in Nat : AddedAs(h, t.bucket[c][x], z)
      BY <2>1 DEF Intact, InOwnBucket
    <3>2. t.bucket[c][x].data # q
      <4>1. Folded(t.bucket[c][x].key) \in Bound
        BY IntactTypes
      <4>2. t.bucket[c][x].data \in QueuesIn(h)
        BY <3>1, <4>1, InHistory DEF AddedAs
      <4> QED
        BY <4>2
    <3> QED
      BY <1>7, <1>8, <2>1, <3>2
  <2>2. \A c \in Buckets : \A x, y \in DOMAIN t.bucket[c] :
            x < y /\ SameName(t.bucket[c][x].key, t.bucket[c][y].key) =>
               \A a, z \in Nat : AddedAs(h, t.bucket[c][x], a) /\ AddedAs(h, t.bucket[c][y], z) => z < a
    BY DEF Intact, NewestFirst
  <2>3. CASE b # B
    <3>1. r.bucket[b] = t.bucket[b]
      BY <1>2, <2>3
    <3>2. /\ i \in DOMAIN t.bucket[b] /\ AddedAs(g, t.bucket[b][i], k)
          /\ j \in DOMAIN t.bucket[b] /\ AddedAs(g, t.bucket[b][j], l)
      BY <3>1
    <3>3. AddedAs(h, t.bucket[b][i], k) /\ AddedAs(h, t.bucket[b][j], l)
      BY <2>1, <3>2
    <3> QED
      BY <2>2, <3>1, <3>2, <3>3
  <2>4. CASE b = B /\ i # 1
    <3>1. /\ i - 1 \in DOMAIN t.bucket[B] /\ r.bucket[B][i] = t.bucket[B][i - 1]
          /\ j - 1 \in DOMAIN t.bucket[B] /\ r.bucket[B][j] = t.bucket[B][j - 1]
          /\ i - 1 < j - 1
      <4>1. i \in DOMAIN r.bucket[B] /\ j \in DOMAIN r.bucket[B] /\ i \in Nat /\ j \in Nat
        <5>1. i \in DOMAIN r.bucket[B] /\ j \in DOMAIN r.bucket[B]
          BY <2>4
        <5>2. DOMAIN r.bucket[B] \subseteq Nat
          BY <1>2, LenProperties
        <5> QED
          BY <5>1, <5>2
      <4>2. j # 1
        BY <1>1, <1>2, <2>4
      <4> QED
        BY <1>8, <2>4, <4>1, <4>2
    <3>2. AddedAs(h, t.bucket[B][i - 1], k) /\ AddedAs(h, t.bucket[B][j - 1], l)
      BY <1>1, <2>1, <2>4, <3>1
    <3> QED
      BY <1>1, <2>2, <2>4, <3>1, <3>2
  <2>5. CASE b = B /\ i = 1
    <3>1. j - 1 \in DOMAIN t.bucket[B] /\ r.bucket[B][j] = t.bucket[B][j - 1]
      <4>1. j \in DOMAIN r.bucket[B] /\ j # 1
        BY <2>5
      <4> QED
        BY <1>8, <4>1
    <3>2. AddedAs(h, r.bucket[B][j], l)
      BY <1>1, <2>1, <2>5, <3>1
    <3>3. r.bucket[b][i] = e /\ Folded(r.bucket[b][j].key) = F
      BY <1>2, <1>9, <2>5 DEF SameName
    <3>4. l < N
      BY <1>3, <2>5, <3>2, <3>3 DEF AddedAs
    <3>5. k = N
      <4>1. ~AddedAs(h, e, k)
        BY <1>3, <1>9 DEF AddedAs
      <4> QED
        BY <1>7, <1>9, <3>3, <4>1
    <3> QED
      BY <3>4, <3>5
  <2> QED
    BY <2>3, <2>4, <2>5
<1>13. Intact(r, g)
  BY <1>2, <1>3, <1>5, <1>6, <1>10, <1>11, <1>12 DEF Intact
<1> QED
  BY <1>13 DEF r, g, F

(* Deleting the first entry of a name keeps it true, too: the entry that   *)
(* goes is that of the queue that the history loses.                       *)
LEMMA DeletedIntact ==
    ASSUME NEW t, NEW h, Intact(t, h), NEW n \in Names, h[Folded(n)] # <<>>
    PROVE  Intact(DeletedFrom(t, n), [h EXCEPT ![Folded(n)] = SubSeq(@, 1, Len(@) - 1)])
<1> DEFINE F == Folded(n)
           B == Bucket[n]
           list == t.bucket[B]
           r == DeletedFrom(t, n)
           g == [h EXCEPT ![F] = SubSeq(@, 1, Len(@) - 1)]
           M == Len(h[F])
           z == h[F][M]
<1>1. B \in Buckets /\ F \in Bound
  BY IntactTypes
<1>2. PICK p \in DOMAIN list : /\ FirstOf(t, n) = {p}
                               /\ SameName(list[p].key, n) /\ list[p].data = z
  BY FirstIsNewest
<1> DEFINE rest == SubSeq(list, 1, p - 1) \o SubSeq(list, p + 1, Len(list))
<1>3. r = [bucket |-> [t.bucket EXCEPT ![B] = rest], entry_count |-> t.entry_count - 1]
  <2>1. {SubSeq(list, 1, i - 1) \o SubSeq(list, i + 1, Len(list)) : i \in FirstOf(t, n)} = {rest}
    BY <1>2
  <2> HIDE DEF rest
  <2> QED
    BY <2>1 DEF DeletedFrom
<1> HIDE DEF F, B
<1>4. /\ t.bucket \in [Buckets -> Seq(Entries)] /\ t.entry_count \in Nat
      /\ h \in [Bound -> Seq(Queues)]
      /\ h[F] \in Seq(Queues) /\ DOMAIN h[F] = 1..M /\ M \in Nat \ {0}
      /\ list \in Seq(Entries) /\ DOMAIN list = 1..Len(list) /\ Len(list) \in Nat
      /\ p \in 1..Len(list)
  <2>1. h[F] # <<>>
    BY DEF F
  <2> QED
    BY <1>1, <1>2, <2>1, IntactTypes
<1>5. /\ rest \in Seq(Entries) /\ DOMAIN rest = 1..(Len(list) - 1)
      /\ \A x \in 1..(Len(list) - 1) : rest[x] = IF x < p THEN list[x] ELSE list[x + 1]
  <2> DEFINE before == SubSeq(list, 1, p - 1)
             after == SubSeq(list, p + 1, Len(list))
  <2> HIDE DEF list
  <2>1. /\ before \in Seq(Entries) /\ Len(before) = p - 1
        /\ \A x \in 1..(p - 1) : before[x] = list[x]
    BY <1>4
  <2>2. /\ after \in Seq(Entries) /\ Len(after) = Len(list) - p
        /\ \A x \in 1..(Len(list) - p) : after[x] = list[p + x]
    <3>1. list \in Seq(Entries) /\ p \in 1..Len(list) /\ Len(list) \in Nat
      BY <1>4
    <3>2. p + 1 \in Nat /\ p + 1 >= 1 /\ p + 1 <= Len(list) + 1 /\ Len(list) - (p + 1) + 1 = Len(list) - p
      BY ONLY <3>1
    <3> QED
      BY ONLY <3>1, <3>2
  <2>3. rest = before \o after
    OBVIOUS
  <2> HIDE DEF before, after, rest
  <2>4. /\ rest \in Seq(Entries) /\ Len(rest) = Len(list) - 1 /\ DOMAIN rest = 1..Len(rest)
        /\ \A x \in 1..(Len(list) - 1) : rest[x] = IF x <= p - 1 THEN before[x] ELSE after[x - (p - 1)]
    <3>1. /\ rest \in Seq(Entries) /\ Len(rest) = Len(before) + Len(after)
          /\ \A x \in 1..(Len(before) + Len(after)) :
                rest[x] = IF x <= Len(before) THEN before[x] ELSE after[x - Len(before)]
      BY <2>1, <2>2, <2>3, ConcatProperties
    <3>2. Len(before) + Len(after) = Len(list) - 1
      BY <1>4, <2>1, <2>2
    <3> QED
      BY <2>1, <3>1, <3>2
  <2>5. ASSUME NEW x \in 1..(Len(list) - 1)
        PROVE  rest[x] = IF x < p THEN list[x] ELSE list[x + 1]
    <3>1. CASE x < p
      <4>1. x \in 1..(p - 1) /\ x <= p - 1
        BY <1>4, <2>5, <3>1
      <4> QED
        BY <2>1, <2>4, <3>1, <4>1
    <3>2. CASE ~(x < p)
      <4>1. /\ x - (p - 1) \in 1..(Len(list) - p) /\ ~(x <= p - 1)
            /\ p + (x - (p - 1)) = x + 1
        BY <1>4, <2>5, <3>2
      <4> QED
        BY <2>2, <2>4, <3>2, <4>1
    <3> QED
      BY <3>1, <3>2
  <2> QED
    BY <2>4, <2>5
<1>6. /\ g \in [Bound -> Seq(Queues)]
      /\ \A f \in Bound \ {F} : g[f] = h[f]
      /\ DOMAIN g[F] = 1..(M - 1)
      /\ \A k \in 1..(M - 1) : g[F][k] = h[F][k] /\ k \in DOMAIN h[F]
  BY <1>1, <1>4
<1>7. \A f \in Bound : \A k \in DOMAIN g[f] : k \in DOMAIN h[f] /\ g[f][k] = h[f][k]
  BY <1>4, <1>6
<1> HIDE DEF M
<1>8. /\ z \in QueuesIn(h) /\ M \in DOMAIN h[F]
      /\ \A f \in Bound : \A k \in DOMAIN h[f] : h[f][k] = z => f = F /\ k = M
      /\ \A f \in Bound : \A k \in DOMAIN h[f] : h[f][k] # z => k \in DOMAIN g[f]
  <2>1. M \in DOMAIN h[F]
    BY <1>4
  <2>2. \A f \in Bound : \A k \in DOMAIN h[f] : h[f][k] = z => f = F /\ k = M
    BY <1>1, <2>1 DEF Intact, AddedOnce
  <2>3. ASSUME NEW f \in Bound, NEW k \in DOMAIN h[f], h[f][k] # z PROVE k \in DOMAIN g[f]
    <3>1. CASE f # F
      BY <1>6, <2>3, <3>1
    <3>2. CASE f = F
      BY <1>4, <1>6, <2>3, <3>2
    <3> QED
      BY <3>1, <3>2
  <2> QED
    BY <1>1, <2>1, <2>2, <2>3, InHistory
<1> HIDE DEF g, z, list, rest
<1>9. QueuesIn(g) = QueuesIn(h) \ {z}
  <2>1. ASSUME NEW f \in Bound, NEW k \in DOMAIN g[f]
        PROVE  g[f][k] \in QueuesIn(h) /\ g[f][k] # z
    <3>1. k \in DOMAIN h[f] /\ g[f][k] = h[f][k]
      BY <1>7, <2>1
    <3>2. ~(f = F /\ k = M)
      BY <1>4, <1>6, <2>1
    <3> QED
      BY <1>8, <3>1, <3>2, InHistory
  <2>2. ASSUME NEW f \in Bound, NEW k \in DOMAIN h[f], h[f][k] # z PROVE h[f][k] \in QueuesIn(g)
    <3>1. k \in DOMAIN g[f] /\ g[f][k] = h[f][k]
      BY <1>7, <1>8, <2>2
    <3> QED
      BY <2>2, <3>1, InHistory
  <2> QED
    BY <2>1, <2>2 DEF QueuesIn
<1>10. /\ r.bucket \in [Buckets -> Seq(Entries)] /\ r.entry_count = t.entry_count - 1
       /\ r = [bucket |-> r.bucket, entry_count |-> r.entry_count]
       /\ r.bucket[B] = rest /\ \A b \in Buckets \ {B} : r.bucket[b] = t.bucket[b]
  BY <1>1, <1>3, <1>4, <1>5
<1>11. /\ IsFiniteSet(QueuesIn(g)) /\ r.entry_count = Cardinality(QueuesIn(g))
       /\ r.entry_count \in Nat
  <2>1. IsFiniteSet(QueuesIn(h)) /\ t.entry_count = Cardinality(QueuesIn(h))
    BY DEF Intact
  <2>2. /\ IsFiniteSet(QueuesIn(g))
        /\ Cardinality(QueuesIn(g)) = Cardinality(QueuesIn(h)) - 1
    BY <1>8, <1>9, <2>1, FS_RemoveElement
  <2> QED
    BY <1>10, <2>1, <2>2, FS_CardinalityType
<1>12. r \in Tables
  <2>1. [bucket |-> r.bucket, entry_count |-> r.entry_count] \in Tables
    BY <1>10, <1>11 DEF Tables, Buckets
  <2> QED
    BY <1>10, <2>1
<1>13. AddedOnce(g)
  BY <1>7 DEF Intact, AddedOnce
<1>14. ASSUME NEW b \in Buckets, NEW x \in DOMAIN t.bucket[b], ~(b = B /\ x = p), NEW k \in Nat,
              AddedAs(h, t.bucket[b][x], k)
       PROVE  AddedAs(g, t.bucket[b][x], k) /\ t.bucket[b][x].data # z
  <2>1. /\ Folded(t.bucket[b][x].key) \in Bound /\ k \in DOMAIN h[Folded(t.bucket[b][x].key)]
        /\ h[Folded(t.bucket[b][x].key)][k] = t.bucket[b][x].data
    BY <1>14, IntactTypes DEF AddedAs
  <2>2. ASSUME t.bucket[b][x].data = z PROVE FALSE
    <3>1. Folded(t.bucket[b][x].key) = F /\ k = M
      BY <1>8, <2>1, <2>2
    <3>2. SameName(t.bucket[b][x].key, n) /\ t.bucket[b][x].key \in Names
      BY <1>14, <3>1, IntactTypes DEF F, SameName
    <3>3. Bucket[t.bucket[b][x].key] = B /\ Bucket[t.bucket[b][x].key] = b
      BY <3>2, <1>14, BucketOfName DEF B, Intact, InOwnBucket
    <3>4. x \in DOMAIN list /\ x # p /\ b = B /\ t.bucket[b][x] = list[x]
      BY <1>14, <3>3 DEF list
    <3>5. AddedAs(h, list[p], M) /\ AddedAs(h, list[x], M)
      BY <1>2, <1>8, <1>14, <3>1, <3>4 DEF AddedAs, SameName, F, z
    <3>6. SameName(list[p].key, list[x].key) /\ SameName(list[x].key, list[p].key)
      BY <1>2, <3>2, <3>4 DEF SameName
    <3>7. \A i, j \in DOMAIN list : i < j /\ SameName(list[i].key, list[j].key) =>
              \A u, v \in Nat : AddedAs(h, list[i], u) /\ AddedAs(h, list[j], v) => v < u
      BY <1>1 DEF Intact, NewestFirst, list
    <3>8. p < x \/ x < p
      BY <1>4, <3>4
    <3> QED
      BY <1>2, <1>4, <3>4, <3>5, <3>6, <3>7, <3>8
  <2> QED
    BY <1>7, <1>8, <2>1, <2>2 DEF AddedAs
<1>15. \A x \in Entries, k \in Nat : AddedAs(g, x, k) => AddedAs(h, x, k)
  <2>1. \A x \in Entries : Folded(x.key) \in Bound
    BY DEF Entries, Bound
  <2> QED
    BY <1>7, <2>1 DEF AddedAs
<1>16. \A x \in DOMAIN rest : \E y \in DOMAIN list \ {p} :
           rest[x] = list[y] /\ y = IF x < p THEN x ELSE x + 1
  BY <1>4, <1>5
<1>17. InOwnBucket(r, g)
  <2>1. ASSUME NEW b \in Buckets, NEW i \in DOMAIN t.bucket[b], ~(b = B /\ i = p)
        PROVE  Bucket[t.bucket[b][i].key] = b /\ \E k \in Nat : AddedAs(g, t.bucket[b][i], k)
    <3>1. Bucket[t.bucket[b][i].key] = b /\ \E k \in Nat : AddedAs(h, t.bucket[b][i], k)
      BY <2>1 DEF Intact, InOwnBucket
    <3> QED
      BY <1>14, <2>1, <3>1
  <2>2. ASSUME NEW b \in Buckets, NEW i \in DOMAIN r.bucket[b]
        PROVE  Bucket[r.bucket[b][i].key] = b /\ \E k \in Nat : AddedAs(g, r.bucket[b][i], k)
    <3>1. CASE b # B
      BY <1>10, <2>1, <2>2, <3>1
    <3>2. CASE b = B
      <4>1. PICK y \in DOMAIN list \ {p} : r.bucket[b][i] = list[y]
        BY <1>10, <1>16, <2>2, <3>2
      <4> QED
        BY <2>1, <3>2, <4>1 DEF list
    <3> QED
      BY <3>1, <3>2
  <2> QED
    BY <2>2 DEF InOwnBucket
<1>18. EveryListed(r, g)
  <2> SUFFICES ASSUME NEW m \in Names, NEW k \in DOMAIN g[Folded(m)]
               PROVE  \E i \in DOMAIN r.bucket[Bucket[m]] :
                          /\ SameName(r.bucket[Bucket[m]][i].key, m)
                          /\ r.bucket[Bucket[m]][i].data = g[Folded(m)][k]
    BY DEF EveryListed
  <2>1. /\ Folded(m) \in Bound /\ Bucket[m] \in Buckets
        /\ k \in DOMAIN h[Folded(m)] /\ g[Folded(m)][k] = h[Folded(m)][k]
        /\ g[Folded(m)][k] # z
    <3>1. Folded(m) \in Bound /\ Bucket[m] \in Buckets
      BY IntactTypes
    <3>2. g[Folded(m)][k] \in QueuesIn(g)
      BY <3>1, InHistory
    <3> QED
      BY <1>7, <1>9, <3>1, <3>2
  <2>2. PICK i \in DOMAIN t.bucket[Bucket[m]] :
            /\ SameName(t.bucket[Bucket[m]][i].key, m)
            /\ t.bucket[Bucket[m]][i].data = h[Folded(m)][k]
    BY <2>1 DEF Intact, EveryListed
  <2>3. CASE Bucket[m] # B
    BY <1>10, <2>1, <2>2, <2>3
  <2>4. CASE Bucket[m] = B
    <3>1. i \in DOMAIN list /\ list[i].data # z /\ i # p
      BY <1>2, <2>1, <2>2, <2>4 DEF list
    <3>2. \E x \in DOMAIN rest : rest[x] = list[i]
      <4>1. CASE i < p
        BY <1>4, <1>5, <3>1, <4>1
      <4>2. CASE p < i
        <5>1. i - 1 \in DOMAIN rest /\ ~(i - 1 < p) /\ (i - 1) + 1 = i
          BY <1>4, <1>5, <3>1, <4>2
        <5> QED
          BY <1>5, <5>1
      <4> QED
        BY <1>4, <3>1, <4>1, <4>2
    <3> QED
      BY <1>10, <2>1, <2>2, <2>4, <3>2 DEF list
  <2> QED
    BY <2>3, <2>4
<1>19. NewestFirst(r, g)
  <2> SUFFICES ASSUME NEW b \in Buckets, NEW i \in DOMAIN r.bucket[b], NEW j \in DOMAIN r.bucket[b],
                      i < j, SameName(r.bucket[b][i].key, r.bucket[b][j].key),
                      NEW k \in Nat, NEW l \in Nat,
                      AddedAs(g, r.bucket[b][i], k), AddedAs(g, r.bucket[b][j], l)
               PROVE  l < k
    BY DEF NewestFirst
  <2>1. \A x, y \in DOMAIN t.bucket[b] :
            x < y /\ SameName(t.bucket[b][x].key, t.bucket[b][y].key) =>
               \A u, v \in Nat : AddedAs(h, t.bucket[b][x], u) /\ AddedAs(h, t.bucket[b][y], v) => v < u
    BY DEF Intact, NewestFirst
  <2>2. \E x, y \in DOMAIN t.bucket[b] :
            x < y /\ r.bucket[b][i] = t.bucket[b][x] /\ r.bucket[b][j] = t.bucket[b][y]
    <3>1. CASE b # B
      BY <1>10, <3>1
    <3>2. CASE b = B
      <4>1. i \in DOMAIN rest /\ j \in DOMAIN rest /\ i \in Nat /\ j \in Nat
        <5>1. i \in DOMAIN rest /\ j \in DOMAIN rest
          BY <1>10, <3>2
        <5>2. DOMAIN rest = 1..(Len(list) - 1)
          BY <1>5
        <5> QED
          BY ONLY <5>1, <5>2
      <4>2. PICK x \in DOMAIN list : rest[i] = list[x] /\ x = IF i < p THEN i ELSE i + 1
        BY <1>16, <4>1
      <4>3. PICK y \in DOMAIN list : rest[j] = list[y] /\ y = IF j < p THEN j ELSE j + 1
        BY <1>16, <4>1
      <4>4. x < y
        BY <1>4, <4>1, <4>2, <4>3
      <4> QED
        BY <1>10, <3>2, <4>2, <4>3, <4>4 DEF list
    <3> QED
      BY <3>1, <3>2
  <2>3. PICK x, y \in DOMAIN t.bucket[b] :
            x < y /\ r.bucket[b][i] = t.bucket[b][x] /\ r.bucket[b][j] = t.bucket[b][y]
    BY <2>2
  <2>4. AddedAs(h, t.bucket[b][x], k) /\ AddedAs(h, t.bucket[b][y], l)
    BY <1>15, <2>3, IntactTypes
  <2> QED
    BY <2>1, <2>3, <2>4
<1>20. Intact(r, g)
  BY <1>6, <1>11, <1>12, <1>13, <1>17, <1>18, <1>19 DEF Intact
<1> QED
  BY <1>20 DEF g, F

(* A name that has nothing added is not found, and deleting it changes     *)
(* nothing; any other is answered with the queue added last.               *)
LEMMA FoundIsNewest ==
    ASSUME NEW t, NEW h, Intact(t, h), NEW n \in Names
    PROVE  /\ h[Folded(n)] = <<>> =>
                 Found(t, n) = None /\ DeleteReport(t, n) = 0 /\ DeletedFrom(t, n) = t
           /\ h[Folded(n)] # <<>> =>
                 /\ Found(t, n) = h[Folded(n)][Len(h[Folded(n)])]
                 /\ DeleteReport(t, n) = -1
<1>1. ASSUME h[Folded(n)] = <<>>
      PROVE  Found(t, n) = None /\ DeleteReport(t, n) = 0 /\ DeletedFrom(t, n) = t
  <2>1. FirstOf(t, n) = {}
    BY <1>1, FirstIsNewest
  <2> QED
    BY <2>1 DEF Found, DeleteReport, DeletedFrom
<1>2. ASSUME h[Folded(n)] # <<>>
      PROVE  Found(t, n) = h[Folded(n)][Len(h[Folded(n)])] /\ DeleteReport(t, n) = -1
  <2>1. PICK i \in DOMAIN t.bucket[Bucket[n]] :
            /\ FirstOf(t, n) = {i}
            /\ t.bucket[Bucket[n]][i].data = h[Folded(n)][Len(h[Folded(n)])]
    BY <1>2, FirstIsNewest
  <2>2. FirstOf(t, n) # {} /\ (CHOOSE x \in FirstOf(t, n) : TRUE) = i
    BY <2>1
  <2> QED
    BY <2>1, <2>2 DEF Found, DeleteReport
<1> QED
  BY <1>1, <1>2

(* No two entries are of the same queue, and all are of queues added.      *)
LEMMA EntriesApart ==
    ASSUME NEW t, NEW h, Intact(t, h), NEW b \in Buckets, NEW i \in DOMAIN t.bucket[b]
    PROVE  /\ t.bucket[b][i].data \in QueuesIn(h)
           /\ \A c \in Buckets : \A j \in DOMAIN t.bucket[c] :
                 t.bucket[b][i].data = t.bucket[c][j].data => b = c /\ i = j
<1>1. PICK k \in Nat : AddedAs(h, t.bucket[b][i], k)
  BY DEF Intact, InOwnBucket
<1>2. /\ Folded(t.bucket[b][i].key) \in Bound /\ k \in DOMAIN h[Folded(t.bucket[b][i].key)]
      /\ h[Folded(t.bucket[b][i].key)][k] = t.bucket[b][i].data
  BY <1>1, IntactTypes DEF AddedAs
<1>3. t.bucket[b][i].data \in QueuesIn(h)
  BY <1>2, InHistory
<1>4. ASSUME NEW c \in Buckets, NEW j \in DOMAIN t.bucket[c],
             t.bucket[b][i].data = t.bucket[c][j].data
      PROVE  b = c /\ i = j
  <2>1. PICK l \in Nat : AddedAs(h, t.bucket[c][j], l)
    BY <1>4 DEF Intact, InOwnBucket
  <2>2. /\ Folded(t.bucket[c][j].key) \in Bound /\ l \in DOMAIN h[Folded(t.bucket[c][j].key)]
        /\ h[Folded(t.bucket[c][j].key)][l] = t.bucket[c][j].data
    BY <1>4, <2>1, IntactTypes DEF AddedAs
  <2>3. Folded(t.bucket[b][i].key) = Folded(t.bucket[c][j].key) /\ k = l
    BY <1>2, <1>4, <2>2 DEF Intact, AddedOnce
  <2>4. /\ SameName(t.bucket[b][i].key, t.bucket[c][j].key)
        /\ SameName(t.bucket[c][j].key, t.bucket[b][i].key)
    BY <2>3 DEF SameName
  <2>5. b = c
    <3>1. t.bucket[b][i].key \in Names /\ t.bucket[c][j].key \in Names
      BY <1>4, IntactTypes
    <3>2. Bucket[t.bucket[b][i].key] = b /\ Bucket[t.bucket[c][j].key] = c
      BY <1>4 DEF Intact, InOwnBucket
    <3> QED
      BY <2>4, <3>1, <3>2, BucketOfName
  <2>6. i \in Nat /\ j \in Nat /\ j \in DOMAIN t.bucket[b]
    BY <1>4, <2>5, IntactTypes
  <2>7. \A x, y \in DOMAIN t.bucket[b] :
            x < y /\ SameName(t.bucket[b][x].key, t.bucket[b][y].key) =>
               \A u, v \in Nat : AddedAs(h, t.bucket[b][x], u) /\ AddedAs(h, t.bucket[b][y], v) => v < u
    BY DEF Intact, NewestFirst
  <2>8. ~(i < j) /\ ~(j < i)
    BY <1>1, <2>1, <2>3, <2>4, <2>5, <2>6, <2>7
  <2> QED
    BY <2>5, <2>6, <2>8
<1> QED
  BY <1>3, <1>4

-----------------------------------------------------------------------------
(* The enumeration. *)

(* What the cursor has passed. *)
Passed(cur, b, i) == b < cur.bucket_no \/ (b = cur.bucket_no /\ i < cur.entry)

AtEntry(t, cur) == cur.bucket_no \in Buckets /\ cur.entry \in DOMAIN t.bucket[cur.bucket_no]

(* Going on to the next entry passes none: buckets in between are empty.   *)
LEMMA NextEntry ==
    ASSUME NEW t, NEW h, Intact(t, h), NEW cur \in Cursors,
           cur.bucket_no \in Buckets, cur.entry # 0
    PROVE  /\ EnumAt(t, cur) \in Cursors
           /\ EnumDone(EnumAt(t, cur)) \/ AtEntry(t, EnumAt(t, cur))
           /\ \A b \in Buckets : \A i \in DOMAIN t.bucket[b] :
                 Passed(EnumAt(t, cur), b, i) <=> Passed(cur, b, i)
<1> DEFINE n == cur.bucket_no
           later == {b \in (n + 1)..(BucketCount - 1) : t.bucket[b] # <<>>}
           r == EnumAt(t, cur)
<1>1. n \in Buckets /\ n \in Nat /\ cur.entry \in Nat \ {0} /\ BucketCount \in Nat \ {0}
  BY QueueTableAssumption DEF Cursors, Buckets
<1>2. DOMAIN t.bucket[n] = 1..Len(t.bucket[n]) /\ Len(t.bucket[n]) \in Nat
  BY <1>1, IntactTypes
<1>3. CASE cur.entry <= Len(t.bucket[n])
  <2>1. r = cur
    BY <1>3 DEF EnumAt
  <2>2. AtEntry(t, cur)
    BY <1>1, <1>2, <1>3 DEF AtEntry
  <2> QED
    BY <2>1, <2>2
<1>4. CASE ~(cur.entry <= Len(t.bucket[n])) /\ later = {}
  <2>1. r = [bucket_no |-> BucketCount, entry |-> 1]
    BY <1>4 DEF EnumAt
  <2>2. r \in Cursors /\ EnumDone(r)
    BY <1>1, <2>1 DEF Cursors, EnumDone
  <2>3. ASSUME NEW b \in Buckets, NEW i \in DOMAIN t.bucket[b]
        PROVE  Passed(r, b, i) /\ Passed(cur, b, i)
    <3>1. b \in Nat /\ b < BucketCount /\ i \in Nat
      BY <1>1, <2>3, IntactTypes DEF Buckets
    <3>2. b \notin later /\ t.bucket[b] # <<>>
      BY <1>4, <2>3
    <3>3. b <= n
      BY <1>1, <3>1, <3>2
    <3>4. b = n => i < cur.entry
      BY <1>1, <1>2, <1>4, <2>3
    <3> QED
      BY <1>1, <2>1, <3>1, <3>3, <3>4 DEF Passed
  <2> QED
    BY <2>2, <2>3
<1>5. CASE ~(cur.entry <= Len(t.bucket[n])) /\ later # {}
  <2> DEFINE m == CHOOSE b \in later : \A c \in later : b <= c
  <2>1. r = [bucket_no |-> m, entry |-> 1]
    BY <1>5 DEF EnumAt
  <2>2. m \in later /\ \A c \in later : m <= c
    <3>1. later \in SUBSET Nat
      BY <1>1
    <3> HIDE DEF later
    <3>2. \E b \in later : \A c \in later : b <= c
      BY <1>5, <3>1, LeastNatural
    <3> QED
      BY <3>2
  <2> HIDE DEF m, r
  <2>3. m \in Buckets /\ m \in Nat /\ n < m /\ t.bucket[m] # <<>>
    BY <1>1, <2>2 DEF Buckets
  <2>4. r \in Cursors /\ AtEntry(t, r)
    <3>1. 1 \in DOMAIN t.bucket[m]
      BY <2>3, IntactTypes
    <3>2. m \in 0..BucketCount
      BY <1>1, <2>3 DEF Buckets
    <3> QED
      BY <2>1, <2>3, <3>1, <3>2 DEF AtEntry, Cursors
  <2>5. ASSUME NEW b \in Buckets, NEW i \in DOMAIN t.bucket[b]
        PROVE  Passed(r, b, i) <=> Passed(cur, b, i)
    <3>1. b \in Nat /\ b < BucketCount /\ i \in Nat \ {0}
      BY <1>1, <2>5, IntactTypes DEF Buckets
    <3>2. t.bucket[b] # <<>>
      BY <2>5
    <3>3. b < m => b <= n
      <4> SUFFICES ASSUME b < m, n < b PROVE FALSE
        BY <1>1, <3>1
      <4>1. b \in later
        BY <1>1, <3>1, <3>2
      <4> HIDE DEF later
      <4> QED
        BY <2>2, <2>3, <3>1, <4>1
    <3>4. b = n => i < cur.entry
      BY <1>1, <1>2, <1>5, <2>5
    <3> QED
      BY <1>1, <2>1, <2>3, <3>1, <3>3, <3>4 DEF Passed
  <2> QED
    BY <2>4, <2>5 DEF r
<1> QED
  BY <1>3, <1>4, <1>5

(* What is destroyed is what the cursor has passed, each queue once. *)
PassedIs(t, cur, d) ==
    /\ cur \in Cursors /\ cur.entry # 0
    /\ EnumDone(cur) \/ AtEntry(t, cur)
    /\ d \in Seq(Queues)
    /\ \A x, y \in DOMAIN d : d[x] = d[y] => x = y
    /\ \A x \in DOMAIN d : \E b \in Buckets : \E i \in DOMAIN t.bucket[b] :
          Passed(cur, b, i) /\ t.bucket[b][i].data = d[x]
    /\ \A b \in Buckets : \A i \in DOMAIN t.bucket[b] :
          Passed(cur, b, i) => \E x \in DOMAIN d : d[x] = t.bucket[b][i].data

(* The enumeration begins before all entries. *)
LEMMA BeginsBeforeAll ==
    ASSUME NEW t, NEW h, Intact(t, h)
    PROVE  PassedIs(t, EnumAt(t, EnumBegin), <<>>)
<1>1. BucketCount \in Nat \ {0}
  BY IntactTypes
<1>2. EnumBegin \in Cursors /\ EnumBegin.bucket_no \in Buckets /\ EnumBegin.entry # 0
  BY <1>1 DEF EnumBegin, Cursors, Buckets
<1>3. ASSUME NEW b \in Buckets, NEW i \in DOMAIN t.bucket[b] PROVE ~Passed(EnumBegin, b, i)
  <2>1. b \in Nat /\ i \in Nat \ {0}
    BY <1>3, IntactTypes DEF Buckets
  <2> QED
    BY <2>1 DEF Passed, EnumBegin
<1> DEFINE r == EnumAt(t, EnumBegin)
<1>4. /\ r \in Cursors
      /\ EnumDone(r) \/ AtEntry(t, r)
      /\ \A b \in Buckets : \A i \in DOMAIN t.bucket[b] : ~Passed(r, b, i)
  BY <1>2, <1>3, NextEntry
<1>5. r.entry # 0
  <2>1. r = EnumBegin \/ r.entry = 1
    BY <1>2 DEF EnumAt
  <2> QED
    BY <1>2, <2>1
<1> HIDE DEF r
<1>6. PassedIs(t, r, <<>>)
  BY <1>4, <1>5 DEF PassedIs
<1> QED
  BY <1>6 DEF r

(* Each turn destroys the entry the cursor is at and passes no other.      *)
LEMMA PassesOne ==
    ASSUME NEW t, NEW h, Intact(t, h), NEW cur, NEW d, PassedIs(t, cur, d), ~EnumDone(cur)
    PROVE  /\ EnumNext(cur).bucket_no # BucketCount
           /\ PassedIs(t, EnumAt(t, EnumNext(cur)), Append(d, EnumData(t, cur)))
<1> DEFINE n == cur.bucket_no
           i == cur.entry
           q == t.bucket[n][i].data
           r == EnumAt(t, EnumNext(cur))
           g == Append(d, q)
<1>1. /\ cur \in Cursors /\ n \in Buckets /\ i \in DOMAIN t.bucket[n] /\ n # BucketCount
      /\ n \in Nat /\ i \in Nat \ {0}
  <2>1. cur \in Cursors /\ n \in Buckets /\ i \in DOMAIN t.bucket[n] /\ n # BucketCount
    BY DEF PassedIs, AtEntry, EnumDone
  <2> QED
    BY <2>1, IntactTypes DEF Buckets
<1>2. /\ EnumNext(cur) = [bucket_no |-> n, entry |-> i + 1]
      /\ EnumNext(cur) \in Cursors
  <2>1. cur = [bucket_no |-> n, entry |-> i]
    BY <1>1 DEF Cursors
  <2>2. EnumNext(cur) = [bucket_no |-> n, entry |-> i + 1]
    BY <2>1 DEF EnumNext
  <2>3. n \in 0..BucketCount
    BY <1>1 DEF Cursors
  <2> QED
    BY <1>1, <2>2, <2>3 DEF Cursors
<1>3. ASSUME NEW b \in Buckets, NEW j \in DOMAIN t.bucket[b]
      PROVE  Passed(r, b, j) <=> Passed(cur, b, j) \/ (b = n /\ j = i)
  <2>1. b \in Nat /\ j \in Nat
    BY <1>3, IntactTypes DEF Buckets
  <2>2. Passed(EnumNext(cur), b, j) <=> Passed(cur, b, j) \/ (b = n /\ j = i)
    BY <1>1, <1>2, <2>1 DEF Passed
  <2>3. Passed(r, b, j) <=> Passed(EnumNext(cur), b, j)
    BY <1>1, <1>2, <1>3, NextEntry
  <2> QED
    BY <2>2, <2>3
<1>4. r \in Cursors /\ (EnumDone(r) \/ AtEntry(t, r))
  BY <1>1, <1>2, NextEntry
<1>5. r.entry # 0
  <2>1. r = EnumNext(cur) \/ r.entry = 1
    BY <1>2 DEF EnumAt
  <2> QED
    BY <1>1, <1>2, <2>1
<1>6. q = EnumData(t, cur) /\ q \in Queues
  <2>1. t.bucket[n][i] \in Entries
    BY <1>1, IntactTypes
  <2> QED
    BY <2>1 DEF Entries, EnumData
<1>7. /\ g \in Seq(Queues) /\ DOMAIN g = DOMAIN d \cup {Len(d) + 1}
      /\ g[Len(d) + 1] = q /\ \A x \in DOMAIN d : g[x] = d[x]
  <2> HIDE DEF q
  <2>1. d \in Seq(Queues)
    BY DEF PassedIs
  <2> QED
    BY <1>6, <2>1
<1>8. \A x \in DOMAIN d : d[x] # q
  <2>1. ASSUME NEW x \in DOMAIN d, d[x] = q PROVE FALSE
    <3>1. PICK b \in Buckets : \E j \in DOMAIN t.bucket[b] :
              Passed(cur, b, j) /\ t.bucket[b][j].data = q
      BY <2>1 DEF PassedIs
    <3>2. PICK j \in DOMAIN t.bucket[b] : Passed(cur, b, j) /\ t.bucket[b][j].data = q
      BY <3>1
    <3>3. b = n /\ j = i
      BY <1>1, <3>2, EntriesApart
    <3> QED
      BY <1>1, <3>2, <3>3 DEF Passed
  <2> QED
    BY <2>1
<1> HIDE DEF r, g, q
<1>9. \A x, y \in DOMAIN g : g[x] = g[y] => x = y
  BY <1>7, <1>8 DEF PassedIs
<1>10. ASSUME NEW x \in DOMAIN g
       PROVE  \E b \in Buckets : \E j \in DOMAIN t.bucket[b] :
                 Passed(r, b, j) /\ t.bucket[b][j].data = g[x]
  <2>1. CASE x \in DOMAIN d
    <3>1. PICK b \in Buckets : \E j \in DOMAIN t.bucket[b] :
              Passed(cur, b, j) /\ t.bucket[b][j].data = d[x]
      BY <2>1 DEF PassedIs
    <3> QED
      BY <1>3, <1>7, <2>1, <3>1
  <2>2. CASE x = Len(d) + 1
    BY <1>1, <1>3, <1>7, <2>2 DEF q
  <2> QED
    BY <1>7, <2>1, <2>2
<1>11. ASSUME NEW b \in Buckets, NEW j \in DOMAIN t.bucket[b], Passed(r, b, j)
       PROVE  \E x \in DOMAIN g : g[x] = t.bucket[b][j].data
  <2>1. CASE Passed(cur, b, j)
    <3>1. PICK x \in DOMAIN d : d[x] = t.bucket[b][j].data
      BY <1>11, <2>1 DEF PassedIs
    <3> QED
      BY <1>7, <3>1
  <2>2. CASE b = n /\ j = i
    <3>1. Len(d) + 1 \in DOMAIN g /\ g[Len(d) + 1] = t.bucket[b][j].data
      BY <1>7, <2>2 DEF q
    <3> QED
      BY <3>1
  <2> QED
    BY <1>3, <1>11, <2>1, <2>2
<1>12. PassedIs(t, r, g)
  BY <1>4, <1>5, <1>7, <1>9, <1>10, <1>11 DEF PassedIs
<1> QED
  BY <1>1, <1>2, <1>6, <1>12 DEF r, g

(* What is destroyed was added; at the end of the enumeration it is all.   *)
LEMMA AllPassed ==
    ASSUME NEW t, NEW h, Intact(t, h), NEW cur, NEW d, PassedIs(t, cur, d)
    PROVE  /\ {d[x] : x \in DOMAIN d} \subseteq QueuesIn(h)
           /\ EnumDone(cur) => Len(d) = Cardinality(QueuesIn(h))
<1>1. \A x \in DOMAIN d : d[x] \in QueuesIn(h)
  <2>1. ASSUME NEW x \in DOMAIN d PROVE d[x] \in QueuesIn(h)
    <3>1. PICK b \in Buckets : \E i \in DOMAIN t.bucket[b] : t.bucket[b][i].data = d[x]
      BY DEF PassedIs
    <3> QED
      BY <3>1, EntriesApart
  <2> QED
    BY <2>1
<1>2. ASSUME EnumDone(cur) PROVE Len(d) = Cardinality(QueuesIn(h))
  <2>1. ASSUME NEW f \in Bound, NEW k \in DOMAIN h[f] PROVE \E x \in DOMAIN d : d[x] = h[f][k]
    <3>1. PICK n \in Names : f = Folded(n)
      BY DEF Bound
    <3>2. PICK i \in DOMAIN t.bucket[Bucket[n]] : t.bucket[Bucket[n]][i].data = h[f][k]
      BY <2>1, <3>1 DEF Intact, EveryListed
    <3>3. Bucket[n] \in Buckets /\ BucketCount \in Nat
      BY IntactTypes
    <3>4. Passed(cur, Bucket[n], i)
      BY <1>2, <3>3 DEF EnumDone, Passed, Buckets
    <3> QED
      BY <3>2, <3>3, <3>4 DEF PassedIs
  <2>2. {d[x] : x \in DOMAIN d} = QueuesIn(h)
    BY <1>1, <2>1 DEF QueuesIn
  <2>3. d \in Seq(Queues) /\ \A x, y \in DOMAIN d : d[x] = d[y] => x = y
    BY DEF PassedIs
  <2>4. DOMAIN d = 1..Len(d) /\ Len(d) \in Nat
    BY <2>3
  <2>5. IsFiniteSet(DOMAIN d) /\ Cardinality(DOMAIN d) = Len(d)
    <3>1. IsFiniteSet(1..Len(d)) /\ Cardinality(1..Len(d)) = Len(d)
      <4> DEFINE k == Len(d)
      <4>1. k \in Int /\ k >= 1 - 1
        BY <2>4
      <4> HIDE DEF k
      <4>2. IsFiniteSet(1..k) /\ Cardinality(1..k) = IF 1 > k THEN 0 ELSE k - 1 + 1
        BY <4>1, FS_Interval
      <4>3. Cardinality(1..k) = k
        BY <4>1, <4>2
      <4> QED
        BY <4>2, <4>3 DEF k
    <3> QED
      BY <2>4, <3>1
  <2>6. Cardinality({d[x] : x \in DOMAIN d}) = Cardinality(DOMAIN d)
    BY <2>3, <2>5, OneToOneCounted
  <2> QED
    BY <2>2, <2>5, <2>6
<1> QED
  BY <1>1, <1>2

-----------------------------------------------------------------------------
(* The invariant. *)

(* A table that is there is intact, and what is destroyed of it is what    *)
(* the cursor has passed; the table goes when the cursor is at the end.    *)
IInv ==
    /\ table # None =>
          /\ Intact(table, bound)
          /\ IF enum = None THEN destroyed = <<>> ELSE PassedIs(table, enum, destroyed)
    /\ table = None => enum # None /\ EnumDone(enum)
    /\ DestroyedOnce

(* DestroyedOnce holds of whatever the enumeration has done so far. *)
LEMMA LinkedIsOnce ==
    ASSUME NEW t, NEW h, Intact(t, h), NEW cur, NEW d,
           IF cur = None THEN d = <<>> ELSE PassedIs(t, cur, d)
    PROVE  /\ \A i, j \in DOMAIN d : d[i] = d[j] => i = j
           /\ {d[i] : i \in DOMAIN d} \subseteq QueuesIn(h)
           /\ (cur # None /\ EnumDone(cur)) => Len(d) = Cardinality(QueuesIn(h))
<1>1. CASE cur = None
  <2>1. d = <<>>
    BY <1>1
  <2>2. DOMAIN d = {}
    BY <2>1
  <2> QED
    BY <1>1, <2>2
<1>2. CASE cur # None
  <2>1. PassedIs(t, cur, d)
    BY <1>2
  <2>2. \A i, j \in DOMAIN d : d[i] = d[j] => i = j
    BY <2>1 DEF PassedIs
  <2> QED
    BY <2>1, <2>2, AllPassed
<1> QED
  BY <1>1, <1>2

(* The table is empty at first. *)
LEMMA InitIntact ==
    ASSUME TableInit
    PROVE  IInv
<1>1. BucketCount \in Nat \ {0} /\ None \notin Tables
  BY QueueTableAssumption
<1>2. EmptyTable \in Tables /\ EmptyTable.entry_count = 0
      /\ \A b \in Buckets : EmptyTable.bucket[b] = <<>>
  <2>1. EmptyTable.bucket \in [0..(BucketCount - 1) -> Seq(Entries)]
    BY DEF EmptyTable
  <2> QED
    BY <2>1 DEF EmptyTable, Tables, Buckets
<1>3. bound \in [Bound -> Seq(Queues)] /\ \A f \in Bound : DOMAIN bound[f] = {}
  BY DEF TableInit
<1>4. QueuesIn(bound) = {}
  BY <1>3 DEF QueuesIn
<1>5. Intact(EmptyTable, bound)
  <2>1. IsFiniteSet(QueuesIn(bound)) /\ EmptyTable.entry_count = Cardinality(QueuesIn(bound))
    BY <1>2, <1>4, FS_EmptySet
  <2>2. AddedOnce(bound)
    BY <1>3 DEF AddedOnce
  <2>3. InOwnBucket(EmptyTable, bound) /\ NewestFirst(EmptyTable, bound)
    BY <1>2 DEF InOwnBucket, NewestFirst
  <2>4. EveryListed(EmptyTable, bound)
    BY <1>3 DEF EveryListed, Bound
  <2> QED
    BY <1>2, <1>3, <2>1, <2>2, <2>3, <2>4 DEF Intact
<1>6. table = EmptyTable /\ table # None /\ enum = None /\ destroyed = <<>>
  BY <1>1, <1>2 DEF TableInit
<1>7. DestroyedOnce
  BY <1>6 DEF DestroyedOnce
<1> QED
  BY <1>5, <1>6, <1>7 DEF IInv

(* A new table and history that fit make the invariant. *)
LEMMA FitsAgain ==
    ASSUME table' # None, Intact(table', bound'),
           IF enum' = None THEN destroyed' = <<>> ELSE PassedIs(table', enum', destroyed')
    PROVE  IInv'
<1>1. BoundQueues' = QueuesIn(bound')
  BY DEF BoundQueues, QueuesIn
<1>2. /\ \A i, j \in DOMAIN destroyed' : destroyed'[i] = destroyed'[j] => i = j
      /\ {destroyed'[i] : i \in DOMAIN destroyed'} \subseteq QueuesIn(bound')
      /\ (enum' # None /\ EnumDone(enum')) => Len(destroyed') = Cardinality(QueuesIn(bound'))
  BY LinkedIsOnce
<1>3. DestroyedOnce'
  BY <1>1, <1>2 DEF DestroyedOnce
<1> QED
  BY <1>3 DEF IInv

(* qc_qsys_addqueue puts the entry at its bucket's head.                  *)
LEMMA AddQueueKeeps ==
    ASSUME IInv, NEW n \in Names, NEW q \in Queues, AddQueue(n, q)
    PROVE  IInv'
<1>1. enum = None /\ enum' = None /\ table # None /\ destroyed' = <<>> /\ Intact(table, bound)
  BY DEF AddQueue, IInv
<1>2. q \notin QueuesIn(bound)
  BY DEF AddQueue, QueuesIn
<1>3. Intact(table', bound')
  BY <1>1, <1>2, InsertedIntact DEF AddQueue
<1>4. table' # None
  BY <1>3, QueueTableAssumption DEF Intact
<1> QED
  BY <1>1, <1>3, <1>4, FitsAgain

(* qc_qsys_delqueue takes the newest of the name, or nothing.             *)
LEMMA DelQueueKeeps ==
    ASSUME IInv, NEW n \in Names, DelQueue(n)
    PROVE  IInv'
<1>1. enum = None /\ enum' = None /\ table # None /\ destroyed' = <<>> /\ Intact(table, bound)
  BY DEF DelQueue, IInv
<1>2. Intact(table', bound')
  <2>1. CASE bound[Folded(n)] = <<>>
    BY <1>1, <2>1, FoundIsNewest DEF DelQueue
  <2>2. CASE bound[Folded(n)] # <<>>
    <3>1. DeleteReport(table, n) # 0
      BY <1>1, <2>2, FoundIsNewest
    <3> QED
      BY <1>1, <2>2, <3>1, DeletedIntact DEF DelQueue
  <2> QED
    BY <2>1, <2>2
<1>3. table' # None
  BY <1>2, QueueTableAssumption DEF Intact
<1> QED
  BY <1>1, <1>2, <1>3, FitsAgain

(* qc_qsys_destory goes to the first entry, *)
LEMMA DestroyBeginsKeeps ==
    ASSUME IInv, DestroyBegins
    PROVE  IInv'
<1>1. /\ enum = None /\ table # None /\ destroyed' = <<>> /\ Intact(table, bound)
      /\ table' = table /\ bound' = bound /\ enum' = EnumAt(table, EnumBegin)
  BY DEF DestroyBegins, IInv
<1>2. PassedIs(table', enum', destroyed')
  BY <1>1, BeginsBeforeAll
<1>3. enum' # None
  BY <1>2, QueueTableAssumption DEF PassedIs
<1> QED
  BY <1>1, <1>2, <1>3, FitsAgain

(* destroys one queue at a time, *)
LEMMA DestroysOneKeeps ==
    ASSUME IInv, DestroysOne
    PROVE  IInv'
<1>1. /\ enum # None /\ ~EnumDone(enum) /\ table # None /\ Intact(table, bound)
      /\ PassedIs(table, enum, destroyed) /\ table' = table /\ bound' = bound
      /\ destroyed' = Append(destroyed, EnumData(table, enum))
  BY DEF DestroysOne, IInv
<1>2. enum' = EnumAt(table, EnumNext(enum))
  <2>1. EnumNext(enum).bucket_no # BucketCount
    BY <1>1, PassesOne
  <2> QED
    BY <2>1 DEF DestroysOne
<1>3. PassedIs(table', enum', destroyed')
  BY <1>1, <1>2, PassesOne
<1>4. enum' # None
  BY <1>3, QueueTableAssumption DEF PassedIs
<1> QED
  BY <1>1, <1>3, <1>4, FitsAgain

(* and frees the table when all are destroyed. *)
LEMMA DestroyEndsKeeps ==
    ASSUME IInv, DestroyEnds
    PROVE  IInv'
<1>1. /\ table' = None /\ enum' = enum /\ enum # None /\ EnumDone(enum)
      /\ destroyed' = destroyed /\ bound' = bound
  BY DEF DestroyEnds
<1>2. DestroyedOnce'
  <2>1. DestroyedOnce
    BY DEF IInv
  <2>2. BoundQueues' = BoundQueues
    BY <1>1 DEF BoundQueues
  <2> HIDE DEF BoundQueues
  <2> QED
    BY <1>1, <2>1, <2>2 DEF DestroyedOnce
<1> QED
  BY <1>1, <1>2 DEF IInv

(* Every reachable table is true to its history, and what a destruction   *)
(* has done is what its cursor has passed.                                 *)
THEOREM Invariant == TableSpec => []IInv
<1>1. TableInit => IInv
  BY InitIntact
<1>2. IInv /\ [TableNext]_tableVars => IInv'
  <2> SUFFICES ASSUME IInv, [TableNext]_tableVars PROVE IInv'
    OBVIOUS
  <2>1. CASE TableNext
    <3>1. ASSUME NEW n \in Names, DelQueue(n) PROVE IInv'
      BY <3>1, DelQueueKeeps
    <3>2. ASSUME NEW n \in Names, NEW q \in Queues, AddQueue(n, q) PROVE IInv'
      BY <3>2, AddQueueKeeps
    <3>3. CASE DestroyBegins
      BY <3>3, DestroyBeginsKeeps
    <3>4. CASE DestroysOne
      BY <3>4, DestroysOneKeeps
    <3>5. CASE DestroyEnds
      BY <3>5, DestroyEndsKeeps
    <3> QED
      BY <2>1, <3>1, <3>2, <3>3, <3>4, <3>5 DEF TableNext
  <2>2. CASE UNCHANGED tableVars
    BY <2>2 DEF IInv, DestroyedOnce, BoundQueues, tableVars
  <2> QED
    BY <2>1, <2>2
<1> QED
  BY <1>1, <1>2, PTL DEF TableSpec

(* The table answers each name with the queue added last of those not      *)
(* deleted and counts its entries (qc_hash.c as qc_qmanager.c uses it).    *)
THEOREM TableAnswers == TableSpec => []TableMatches
<1>1. IInv => TableMatches
  <2> SUFFICES ASSUME IInv, table # None
               PROVE  /\ \A n \in Names : Found(table, n) =
                           IF bound[Folded(n)] = <<>> THEN None
                           ELSE bound[Folded(n)][Len(bound[Folded(n)])]
                      /\ table.entry_count = Cardinality(BoundQueues)
    BY DEF TableMatches
  <2>1. Intact(table, bound)
    BY DEF IInv
  <2>2. BoundQueues = QueuesIn(bound)
    BY DEF BoundQueues, QueuesIn
  <2>3. table.entry_count = Cardinality(BoundQueues)
    BY <2>1, <2>2 DEF Intact
  <2> QED
    BY <2>1, <2>3, FoundIsNewest
<1> QED
  BY <1>1, Invariant, PTL

(* qc_qmng_destory destroys every queue of the table, hidden ones included,*)
(* and none twice.                                                         *)
THEOREM DestroyedOnceEach == TableSpec => []DestroyedOnce
<1>1. IInv => DestroyedOnce
  BY DEF IInv
<1> QED
  BY <1>1, Invariant, PTL

-----------------------------------------------------------------------------
(***************************************************************************)
(* Proofs about Server, for any clients, messages, names, queues and limit:*)
(* client and worker keep in step on their connection, no message is ever  *)
(* in two places, a client that goes away takes at most one message with   *)
(* it, and the table keeps answering while all this goes on.               *)
(*                                                                         *)
(* Connected says of each connection what its client, its worker and the   *)
(* bytes between them have of each other; it is what makes a connection    *)
(* carry one message at most (its Cargo).                                  *)
(***************************************************************************)

Resting == {"none", "receive", "ended"}
Holding == {"reply", "data", "reput"}

(* A request of client c. *)
RequestStands(c, r) ==
    /\ r \in Requests
    /\ r.type = "put" => c \in Producers /\ r.msg \in Messages
    /\ r.type = "get" => c \in Consumers /\ r.msg = None

(* A reply to a request of type p. *)
ReplyStands(p, r) ==
    /\ r \in Replies
    /\ r.msg_len = 1 \/ r.msg # None => p = "get" /\ r.result = "succ"
    /\ r.msg # None => r.msg_len = 0

(* The worker w of client c, whose socket is open if o. *)
WorkerStands(c, o, w) ==
    /\ w.at \in Resting => w.msg = None
    /\ w.at \in {"put", "get"} => /\ w.queue \in Queues /\ RequestStands(c, w.req)
                                  /\ w.req.type = w.at /\ w.msg = w.req.msg
    /\ w.at = "reply" => w.req \in Requests /\ w.result \in Results
    /\ w.at \in Holding /\ w.msg # None =>
           w.queue \in Queues /\ c \in Consumers /\ w.req \in Requests /\ w.req.type = "get" /\ w.result = "succ"
    /\ w.at = "data" => w.msg \in Messages \ Empty
    /\ w.at = "reput" => w.msg \in Messages /\ ~o

(* Its bytes to the server, ts, at the client's place p. *)
ToServerStands(c, p, ts, w) ==
    /\ Len(ts) <= 2
    /\ Len(ts) = 2 => RequestStands(c, ts[2])
    /\ ts # <<>> => w.at \in {"none", "receive"} /\ p \in {"put", "get", "closed"}
    /\ ts # <<>> /\ p # "closed" => Len(ts) = 2 /\ ts[2].type = p

(* Its bytes to the client, tc. *)
ToClientStands(p, tc, w) ==
    /\ tc # <<>> => p \in {"put", "get", "data"}
    /\ p \in {"put", "get"} /\ tc # <<>> =>
           /\ Len(tc) \in {2, 3} /\ tc[1] = Head_ /\ ReplyStands(p, tc[2])
           /\ w.at = IF tc[2].msg_len = 1 /\ Len(tc) = 2 THEN "data" ELSE "receive"
           /\ Len(tc) = 3 => tc[2].msg_len = 1 /\ tc[3] \in Messages
    /\ p = "data" => IF tc = <<>> THEN w.at = "data"
                     ELSE w.at = "receive" /\ Len(tc) = 1 /\ tc[1] \in Messages

(* One request at a time. *)
Connection(c, p, o, ts, tc, w) ==
    /\ o <=> p \notin {"new", "closed"}
    /\ WorkerStands(c, o, w) /\ ToServerStands(c, p, ts, w) /\ ToClientStands(p, tc, w)
    /\ p = "new" => w.at = "none"
    /\ p = "idle" => w.at \in {"none", "receive"}
    /\ p \in {"put", "get"} =>
          \/ w.at \in {"none", "receive"} /\ ts # <<>> /\ tc = <<>>
          \/ w.at \in {p, "reply"} /\ w.req.type = p /\ ts = <<>> /\ tc = <<>>
          \/ ts = <<>> /\ tc # <<>>
    /\ p \in {"get", "data"} => c \in Consumers

Connected == \A c \in Clients :
    Connection(c, pc[c], open[c], toServer[c], toClient[c], worker[c])

(* The server runs with the table it was started with. *)
Running ==
    /\ \A c \in Clients : pc[c] # "new" => running
    /\ running => enum = None

-----------------------------------------------------------------------------
(* Where messages are. *)

(* What connection c has of messages: in a request, with its worker, on the*)
(* way to the client.                                                      *)
Asking(ts, w) == {m \in Messages : \/ Len(ts) = 2 /\ ts[2].msg = m
                                   \/ w.at = "put" /\ w.msg = m}
InHandOf(w)   == {m \in Messages : w.at \in Holding /\ w.msg = m}
OnWay(tc)     == {m \in Messages : \E i \in DOMAIN tc :
                     tc[i] = m \/ (tc[i] \in Replies /\ tc[i].msg = m)}
CargoOf(ts, tc, w) == Asking(ts, w) \cup InHandOf(w) \cup OnWay(tc)

(* f is the queues' chains or their tempLists. *)
In(f)   == UNION {{f[q][i] : i \in DOMAIN f[q]} : q \in Queues}
Once(f) == \A q, r \in Queues : \A i \in DOMAIN f[q], j \in DOMAIN f[r] :
               f[q][i] = f[r][j] => q = r /\ i = j

(* Sets of messages kept apart: in the chains Q, in the tempLists T, with  *)
(* the connections K, of these still to be put R, delivered D; accepted A, *)
(* and sent S.                                                             *)
Apart(Q, T, K, R, D, A, S) ==
    /\ Q \cap T = {} /\ Q \cap D = {} /\ T \cap D = {}
    /\ \A c \in Clients : R[c] \subseteq K[c] /\ K[c] \cap Q = {} /\ K[c] \cap T = {} /\ K[c] \cap D = {}
    /\ \A c, d \in Clients : c # d => K[c] \cap K[d] = {}
    /\ Q \subseteq S /\ T \subseteq S /\ D \subseteq S /\ A \subseteq S
    /\ \A c \in Clients : K[c] \subseteq S /\ R[c] \cap A = {}

Cargoes == [c \in Clients |-> CargoOf(toServer[c], toClient[c], worker[c])]
Askings == [c \in Clients |-> Asking(toServer[c], worker[c])]

MessagesApart ==
    /\ Once(queue) /\ Once(temp)
    /\ Apart(In(queue), In(temp), Cargoes, Askings, delivered, accepted, sent)

(* The messages that left the system undelivered, and the consumers that   *)
(* are closed and have nothing any more that could be lost.                *)
GoneOf(Q, T, K, D, A) ==
    {m \in A : m \notin Q /\ m \notin T /\ m \notin D /\ \A c \in Clients : m \notin K[c]}
Gone  == GoneOf(In(queue), In(temp), Cargoes, delivered, accepted)
Spent == {c \in Consumers : pc[c] = "closed" /\ Len(toServer[c]) < 2 /\ worker[c].at \in Resting}

LossCounted == IsFiniteSet(Gone) /\ Cardinality(Gone) <= Cardinality(Spent)

SInv == TypeOK /\ Running /\ Connected /\ MessagesApart /\ LossCounted

-----------------------------------------------------------------------------
(* Client, worker and bytes of a connection.  The lemmas say what an action*)
(* makes of the connection it is about.                                    *)

Places      == {"new", "idle", "put", "get", "data", "closed"}
ServerBytes == {Head_} \cup Requests
ClientBytes == {Head_} \cup Replies \cup Messages
Workers     == [at : WorkerPlaces, req : Requests \cup {None}, queue : Queues \cup {None},
                msg : Messages \cup {None}, result : Results \cup {None}]

ConnectionsTyped ==
    /\ pc \in [Clients -> Places] /\ open \in [Clients -> BOOLEAN]
    /\ toServer \in [Clients -> Seq(ServerBytes)]
    /\ toClient \in [Clients -> Seq(ClientBytes)]
    /\ worker \in [Clients -> Workers]
MessagesTyped ==
    /\ queue \in [Queues -> Seq(Messages)] /\ temp \in [Queues -> Seq(Messages)]
    /\ sent \in SUBSET Messages /\ accepted \in SUBSET Messages
    /\ delivered \in SUBSET Messages

LEMMA TypeParts == TypeOK <=> running \in BOOLEAN /\ ConnectionsTyped /\ MessagesTyped
  BY DEF TypeOK, ConnectionsTyped, MessagesTyped, Places, ServerBytes, ClientBytes, Workers

(* An action about one connection leaves the others alone. *)
LEMMA ClientMoves ==
    ASSUME ConnectionsTyped, Connected, NEW c \in Clients, NEW p \in Places,
           NEW ts \in Seq(ServerBytes), NEW tc \in Seq(ClientBytes),
           ConnectionOf(c, p), UNCHANGED worker,
           toServer' = [toServer EXCEPT ![c] = ts], toClient' = [toClient EXCEPT ![c] = tc],
           p # "new", Connection(c, p, p # "closed", ts, tc, worker[c])
    PROVE  /\ ConnectionsTyped' /\ Connected'
           /\ pc'[c] = p /\ \A e \in Clients \ {c} : pc'[e] = pc[e]
<1>1. /\ pc' = [pc EXCEPT ![c] = p] /\ open' = [open EXCEPT ![c] = p # "closed"]
      /\ worker' = worker
  BY DEF ConnectionOf
<1>2. ConnectionsTyped'
  BY <1>1 DEF ConnectionsTyped
<1>3. /\ pc'[c] = p /\ open'[c] = (p # "closed") /\ toServer'[c] = ts /\ toClient'[c] = tc
  BY <1>1 DEF ConnectionsTyped
<1>4. ASSUME NEW e \in Clients \ {c}
      PROVE  /\ pc'[e] = pc[e] /\ open'[e] = open[e] /\ toServer'[e] = toServer[e]
             /\ toClient'[e] = toClient[e]
  BY <1>1 DEF ConnectionsTyped
<1>5. ASSUME NEW e \in Clients
      PROVE  Connection(e, pc'[e], open'[e], toServer'[e], toClient'[e], worker'[e])
  <2>1. CASE e = c
    BY <1>1, <1>3, <2>1
  <2>2. CASE e # c
    BY <1>1, <1>4, <2>2 DEF Connected
  <2> QED
    BY <2>1, <2>2
<1> QED
  BY <1>2, <1>3, <1>4, <1>5 DEF Connected

LEMMA WorkerMoves ==
    ASSUME ConnectionsTyped, Connected, NEW c \in Clients, NEW w \in Workers,
           NEW ts \in Seq(ServerBytes), NEW tc \in Seq(ClientBytes),
           UNCHANGED clientVars, worker' = [worker EXCEPT ![c] = w],
           toServer' = [toServer EXCEPT ![c] = ts], toClient' = [toClient EXCEPT ![c] = tc],
           Connection(c, pc[c], open[c], ts, tc, w)
    PROVE  ConnectionsTyped' /\ Connected'
<1>1. pc' = pc /\ open' = open
  BY DEF clientVars
<1>2. ConnectionsTyped'
  BY <1>1 DEF ConnectionsTyped
<1>3. worker'[c] = w /\ toServer'[c] = ts /\ toClient'[c] = tc
  BY DEF ConnectionsTyped
<1>4. ASSUME NEW e \in Clients \ {c}
      PROVE  worker'[e] = worker[e] /\ toServer'[e] = toServer[e] /\ toClient'[e] = toClient[e]
  BY DEF ConnectionsTyped
<1>5. ASSUME NEW e \in Clients
      PROVE  Connection(e, pc'[e], open'[e], toServer'[e], toClient'[e], worker'[e])
  <2>1. CASE e = c
    BY <1>1, <1>3, <2>1
  <2>2. CASE e # c
    BY <1>1, <1>4, <2>2 DEF Connected
  <2> QED
    BY <2>1, <2>2
<1> QED
  BY <1>2, <1>5 DEF Connected

LEMMA WorkersMove ==
    ASSUME ConnectionsTyped, Connected, NEW c \in Clients, NEW d \in Clients \ {c},
           NEW w \in Workers, NEW x \in Workers,
           UNCHANGED <<clientVars, toServer, toClient>>,
           worker' = [worker EXCEPT ![c] = w, ![d] = x],
           Connection(c, pc[c], open[c], toServer[c], toClient[c], w),
           Connection(d, pc[d], open[d], toServer[d], toClient[d], x)
    PROVE  ConnectionsTyped' /\ Connected'
<1>1. pc' = pc /\ open' = open /\ toServer' = toServer /\ toClient' = toClient
  BY DEF clientVars
<1>2. ConnectionsTyped'
  BY <1>1 DEF ConnectionsTyped
<1>3. worker'[c] = w /\ worker'[d] = x /\ \A e \in Clients \ {c, d} : worker'[e] = worker[e]
  BY DEF ConnectionsTyped
<1>4. ASSUME NEW e \in Clients
      PROVE  Connection(e, pc'[e], open'[e], toServer'[e], toClient'[e], worker'[e])
  <2>1. CASE e = c \/ e = d
    BY <1>1, <1>3, <2>1
  <2>2. CASE e \in Clients \ {c, d}
    BY <1>1, <1>3, <2>2 DEF Connected
  <2> QED
    BY <2>1, <2>2
<1> QED
  BY <1>2, <1>4 DEF Connected

(* What is left of a stream when its first two elements are taken, and what*)
(* is left of it when it is cut off.                                       *)
LEMMA StreamLeft ==
    ASSUME NEW S, NEW s \in Seq(S), Len(s) >= 2,
           NEW rest, rest = SubSeq(s, 3, Len(s))
    PROVE  /\ rest \in Seq(S) /\ Len(rest) = Len(s) - 2
           /\ Len(s) = 2 => rest = <<>>
           /\ Len(s) = 3 => rest[1] = s[3]
<1> DEFINE n == Len(s)
<1>1. n \in Nat /\ n >= 2 /\ \A i \in 3..n : s[i] \in S
  OBVIOUS
<1>2. /\ rest \in Seq(S) /\ Len(rest) = IF 3 <= n THEN n - 3 + 1 ELSE 0
      /\ \A i \in 1..(n - 3 + 1) : rest[i] = s[3 + i - 1]
  BY <1>1, SubSeqProperties
<1> HIDE DEF n
<1>3. Len(rest) = IF 3 <= n THEN n - 3 + 1 ELSE 0
  BY <1>2
<1>4. Len(rest) = n - 2
  BY <1>1, <1>3
<1>5. n = 2 => rest = <<>>
  BY <1>2, <1>4
<1>6. n = 3 => rest[1] = s[3]
  BY <1>2
<1> QED
  BY <1>2, <1>4, <1>5, <1>6 DEF n

LEMMA OneLeft ==
    ASSUME NEW S, NEW s \in Seq(S), Len(s) = 1
    PROVE  s = <<s[1]>> /\ Head(s) = s[1] /\ Tail(s) = <<>>
<1>1. s = <<s[1]>> /\ s # <<>>
  OBVIOUS
<1>2. Len(Tail(s)) = 0 /\ Tail(s) \in Seq(S)
  BY <1>1
<1>3. Tail(s) = <<>>
  <2>1. \A t \in Seq(S) : Len(t) = 0 => t = <<>>
    OBVIOUS
  <2> QED
    BY <1>2, <2>1
<1> QED
  BY <1>1, <1>3

LEMMA OneMore ==
    ASSUME NEW S, NEW s \in Seq(S), NEW x \in S, NEW t, t = s \o <<x>>
    PROVE  /\ t \in Seq(S) /\ Len(t) = Len(s) + 1 /\ t[Len(t)] = x
           /\ \A i \in 1..Len(s) : t[i] = s[i]
           /\ s = <<>> => Len(t) = 1 /\ t[1] = x
           /\ Len(s) = 2 => Len(t) = 3 /\ t[3] = x /\ t[1] = s[1] /\ t[2] = s[2]
<1>1. /\ t \in Seq(S) /\ Len(t) = Len(s) + 1 /\ t[Len(s) + 1] = x
      /\ \A i \in 1..Len(s) : t[i] = s[i]
  OBVIOUS
<1>2. s = <<>> => Len(s) = 0
  OBVIOUS
<1>3. Len(s) = 0 => Len(t) = 1 /\ t[1] = x
  BY <1>1
<1>4. Len(s) = 2 => Len(t) = 3 /\ t[3] = x /\ t[1] = s[1] /\ t[2] = s[2]
  BY <1>1
<1> QED
  BY <1>1, <1>2, <1>3, <1>4

LEMMA TwoFrames ==
    ASSUME NEW x, NEW y, NEW t, t = <<x, y>>
    PROVE  Len(t) = 2 /\ t[1] = x /\ t[2] = y /\ t # <<>> /\ DOMAIN t = {1, 2}
  OBVIOUS

LEMMA StreamCut ==
    ASSUME NEW S, NEW s \in Seq(S), NEW k \in 0..Len(s)
    PROVE  /\ SubSeq(s, 1, k) \in Seq(S) /\ Len(SubSeq(s, 1, k)) = k
           /\ \A i \in 1..k : SubSeq(s, 1, k)[i] = s[i]
<1>1. Len(s) \in Nat /\ k \in Int /\ \A i \in 1..k : s[i] \in S
  OBVIOUS
<1> QED
  BY <1>1, SubSeqProperties

-----------------------------------------------------------------------------
(* The client's actions keep the connection. *)

LEMMA AtConnection ==
    ASSUME ConnectionsTyped, Connected, NEW c \in Clients
    PROVE  /\ pc[c] \in Places /\ open[c] \in BOOLEAN /\ worker[c] \in Workers
           /\ toServer[c] \in Seq(ServerBytes) /\ Len(toServer[c]) \in Nat
           /\ toClient[c] \in Seq(ClientBytes) /\ Len(toClient[c]) \in Nat
           /\ toServer = [toServer EXCEPT ![c] = toServer[c]]
           /\ toClient = [toClient EXCEPT ![c] = toClient[c]]
           /\ Connection(c, pc[c], open[c], toServer[c], toClient[c], worker[c])
<1>1. /\ pc[c] \in Places /\ open[c] \in BOOLEAN /\ worker[c] \in Workers
      /\ toServer[c] \in Seq(ServerBytes) /\ toClient[c] \in Seq(ClientBytes)
  BY DEF ConnectionsTyped
<1>2. toServer = [toServer EXCEPT ![c] = toServer[c]] /\ toClient = [toClient EXCEPT ![c] = toClient[c]]
  BY DEF ConnectionsTyped
<1> QED
  BY <1>1, <1>2 DEF Connected

ClientKeeps(c) ==
    /\ ConnectionsTyped' /\ Connected'
    /\ pc'[c] # "new" /\ \A e \in Clients \ {c} : pc'[e] = pc[e]

LEMMA ConnectsStands ==
    ASSUME ConnectionsTyped, Connected, NEW c \in Clients, Connects(c)
    PROVE  ClientKeeps(c)
<1>1. /\ pc[c] = "new" /\ ConnectionOf(c, "idle") /\ UNCHANGED worker
      /\ toServer' = [toServer EXCEPT ![c] = toServer[c]]
      /\ toClient' = [toClient EXCEPT ![c] = toClient[c]]
  BY AtConnection DEF Connects
<1>2. Connection(c, "idle", TRUE, toServer[c], toClient[c], worker[c])
  BY <1>1, AtConnection
     DEF Connection, WorkerStands, ToServerStands, ToClientStands, Resting, Holding
<1>3. "idle" \in Places /\ ("idle" # "closed") = TRUE
  BY DEF Places
<1> QED
  BY <1>1, <1>2, <1>3, AtConnection, ClientMoves DEF ClientKeeps

LEMMA RequestedStands ==
    ASSUME ConnectionsTyped, Connected, NEW c \in Clients, pc[c] = "idle",
           NEW r, RequestStands(c, r), Requested(c, r)
    PROVE  ClientKeeps(c)
<1> DEFINE ts == <<Head_, r>>
<1>1. r \in Requests /\ r.type \in {"put", "get"}
  BY DEF RequestStands, Requests
<1>2. /\ ConnectionOf(c, r.type) /\ UNCHANGED worker
      /\ toServer' = [toServer EXCEPT ![c] = ts]
      /\ toClient' = [toClient EXCEPT ![c] = toClient[c]]
  BY AtConnection DEF Requested
<1>3. ts \in Seq(ServerBytes) /\ Len(ts) = 2 /\ ts[2] = r /\ ts # <<>>
  BY <1>1 DEF ServerBytes
<1>4. r.type \in Places /\ r.type # "new" /\ (r.type # "closed") = TRUE
  BY <1>1 DEF Places
<1> HIDE DEF ts
<1>5. Connection(c, r.type, TRUE, ts, toClient[c], worker[c])
  BY <1>1, <1>3, AtConnection
     DEF Connection, WorkerStands, ToServerStands, ToClientStands, Resting, Holding, RequestStands
<1> QED
  BY <1>2, <1>3, <1>4, <1>5, AtConnection, ClientMoves DEF ClientKeeps

(* Where the client goes when a reply has come. *)
AfterReply(c, reply) == IF pc[c] = "put" THEN AfterPut(reply)
                        ELSE IF c \in JavaClients THEN AfterJavaGet(reply) ELSE AfterGet(reply)

LEMMA GoesOn ==
    ASSUME ConnectionsTyped, Connected, NEW c \in Clients,
           pc[c] \in {"put", "get"}, Len(toClient[c]) >= 2,
           NEW reply, reply = toClient[c][2]
    PROVE  /\ ReplyStands(pc[c], reply)
           /\ AfterReply(c, reply) \in {"idle", "data", "closed"}
           /\ AfterReply(c, reply) = "data" => reply.msg_len = 1 /\ reply.msg = None /\ pc[c] = "get"
           /\ reply.msg_len = 1 => AfterReply(c, reply) = "data"
           /\ c \notin JavaClients /\ reply.msg # None => AfterReply(c, reply) = "closed"
<1>1. ReplyStands(pc[c], reply)
  <2>1. toClient[c] # <<>>
    BY AtConnection
  <2> QED
    BY <2>1, AtConnection DEF Connection, ToClientStands
<1>2. reply.result \in Results /\ reply.msg_len \in {0, 1} /\ pc[c] \in {"put", "get"}
  BY <1>1 DEF ReplyStands, Replies
<1>3. /\ reply.msg_len = 1 \/ reply.msg # None => pc[c] = "get" /\ reply.result = "succ"
      /\ reply.msg # None => reply.msg_len = 0
  BY <1>1 DEF ReplyStands
<1>4. reply.result \in {"succ", "failed", "timeout"}
  BY <1>2 DEF Results
<1>5. CASE pc[c] = "put"
  BY <1>1, <1>2, <1>3, <1>4, <1>5 DEF AfterReply, AfterPut
<1>6. CASE pc[c] = "get"
  <2>1. AfterReply(c, reply) = IF c \in JavaClients THEN AfterJavaGet(reply) ELSE AfterGet(reply)
    BY <1>6 DEF AfterReply
  <2>2. CASE reply.result # "succ"
    BY <1>1, <1>2, <1>3, <1>4, <2>1, <2>2 DEF AfterGet, AfterJavaGet
  <2>3. CASE reply.result = "succ" /\ reply.msg_len = 0
    <3>1. AfterGet(reply) = "closed" /\ AfterJavaGet(reply) = "idle"
      BY <2>3 DEF AfterGet, AfterJavaGet
    <3> QED
      BY <1>1, <2>1, <2>3, <3>1
  <2>4. CASE reply.result = "succ" /\ reply.msg_len = 1
    BY <1>1, <1>2, <1>3, <1>6, <2>1, <2>4 DEF AfterGet, AfterJavaGet
  <2> QED
    BY <1>1, <1>2, <2>2, <2>3, <2>4
<1> QED
  BY <1>1, <1>2, <1>5, <1>6

LEMMA SendsPutStands ==
    ASSUME ConnectionsTyped, Connected, NEW c \in Clients, NEW m \in Messages,
           NEW n \in Asked, NEW w \in Waits[c], SendsPut(c, m, n, w) \/ JavaSendsPut(c, m, n, w)
    PROVE  ClientKeeps(c)
<1> DEFINE r == [type |-> "put", qname |-> n, msg |-> m, wait |-> w]
<1>1. n \in Names /\ w \in {"forever", "timed"}
  BY ServerAssumption
<1>2. pc[c] = "idle" /\ Requested(c, r) /\ c \in Producers
  BY DEF SendsPut, JavaSendsPut
<1>3. RequestStands(c, r)
  BY <1>1, <1>2 DEF RequestStands, Requests
<1> HIDE DEF r
<1> QED
  BY <1>2, <1>3, RequestedStands

LEMMA SendsGetStands ==
    ASSUME ConnectionsTyped, Connected, NEW c \in Clients,
           NEW n \in Asked, NEW w \in Waits[c], SendsGet(c, n, w)
    PROVE  ClientKeeps(c)
<1> DEFINE r == [type |-> "get", qname |-> n, msg |-> None, wait |-> w]
<1>1. n \in Names /\ w \in {"forever", "timed"}
  BY ServerAssumption
<1>2. pc[c] = "idle" /\ Requested(c, r) /\ c \in Consumers
  BY DEF SendsGet
<1>3. RequestStands(c, r)
  BY <1>1, <1>2 DEF RequestStands, Requests
<1> HIDE DEF r
<1> QED
  BY <1>2, <1>3, RequestedStands

LEMMA ReceivesReplyStands ==
    ASSUME ConnectionsTyped, Connected, NEW c \in Clients, ReceivesReply(c)
    PROVE  /\ ClientKeeps(c)
           /\ toServer[c] = <<>> /\ worker[c].at \in {"data", "receive"}
           /\ toClient[c][1] = Head_
           /\ pc'[c] = AfterReply(c, toClient[c][2])
           /\ toClient'[c] = SubSeq(toClient[c], 3, Len(toClient[c]))
           /\ Len(toClient[c]) = IF toClient[c][2].msg_len = 1 /\ worker[c].at = "receive" THEN 3 ELSE 2
           /\ Len(toClient[c]) = 3 => toClient'[c] = <<toClient[c][3]>> /\ pc'[c] = "data"
           /\ Len(toClient[c]) = 2 => toClient'[c] = <<>>
<1> DEFINE reply == toClient[c][2]
           tc == SubSeq(toClient[c], 3, Len(toClient[c]))
           p == AfterReply(c, reply)
           w == worker[c]
<1>1. /\ pc[c] \in {"put", "get"} /\ Len(toClient[c]) >= 2 /\ ConnectionOf(c, p) /\ UNCHANGED worker
      /\ toServer' = [toServer EXCEPT ![c] = toServer[c]]
      /\ toClient' = [toClient EXCEPT ![c] = tc]
  BY AtConnection DEF ReceivesReply, AfterReply
<1>2. Connection(c, pc[c], open[c], toServer[c], toClient[c], w)
  BY AtConnection
<1>3. /\ ReplyStands(pc[c], reply) /\ p \in {"idle", "data", "closed"}
      /\ p = "data" => reply.msg_len = 1 /\ reply.msg = None /\ pc[c] = "get"
      /\ reply.msg_len = 1 => p = "data"
  BY <1>1, GoesOn
<1>4. /\ tc \in Seq(ClientBytes) /\ Len(tc) = Len(toClient[c]) - 2
      /\ Len(toClient[c]) = 2 => tc = <<>>
      /\ Len(toClient[c]) = 3 => tc[1] = toClient[c][3]
  <2>1. toClient[c] \in Seq(ClientBytes) /\ Len(toClient[c]) >= 2 /\ tc = SubSeq(toClient[c], 3, Len(toClient[c]))
    BY <1>1, AtConnection
  <2> HIDE DEF tc
  <2> QED
    BY <2>1, StreamLeft
<1>5. toClient[c] # <<>> /\ Len(toClient[c]) \in Nat /\ toClient[c] \in Seq(ClientBytes)
  BY <1>1, AtConnection
<1>6. /\ Len(toClient[c]) \in {2, 3} /\ toClient[c][1] = Head_ /\ toServer[c] = <<>>
      /\ w.at = IF reply.msg_len = 1 /\ Len(toClient[c]) = 2 THEN "data" ELSE "receive"
      /\ Len(toClient[c]) = 3 => reply.msg_len = 1 /\ toClient[c][3] \in Messages
      /\ WorkerStands(c, open[c], w)
  BY <1>1, <1>2, <1>5 DEF Connection, ToClientStands
<1>7. w.at \in {"data", "receive"} /\ WorkerStands(c, open[c], w)
  BY <1>2, <1>6 DEF Connection
<1>8. reply.msg_len \in {0, 1}
  BY <1>3 DEF ReplyStands, Replies
<1>9. Connection(c, p, p # "closed", toServer[c], tc, w)
  <2> HIDE DEF reply, tc, p, w
  <2>1. WorkerStands(c, p # "closed", w)
    BY <1>7 DEF WorkerStands, Resting, Holding
  <2>2. ToServerStands(c, p, toServer[c], w)
    BY <1>6 DEF ToServerStands
  <2>3. ToClientStands(p, tc, w)
    BY <1>3, <1>4, <1>6, <1>8 DEF ToClientStands
  <2>4. p = "data" => c \in Consumers
    BY <1>2, <1>3 DEF Connection
  <2>5. p = "idle" => w.at \in {"none", "receive"}
    BY <1>3, <1>6, <1>8
  <2> QED
    BY <1>3, <2>1, <2>2, <2>3, <2>4, <2>5 DEF Connection
<1>10. p \in Places /\ p # "new"
  BY <1>3 DEF Places
<1>11. ClientKeeps(c) /\ pc'[c] = p
  <2> HIDE DEF tc, p
  <2> QED
    BY <1>1, <1>4, <1>9, <1>10, AtConnection, ClientMoves DEF ClientKeeps
<1>12. toClient'[c] = tc
  BY <1>1 DEF ConnectionsTyped
<1>13. Len(toClient[c]) = 3 => tc = <<toClient[c][3]>>
  <2> HIDE DEF tc
  <2> QED
    BY <1>4
<1>14. Len(toClient[c]) = IF reply.msg_len = 1 /\ w.at = "receive" THEN 3 ELSE 2
  <2> HIDE DEF reply, w
  <2> QED
    BY <1>6, <1>8
<1> QED
  BY <1>3, <1>4, <1>6, <1>7, <1>11, <1>12, <1>13, <1>14

LEMMA ReceivesDataStands ==
    ASSUME ConnectionsTyped, Connected, NEW c \in Clients, ReceivesData(c)
    PROVE  /\ ClientKeeps(c)
           /\ toServer[c] = <<>> /\ worker[c].at = "receive" /\ Head(toClient[c]) \in Messages
           /\ toClient[c] = <<Head(toClient[c])>> /\ toClient'[c] = <<>>
<1> DEFINE tc == Tail(toClient[c])
<1>1. /\ pc[c] = "data" /\ toClient[c] # <<>> /\ ConnectionOf(c, "idle") /\ UNCHANGED worker
      /\ toServer' = [toServer EXCEPT ![c] = toServer[c]]
      /\ toClient' = [toClient EXCEPT ![c] = tc]
  BY AtConnection DEF ReceivesData
<1>2. Connection(c, pc[c], open[c], toServer[c], toClient[c], worker[c])
  BY AtConnection
<1>3. /\ worker[c].at = "receive" /\ Len(toClient[c]) = 1 /\ toClient[c][1] \in Messages
      /\ toServer[c] = <<>> /\ WorkerStands(c, open[c], worker[c])
  BY <1>1, <1>2, AtConnection DEF Connection, ToClientStands, ToServerStands
<1>4. tc = <<>> /\ Head(toClient[c]) = toClient[c][1] /\ toClient[c] = <<Head(toClient[c])>>
  BY <1>3, AtConnection, OneLeft
<1>5. Connection(c, "idle", TRUE, toServer[c], tc, worker[c])
  BY <1>3, <1>4
     DEF Connection, WorkerStands, ToServerStands, ToClientStands, Resting, Holding
<1>6. "idle" \in Places /\ ("idle" # "closed") = TRUE /\ tc \in Seq(ClientBytes)
  <2>1. tc \in Seq(ClientBytes)
    <3>1. <<>> \in Seq(ClientBytes)
      OBVIOUS
    <3> QED
      BY <1>4, <3>1
  <2> QED
    BY <2>1 DEF Places
<1>7. toClient'[c] = <<>>
  BY <1>1, <1>4 DEF ConnectionsTyped
<1> HIDE DEF tc
<1> QED
  BY <1>1, <1>3, <1>4, <1>5, <1>6, <1>7, AtConnection, ClientMoves DEF ClientKeeps

LEMMA ClosesStands ==
    ASSUME ConnectionsTyped, Connected, NEW c \in Clients, Closes(c)
    PROVE  /\ ClientKeeps(c) /\ pc'[c] = "closed" /\ pc[c] # "closed"
           /\ toClient'[c] = <<>> /\ Len(toServer'[c]) \in 0..Len(toServer[c])
           /\ Len(toServer'[c]) = 2 => toServer'[c][2] = toServer[c][2]
<1>1. PICK k \in 0..Len(toServer[c]) :
          toServer' = [toServer EXCEPT ![c] = SubSeq(toServer[c], 1, k)]
  BY AtConnection DEF Closes
<1> DEFINE ts == SubSeq(toServer[c], 1, k)
<1>2. open[c] /\ ConnectionOf(c, "closed") /\ UNCHANGED worker
      /\ toClient' = [toClient EXCEPT ![c] = <<>>]
  BY DEF Closes
<1>3. Connection(c, pc[c], open[c], toServer[c], toClient[c], worker[c])
  BY AtConnection
<1>4. /\ ts \in Seq(ServerBytes) /\ Len(ts) = k /\ k \in Nat
      /\ \A i \in 1..k : ts[i] = toServer[c][i]
  BY AtConnection, StreamCut
<1>5. k \in 0..2 /\ Len(toServer[c]) \in 0..2 /\ (k = 2 => ts[2] = toServer[c][2])
  <2>1. Len(toServer[c]) \in 0..2
    <3>1. Len(toServer[c]) <= 2
      BY <1>3 DEF Connection, ToServerStands
    <3>2. Len(toServer[c]) \in Nat
      BY AtConnection
    <3>3. \A n \in Nat : n <= 2 => n \in 0..2
      OBVIOUS
    <3> QED
      BY <3>1, <3>2, <3>3
  <2> HIDE DEF ts
  <2> QED
    BY <1>4, <2>1
<1>6. ts # <<>> => toServer[c] # <<>>
  BY <1>4, AtConnection
<1> HIDE DEF ts
<1>7. Connection(c, "closed", FALSE, ts, <<>>, worker[c])
  <2>1. WorkerStands(c, FALSE, worker[c])
    BY <1>3 DEF Connection, WorkerStands
  <2>2. ToServerStands(c, "closed", ts, worker[c])
    BY <1>3, <1>4, <1>5, <1>6, AtConnection DEF Connection, ToServerStands
  <2>3. ToClientStands("closed", <<>>, worker[c])
    BY DEF ToClientStands
  <2> QED
    BY <2>1, <2>2, <2>3 DEF Connection
<1>8. "closed" \in Places /\ ("closed" # "closed") = FALSE /\ <<>> \in Seq(ClientBytes)
  BY DEF Places
<1>9. ClientKeeps(c) /\ pc'[c] = "closed"
  BY <1>1, <1>2, <1>4, <1>7, <1>8, ClientMoves DEF ClientKeeps, ts
<1>10. toServer'[c] = ts /\ toClient'[c] = <<>>
  BY <1>1, <1>2 DEF ConnectionsTyped, ts
<1>11. pc[c] # "closed"
  BY <1>2, <1>3 DEF Connection
<1> QED
  BY <1>4, <1>5, <1>9, <1>10, <1>11

-----------------------------------------------------------------------------
(* The worker's actions keep the connection. *)

Receiving == [NoWorker EXCEPT !.at = "receive"]
Ended     == [NoWorker EXCEPT !.at = "ended"]

LEMMA RestingWorkers ==
    /\ Receiving \in Workers /\ Receiving.at = "receive" /\ Receiving.msg = None
    /\ Ended \in Workers /\ Ended.at = "ended" /\ Ended.msg = None
  BY DEF Receiving, Ended, NoWorker, Workers, WorkerPlaces

LEMMA AcceptsStands ==
    ASSUME ConnectionsTyped, Connected, NEW c \in Clients, Accepts(c)
    PROVE  ConnectionsTyped' /\ Connected'
<1>1. /\ At(c, "none") /\ pc[c] # "new" /\ worker' = [worker EXCEPT ![c] = Receiving]
      /\ UNCHANGED clientVars
      /\ toServer' = [toServer EXCEPT ![c] = toServer[c]]
      /\ toClient' = [toClient EXCEPT ![c] = toClient[c]]
  BY AtConnection DEF Accepts, Set, Receiving
<1>2. Connection(c, pc[c], open[c], toServer[c], toClient[c], Receiving)
  <2>1. WorkerStands(c, open[c], Receiving)
    BY RestingWorkers DEF WorkerStands, Resting, Holding
  <2> QED
    BY <1>1, <2>1, AtConnection, RestingWorkers
       DEF Connection, ToServerStands, ToClientStands, At
<1> QED
  BY <1>1, <1>2, AtConnection, RestingWorkers, WorkerMoves

(* What the worker knows of a request it has received. *)
HasReceived(q, r) ==
    [at |-> IF q = None THEN "reply" ELSE r.type, req |-> r, queue |-> q,
     msg |-> IF q = None THEN None ELSE r.msg, result |-> "failed"]

LEMMA ReceivesStands ==
    ASSUME ConnectionsTyped, Connected, NEW c \in Clients, Receives(c),
           \A n \in Names : Found(table, n) \in Queues \cup {None}
    PROVE  /\ ConnectionsTyped' /\ Connected'
           /\ Len(toServer[c]) = 2 /\ toServer'[c] = <<>> /\ worker[c].at = "receive"
           /\ \E q \in Queues \cup {None} : worker'[c] = HasReceived(q, toServer[c][2])
           /\ RequestStands(c, toServer[c][2])
<1> DEFINE r == toServer[c][2]
           q == Found(table, r.qname)
           w == HasReceived(q, r)
           ts == SubSeq(toServer[c], 3, Len(toServer[c]))
<1>1. /\ worker[c].at = "receive" /\ Len(toServer[c]) >= 2
      /\ worker' = [worker EXCEPT ![c] = w]
      /\ UNCHANGED clientVars
      /\ toServer' = [toServer EXCEPT ![c] = ts]
      /\ toClient' = [toClient EXCEPT ![c] = toClient[c]]
  BY AtConnection DEF Receives, Set, HasReceived, At
<1>2. Connection(c, pc[c], open[c], toServer[c], toClient[c], worker[c])
  BY AtConnection
<1>3. Len(toServer[c]) \in Nat /\ toServer[c] # <<>> /\ toServer[c] \in Seq(ServerBytes)
  BY <1>1, AtConnection
<1>4. Len(toServer[c]) = 2
  <2>1. Len(toServer[c]) <= 2
    BY <1>2 DEF Connection, ToServerStands
  <2>2. \A n \in Nat : n >= 2 /\ n <= 2 => n = 2
    OBVIOUS
  <2> QED
    BY <1>1, <1>3, <2>1, <2>2
<1>5. RequestStands(c, r) /\ (pc[c] # "closed" => r.type = pc[c]) /\ pc[c] \in {"put", "get", "closed"}
  BY <1>2, <1>3, <1>4 DEF Connection, ToServerStands
<1>6. r \in Requests /\ r.qname \in Names /\ q \in Queues \cup {None} /\ r.msg \in Messages \cup {None}
  <2>1. r \in Requests
    BY <1>5 DEF RequestStands
  <2>2. r.qname \in Names /\ r.msg \in Messages \cup {None}
    BY <2>1 DEF Requests
  <2> QED
    BY <2>1, <2>2
<1>7. ts = <<>>
  <2>1. ts = SubSeq(toServer[c], 3, Len(toServer[c]))
    OBVIOUS
  <2> HIDE DEF ts
  <2> QED
    BY <1>1, <1>3, <1>4, <2>1, StreamLeft
<1>8. toClient[c] = <<>>
  BY <1>2, <1>3, <1>5 DEF Connection, ToClientStands
<1> HIDE DEF r, q
<1>9. w \in Workers
  <2>1. r.type \in {"put", "get"}
    BY <1>6 DEF Requests
  <2> QED
    BY <1>6, <2>1 DEF HasReceived, Workers, WorkerPlaces, Results
<1>10. Connection(c, pc[c], open[c], <<>>, <<>>, w)
  <2>1. /\ w.at = IF q = None THEN "reply" ELSE r.type
        /\ w.req = r /\ w.queue = q /\ w.result = "failed"
        /\ w.msg = IF q = None THEN None ELSE r.msg
    BY DEF HasReceived
  <2>2. r.type \in {"put", "get"}
    BY <1>6 DEF Requests
  <2> HIDE DEF w
  <2>3. WorkerStands(c, open[c], w)
    BY <1>5, <1>6, <2>1, <2>2 DEF WorkerStands, Resting, Holding, Results
  <2>4. /\ pc[c] \in {"put", "get"} => w.at \in {pc[c], "reply"} /\ w.req.type = pc[c]
    BY <1>5, <2>1
  <2>5. (open[c] <=> pc[c] \notin {"new", "closed"}) /\ (pc[c] \in {"get", "data"} => c \in Consumers)
    BY <1>2 DEF Connection
  <2> QED
    BY <1>5, <2>3, <2>4, <2>5 DEF Connection, ToServerStands, ToClientStands
<1>11. ConnectionsTyped' /\ Connected'
  <2>1. <<>> \in Seq(ServerBytes)
    OBVIOUS
  <2>2. toClient[c] \in Seq(ClientBytes) /\ toClient' = [toClient EXCEPT ![c] = toClient[c]]
    BY <1>1, AtConnection
  <2>3. toServer' = [toServer EXCEPT ![c] = <<>>] /\ worker' = [worker EXCEPT ![c] = w] /\ UNCHANGED clientVars
    BY <1>1, <1>7
  <2> HIDE DEF w, ts
  <2> QED
    BY <1>8, <1>9, <1>10, <2>1, <2>2, <2>3, WorkerMoves
<1>12. worker'[c] = w /\ toServer'[c] = <<>>
  BY <1>1, <1>7 DEF ConnectionsTyped
<1> QED
  BY <1>1, <1>4, <1>5, <1>6, <1>11, <1>12 DEF r

LEMMA ReceiveFailsStands ==
    ASSUME ConnectionsTyped, Connected, NEW c \in Clients, ReceiveFails(c)
    PROVE  ConnectionsTyped' /\ Connected'
<1>1. /\ At(c, "receive") /\ ~open[c] /\ worker' = [worker EXCEPT ![c] = Ended]
      /\ UNCHANGED clientVars
      /\ toServer' = [toServer EXCEPT ![c] = <<>>]
      /\ toClient' = [toClient EXCEPT ![c] = toClient[c]]
  BY AtConnection DEF ReceiveFails, Set, Ended
<1>2. Connection(c, pc[c], open[c], <<>>, toClient[c], Ended)
  <2>1. WorkerStands(c, open[c], Ended)
    BY RestingWorkers DEF WorkerStands, Resting, Holding
  <2>2. pc[c] = "closed" /\ toClient[c] = <<>>
    BY <1>1, AtConnection DEF Connection, At, ToClientStands
  <2> QED
    BY <1>1, <2>1, <2>2, AtConnection, RestingWorkers
       DEF Connection, ToServerStands, ToClientStands
<1>3. <<>> \in Seq(ServerBytes)
  OBVIOUS
<1> QED
  BY <1>1, <1>2, <1>3, AtConnection, RestingWorkers, WorkerMoves

(* A worker in a queue: its put has ended, its get has been answered. *)
LEMMA PutEndedStands ==
    ASSUME ConnectionsTyped, Connected, NEW c \in Clients, Putting(c), NEW result \in Results
    PROVE  /\ PutEnded(worker[c], result) \in Workers
           /\ Connection(c, pc[c], open[c], toServer[c], toClient[c], PutEnded(worker[c], result))
           /\ PutEnded(worker[c], result).msg = None
           /\ PutEnded(worker[c], result).at = IF At(c, "put") THEN "reply" ELSE "ended"
           /\ worker[c].queue \in Queues /\ worker[c].msg \in Messages
           /\ toServer[c] = <<>> /\ toClient[c] = <<>>
           /\ At(c, "reput") => c \in Consumers /\ pc[c] = "closed"
<1> DEFINE w == worker[c]
           x == PutEnded(w, result)
<1>1. Connection(c, pc[c], open[c], toServer[c], toClient[c], w) /\ w \in Workers
  BY AtConnection
<1>2. w.at \in {"put", "reput"}
  BY DEF Putting, At
<1>3. WorkerStands(c, open[c], w)
  BY <1>1 DEF Connection
<1>4. w.queue \in Queues /\ w.msg \in Messages /\ w.req \in Requests
  BY <1>2, <1>3, ServerAssumption DEF WorkerStands, Holding, RequestStands, Requests
<1>5. toServer[c] = <<>> /\ toClient[c] = <<>>
  BY <1>1, <1>2 DEF Connection, ToServerStands, ToClientStands
<1>6. w.at = "reput" => c \in Consumers /\ pc[c] = "closed"
  BY <1>1, <1>2, <1>3, <1>4, ServerAssumption DEF Connection, WorkerStands, Holding
<1>7. CASE w.at = "reput"
  <2>1. x = Ended
    BY <1>7 DEF PutEnded, Ended
  <2>2. Connection(c, pc[c], open[c], toServer[c], toClient[c], Ended)
    BY <1>1, <1>5, <1>6, <1>7, RestingWorkers
       DEF Connection, WorkerStands, ToServerStands, ToClientStands, Resting, Holding
  <2> QED
    BY <1>4, <1>5, <1>6, <1>7, <2>1, <2>2, RestingWorkers DEF At
<1>8. CASE w.at = "put"
  <2>1. x = [w EXCEPT !.at = "reply", !.result = result, !.msg = None]
    BY <1>8 DEF PutEnded, Answered
  <2>2. /\ x \in Workers /\ x.at = "reply" /\ x.msg = None /\ x.req = w.req /\ x.result = result
    BY <1>1, <2>1 DEF Workers, WorkerPlaces
  <2>3. w.req.type = "put"
    BY <1>3, <1>8 DEF WorkerStands
  <2> HIDE DEF x, w
  <2>4. WorkerStands(c, open[c], x)
    BY <1>4, <2>2 DEF WorkerStands, Resting, Holding
  <2>5. Connection(c, pc[c], open[c], toServer[c], toClient[c], x)
    BY <1>1, <1>5, <1>8, <2>2, <2>3, <2>4 DEF Connection, ToServerStands, ToClientStands
  <2> QED
    BY <1>4, <1>5, <1>8, <2>2, <2>5 DEF At, x, w
<1> QED
  BY <1>2, <1>7, <1>8

LEMMA GetAnsweredStands ==
    ASSUME ConnectionsTyped, Connected, NEW c \in Clients, At(c, "get"),
           NEW result, NEW m,
           (result = "succ" /\ m \in Messages) \/ (result = "timeout" /\ m = None)
    PROVE  /\ Answered(worker[c], result, m) \in Workers
           /\ Connection(c, pc[c], open[c], toServer[c], toClient[c], Answered(worker[c], result, m))
           /\ Answered(worker[c], result, m).msg = m
           /\ Answered(worker[c], result, m).at = "reply"
           /\ worker[c].queue \in Queues /\ worker[c].msg = None
           /\ toServer[c] = <<>> /\ toClient[c] = <<>> /\ c \in Consumers
<1> DEFINE w == worker[c]
           x == Answered(w, result, m)
<1>1. Connection(c, pc[c], open[c], toServer[c], toClient[c], w) /\ w \in Workers
  BY AtConnection
<1>2. w.at = "get"
  BY DEF At
<1>3. WorkerStands(c, open[c], w)
  BY <1>1 DEF Connection
<1>4. /\ w.queue \in Queues /\ w.msg = None /\ w.req \in Requests /\ w.req.type = "get"
      /\ c \in Consumers
  BY <1>2, <1>3 DEF WorkerStands, Holding, RequestStands
<1>5. toServer[c] = <<>> /\ toClient[c] = <<>>
  BY <1>1, <1>2 DEF Connection, ToServerStands, ToClientStands
<1>6. x = [w EXCEPT !.at = "reply", !.result = result, !.msg = m]
  BY DEF Answered
<1>7. /\ x \in Workers /\ x.at = "reply" /\ x.msg = m /\ x.req = w.req /\ x.result = result
      /\ x.queue = w.queue
  BY <1>1, <1>6 DEF Workers, WorkerPlaces, Results
<1> HIDE DEF x, w
<1>8. WorkerStands(c, open[c], x)
  BY <1>4, <1>7 DEF WorkerStands, Resting, Holding, Results
<1>9. Connection(c, pc[c], open[c], toServer[c], toClient[c], x)
  BY <1>1, <1>2, <1>4, <1>5, <1>7, <1>8 DEF Connection, ToServerStands, ToClientStands
<1> QED
  BY <1>4, <1>5, <1>7, <1>9 DEF x, w

(* What the worker sends, and what becomes of it. *)
ReplyOf(w) == [result |-> w.result, msg_len |-> MsgLen(w), msg |-> IF w.msg \in Empty THEN w.msg ELSE None]
HasReplied(w) == IF MsgLen(w) > 0 THEN [w EXCEPT !.at = "data"] ELSE Receiving

LEMMA SendFailedStands ==
    ASSUME ConnectionsTyped, Connected, NEW c \in Clients, worker[c].at \in {"reply", "data"}, ~open[c]
    PROVE  /\ SendFailed(worker[c]) \in Workers
           /\ Connection(c, pc[c], open[c], toServer[c], toClient[c], SendFailed(worker[c]))
           /\ SendFailed(worker[c]).msg = worker[c].msg
           /\ SendFailed(worker[c]).at = IF worker[c].msg = None THEN "ended" ELSE "reput"
<1> DEFINE w == worker[c]
           x == SendFailed(w)
<1>1. Connection(c, pc[c], open[c], toServer[c], toClient[c], w) /\ w \in Workers
  BY AtConnection
<1>2. /\ pc[c] = "closed" /\ toServer[c] = <<>> /\ toClient[c] = <<>> /\ WorkerStands(c, open[c], w)
  BY <1>1 DEF Connection, ToServerStands, ToClientStands
<1>3. CASE w.msg = None
  <2>1. x = Ended
    BY <1>3 DEF SendFailed, Ended
  <2> QED
    BY <1>2, <1>3, <2>1, RestingWorkers
       DEF Connection, WorkerStands, ToServerStands, ToClientStands, Resting, Holding
<1>4. CASE w.msg # None
  <2>1. x = [w EXCEPT !.at = "reput"]
    BY <1>4 DEF SendFailed
  <2>2. w.msg \in Messages
    BY <1>1, <1>4 DEF Workers
  <2>3. /\ x \in Workers /\ x.at = "reput" /\ x.msg = w.msg /\ x.req = w.req /\ x.queue = w.queue
        /\ x.result = w.result
    BY <1>1, <2>1 DEF Workers, WorkerPlaces
  <2> HIDE DEF x, w
  <2>4. WorkerStands(c, open[c], x)
    BY <1>2, <1>4, <2>2, <2>3 DEF WorkerStands, Resting, Holding, w
  <2> QED
    BY <1>2, <1>4, <2>3, <2>4 DEF Connection, ToServerStands, ToClientStands, x, w
<1> QED
  BY <1>3, <1>4

(* A reply to an open connection. *)
LEMMA ReplyTaken ==
    ASSUME ConnectionsTyped, Connected, NEW c \in Clients, worker[c].at = "reply", open[c]
    PROVE  LET reply == ReplyOf(worker[c])
           IN  /\ ReplyStands(pc[c], reply) /\ pc[c] \in {"put", "get"}
               /\ toServer[c] = <<>> /\ toClient[c] = <<>>
<1> DEFINE w == worker[c]
           reply == ReplyOf(w)
<1>1. Connection(c, pc[c], open[c], toServer[c], toClient[c], w) /\ w \in Workers
  BY AtConnection
<1>2. /\ pc[c] \in {"put", "get"} /\ w.req.type = pc[c] /\ toServer[c] = <<>> /\ toClient[c] = <<>>
      /\ WorkerStands(c, open[c], w)
  <2>1. pc[c] \in {"idle", "put", "get", "data"}
    BY <1>1, AtConnection DEF Connection, Places
  <2>2. WorkerStands(c, open[c], w) /\ ToClientStands(pc[c], toClient[c], w)
    BY <1>1 DEF Connection
  <2>3. pc[c] \notin {"idle", "data"}
    BY <1>1, <2>2 DEF Connection, ToClientStands
  <2>4. toClient[c] = <<>>
    BY <2>1, <2>2, <2>3 DEF ToClientStands
  <2> QED
    BY <1>1, <2>1, <2>2, <2>3, <2>4 DEF Connection
<1>3. w.result \in Results /\ w.msg \in Messages \cup {None}
  BY <1>1, <1>2 DEF WorkerStands, Workers
<1>4. w.msg # None => pc[c] = "get" /\ w.result = "succ"
  BY <1>2 DEF WorkerStands, Holding
<1>5. MsgLen(w) = IF w.msg \in Messages \ Empty THEN 1 ELSE 0
  BY DEF MsgLen
<1>6. /\ reply.result = w.result /\ reply.msg_len = MsgLen(w)
      /\ reply.msg = IF w.msg \in Empty THEN w.msg ELSE None
      /\ reply \in Replies
  BY <1>3, <1>5 DEF ReplyOf, Replies
<1>7. None \notin Messages /\ Empty \subseteq Messages
  BY ServerAssumption
<1> HIDE DEF reply, w
<1>8. ReplyStands(pc[c], reply)
  BY <1>3, <1>4, <1>5, <1>6, <1>7 DEF ReplyStands
<1> QED
  BY <1>2, <1>8 DEF reply, w

LEMMA HasRepliedStands ==
    ASSUME ConnectionsTyped, Connected, NEW c \in Clients, worker[c].at = "reply",
           NEW tc \in Seq(ClientBytes),
           IF open[c] THEN tc = <<Head_, ReplyOf(worker[c])>> ELSE tc = toClient[c]
    PROVE  /\ HasReplied(worker[c]) \in Workers
           /\ Connection(c, pc[c], open[c], toServer[c], tc, HasReplied(worker[c]))
<1> DEFINE w == worker[c]
           x == HasReplied(w)
           reply == ReplyOf(w)
<1>1. Connection(c, pc[c], open[c], toServer[c], toClient[c], w) /\ w \in Workers
  BY AtConnection
<1>2. WorkerStands(c, open[c], w) /\ (open[c] <=> pc[c] \notin {"new", "closed"}) /\ pc[c] # "new"
  BY <1>1 DEF Connection
<1>3. MsgLen(w) = IF w.msg \in Messages \ Empty THEN 1 ELSE 0
  BY DEF MsgLen
<1>4. x \in Workers /\ x.at = (IF MsgLen(w) = 1 THEN "data" ELSE "receive") /\ WorkerStands(c, open[c], x)
  <2>1. CASE w.msg \in Messages \ Empty
    <3>1. x = [w EXCEPT !.at = "data"]
      BY <1>3, <2>1 DEF HasReplied
    <3>2. /\ x \in Workers /\ x.at = "data" /\ x.msg = w.msg /\ x.req = w.req /\ x.queue = w.queue
          /\ x.result = w.result
      BY <1>1, <3>1 DEF Workers, WorkerPlaces
    <3> HIDE DEF x, w
    <3> QED
      BY <1>2, <1>3, <2>1, <3>2 DEF WorkerStands, Resting, Holding, w
  <2>2. CASE w.msg \notin Messages \ Empty
    <3>1. x = Receiving
      BY <1>3, <2>2 DEF HasReplied
    <3> QED
      BY <1>3, <2>2, <3>1, RestingWorkers DEF WorkerStands, Resting, Holding
  <2> QED
    BY <2>1, <2>2
<1> HIDE DEF x, w, reply
<1>5. CASE open[c]
  <2>1. /\ ReplyStands(pc[c], reply) /\ pc[c] \in {"put", "get"}
        /\ toServer[c] = <<>> /\ reply.msg_len = MsgLen(w)
    BY <1>5, ReplyTaken DEF w, reply, ReplyOf
  <2>2. Len(tc) = 2 /\ tc[1] = Head_ /\ tc[2] = reply /\ tc # <<>>
    BY <1>5, TwoFrames DEF w, reply
  <2>3. ToClientStands(pc[c], tc, x)
    BY <1>4, <2>1, <2>2 DEF ToClientStands
  <2>4. ToServerStands(c, pc[c], toServer[c], x)
    BY <2>1 DEF ToServerStands
  <2>5. pc[c] \in {"get", "data"} => c \in Consumers
    BY <1>1 DEF Connection
  <2> QED
    BY <1>2, <1>4, <2>1, <2>2, <2>3, <2>4, <2>5 DEF Connection, x, w
<1>6. CASE ~open[c]
  <2>1. pc[c] = "closed" /\ toServer[c] = <<>> /\ tc = <<>>
    BY <1>1, <1>2, <1>6 DEF Connection, ToServerStands, ToClientStands, w
  <2>2. ToServerStands(c, pc[c], toServer[c], x) /\ ToClientStands(pc[c], tc, x)
    BY <2>1 DEF ToServerStands, ToClientStands
  <2> QED
    BY <1>2, <1>4, <2>1, <2>2 DEF Connection, x, w
<1> QED
  BY <1>5, <1>6

LEMMA DataTaken ==
    ASSUME ConnectionsTyped, Connected, NEW c \in Clients, worker[c].at = "data"
    PROVE  /\ worker[c].msg \in Messages \ Empty /\ toServer[c] = <<>> /\ pc[c] # "new"
           /\ c \in Consumers
           /\ open[c] =>
                 \/ pc[c] = "data" /\ toClient[c] = <<>>
                 \/ /\ pc[c] = "get" /\ Len(toClient[c]) = 2 /\ toClient[c][1] = Head_
                    /\ ReplyStands("get", toClient[c][2]) /\ toClient[c][2].msg_len = 1
           /\ ~open[c] => pc[c] = "closed" /\ toClient[c] = <<>>
<1> DEFINE w == worker[c]
<1>1. Connection(c, pc[c], open[c], toServer[c], toClient[c], w)
  BY AtConnection
<1>2. /\ (open[c] <=> pc[c] \notin {"new", "closed"}) /\ pc[c] # "new" /\ pc[c] # "idle"
      /\ WorkerStands(c, open[c], w) /\ ToClientStands(pc[c], toClient[c], w)
      /\ ToServerStands(c, pc[c], toServer[c], w)
  BY <1>1 DEF Connection
<1>3. w.msg \in Messages \ Empty /\ toServer[c] = <<>> /\ w.msg # None
  BY <1>2, ServerAssumption DEF WorkerStands, ToServerStands
<1>4. c \in Consumers
  BY <1>2, <1>3 DEF WorkerStands, Holding
<1>5. CASE open[c]
  <2>1. pc[c] \in {"put", "get", "data"}
    BY <1>2, <1>5, AtConnection DEF Places
  <2>2. CASE pc[c] = "data"
    BY <1>2, <1>3, <1>4, <1>5, <2>2 DEF ToClientStands
  <2>3. CASE pc[c] \in {"put", "get"}
    <3>1. toClient[c] # <<>>
      BY <1>1, <2>3 DEF Connection
    <3>2. /\ Len(toClient[c]) = 2 /\ toClient[c][1] = Head_ /\ toClient[c][2].msg_len = 1
          /\ ReplyStands(pc[c], toClient[c][2])
      BY <1>2, <2>3, <3>1 DEF ToClientStands
    <3>3. pc[c] = "get"
      BY <3>2 DEF ReplyStands
    <3> QED
      BY <1>2, <1>3, <1>4, <1>5, <3>2, <3>3
  <2> QED
    BY <2>1, <2>2, <2>3
<1>6. CASE ~open[c]
  BY <1>2, <1>3, <1>4, <1>6 DEF ToClientStands
<1> QED
  BY <1>5, <1>6

LEMMA DataSentStands ==
    ASSUME ConnectionsTyped, Connected, NEW c \in Clients, worker[c].at = "data",
           NEW tc, tc = IF open[c] THEN toClient[c] \o <<worker[c].msg>> ELSE toClient[c]
    PROVE  /\ tc \in Seq(ClientBytes)
           /\ open[c] => /\ Len(tc) = Len(toClient[c]) + 1 /\ tc[Len(tc)] = worker[c].msg
                         /\ \A i \in 1..Len(toClient[c]) : tc[i] = toClient[c][i]
           /\ Connection(c, pc[c], open[c], toServer[c], tc, Receiving)
<1> DEFINE m == worker[c].msg
           old == toClient[c]
<1>1. /\ m \in Messages \ Empty /\ toServer[c] = <<>> /\ pc[c] # "new" /\ c \in Consumers
      /\ open[c] =>
            \/ pc[c] = "data" /\ old = <<>>
            \/ /\ pc[c] = "get" /\ Len(old) = 2 /\ old[1] = Head_
               /\ ReplyStands("get", old[2]) /\ old[2].msg_len = 1
      /\ ~open[c] => pc[c] = "closed" /\ old = <<>>
  BY DataTaken
<1>2. old \in Seq(ClientBytes) /\ m \in ClientBytes
  BY <1>1, AtConnection DEF ClientBytes
<1>3. WorkerStands(c, open[c], Receiving)
  BY RestingWorkers DEF WorkerStands, Resting, Holding
<1>4. open[c] <=> pc[c] \notin {"new", "closed"}
  BY AtConnection DEF Connection
<1>5. CASE open[c]
  <2>1. tc = old \o <<m>>
    BY <1>5
  <2> HIDE DEF m, old
  <2>2. /\ tc \in Seq(ClientBytes) /\ Len(tc) = Len(old) + 1 /\ tc[Len(tc)] = m
        /\ \A i \in 1..Len(old) : tc[i] = old[i]
        /\ old = <<>> => Len(tc) = 1 /\ tc[1] = m
        /\ Len(old) = 2 => Len(tc) = 3 /\ tc[3] = m /\ tc[1] = old[1] /\ tc[2] = old[2]
    BY ONLY <1>2, <2>1, OneMore
  <2>3. tc # <<>>
    BY <1>2, <2>2
  <2>4. CASE pc[c] = "data" /\ old = <<>>
    <3>1. Len(tc) = 1 /\ tc[1] = m
      BY <2>2, <2>4
    <3>2. ToClientStands(pc[c], tc, Receiving) /\ ToServerStands(c, pc[c], toServer[c], Receiving)
      BY <1>1, <2>3, <2>4, <3>1, RestingWorkers DEF ToClientStands, ToServerStands
    <3> QED
      BY <1>1, <1>3, <1>4, <1>5, <2>2, <2>4, <3>2 DEF Connection, m, old
  <2>5. CASE /\ pc[c] = "get" /\ Len(old) = 2 /\ old[1] = Head_
             /\ ReplyStands("get", old[2]) /\ old[2].msg_len = 1
    <3>1. Len(tc) = 3 /\ tc[3] = m /\ tc[1] = Head_ /\ tc[2] = old[2]
      BY <2>2, <2>5
    <3>2. ToClientStands(pc[c], tc, Receiving) /\ ToServerStands(c, pc[c], toServer[c], Receiving)
      BY <1>1, <2>3, <2>5, <3>1, RestingWorkers DEF ToClientStands, ToServerStands
    <3> QED
      BY <1>1, <1>3, <1>4, <1>5, <2>2, <2>3, <2>5, <3>2 DEF Connection, m, old
  <2> QED
    BY <1>1, <1>5, <2>4, <2>5 DEF old, m
<1>6. CASE ~open[c]
  BY <1>1, <1>2, <1>3, <1>4, <1>6 DEF Connection, ToClientStands, ToServerStands
<1> QED
  BY <1>5, <1>6

-----------------------------------------------------------------------------
(* Every step keeps the types, the connections and the server running.     *)

Sound == ConnectionsTyped /\ MessagesTyped /\ Connected

LEMMA TakesRequest ==
    ASSUME IInv, Running, Connected, NEW c \in Clients, worker[c].at = "receive"
    PROVE  \A n \in Names : Found(table, n) \in Queues \cup {None}
<1>1. pc[c] # "new"
  BY DEF Connected, Connection
<1>2. enum = None
  BY <1>1 DEF Running
<1>3. Intact(table, bound)
  BY <1>2 DEF IInv
<1>4. ASSUME NEW n \in Names PROVE Found(table, n) \in Queues \cup {None}
  <2> DEFINE f == Folded(n)
  <2>1. bound \in [Bound -> Seq(Queues)] /\ f \in Bound
    BY <1>3 DEF Intact, Bound
  <2>2. bound[f] \in Seq(Queues)
    BY <2>1
  <2>3. bound[f] # <<>> => bound[f][Len(bound[f])] \in Queues
    BY <2>2
  <2> QED
    BY <1>3, <2>3, FoundIsNewest
<1> QED
  BY <1>4

LEMMA AnsweredKeeps ==
    ASSUME Sound, NEW c \in Clients,
           UNCHANGED <<clientVars, toServer, toClient>>,
           NEW w \in Workers, worker' = [worker EXCEPT ![c] = w],
           Connection(c, pc[c], open[c], toServer[c], toClient[c], w)
    PROVE  ConnectionsTyped' /\ Connected'
<1>1. toServer' = [toServer EXCEPT ![c] = toServer[c]] /\ toClient' = [toClient EXCEPT ![c] = toClient[c]]
  BY AtConnection DEF Sound
<1> QED
  BY <1>1, AtConnection, WorkerMoves DEF Sound

LEMMA PutQueuesSound ==
    ASSUME Sound, NEW c \in Clients, PutQueues(c)
    PROVE  Sound'
<1> DEFINE q == worker[c].queue
           m == worker[c].msg
           w == PutEnded(worker[c], "succ")
<1>1. /\ Putting(c) /\ worker' = [worker EXCEPT ![c] = w]
      /\ queue' = [queue EXCEPT ![q] = Append(@, m)] /\ Accepted(c)
      /\ UNCHANGED <<temp, clientVars, toServer, toClient, sent, delivered>>
  BY DEF PutQueues, Set
<1>2. "succ" \in Results
  BY DEF Results
<1>3. /\ w \in Workers /\ q \in Queues /\ m \in Messages
      /\ Connection(c, pc[c], open[c], toServer[c], toClient[c], w)
  BY <1>1, <1>2, PutEndedStands DEF Sound
<1> HIDE DEF w, m, q
<1>4. ConnectionsTyped' /\ Connected'
  BY <1>1, <1>3, AnsweredKeeps
<1>5. MessagesTyped'
  BY <1>1, <1>3 DEF Sound, MessagesTyped, Accepted, m
<1> QED
  BY <1>4, <1>5 DEF Sound

LEMMA PutTimesOutSound ==
    ASSUME Sound, NEW c \in Clients, PutTimesOut(c)
    PROVE  Sound'
<1> DEFINE w == PutEnded(worker[c], "timeout")
<1>1. /\ Putting(c) /\ worker' = [worker EXCEPT ![c] = w]
      /\ UNCHANGED <<queueVars, clientVars, toServer, toClient, historyVars>>
  BY DEF PutTimesOut, Set
<1>2. "timeout" \in Results
  BY DEF Results
<1>3. w \in Workers /\ Connection(c, pc[c], open[c], toServer[c], toClient[c], w)
  BY <1>1, <1>2, PutEndedStands DEF Sound
<1> HIDE DEF w
<1>4. ConnectionsTyped' /\ Connected'
  BY <1>1, <1>3, AnsweredKeeps
<1> QED
  BY <1>1, <1>4 DEF Sound, MessagesTyped, queueVars, historyVars

LEMMA GetPopsSound ==
    ASSUME Sound, NEW c \in Clients, GetPops(c)
    PROVE  Sound'
<1> DEFINE q == worker[c].queue
           m == Head(queue[q])
           w == Answered(worker[c], "succ", m)
<1>1. /\ At(c, "get") /\ worker' = [worker EXCEPT ![c] = w] /\ queue[q] # <<>>
      /\ queue' = [queue EXCEPT ![q] = Tail(@)]
      /\ UNCHANGED <<temp, clientVars, toServer, toClient, historyVars>>
  BY DEF GetPops, Set
<1>2. q \in Queues
  BY <1>1, AtConnection DEF Sound, Connection, WorkerStands, At
<1>3. m \in Messages /\ Tail(queue[q]) \in Seq(Messages)
  <2>1. queue[q] \in Seq(Messages)
    BY <1>2 DEF Sound, MessagesTyped
  <2> HIDE DEF q
  <2> QED
    BY <1>1, <2>1
<1>4. w \in Workers /\ Connection(c, pc[c], open[c], toServer[c], toClient[c], w)
  BY <1>1, <1>3, GetAnsweredStands DEF Sound
<1> HIDE DEF w, m, q
<1>5. ConnectionsTyped' /\ Connected'
  BY <1>1, <1>4, AnsweredKeeps
<1>6. MessagesTyped'
  BY <1>1, <1>2, <1>3 DEF Sound, MessagesTyped, historyVars
<1> QED
  BY <1>5, <1>6 DEF Sound

LEMMA GetTimesOutSound ==
    ASSUME Sound, NEW c \in Clients, GetTimesOut(c)
    PROVE  Sound'
<1> DEFINE w == Answered(worker[c], "timeout", None)
<1>1. /\ At(c, "get") /\ worker' = [worker EXCEPT ![c] = w]
      /\ UNCHANGED <<queueVars, clientVars, toServer, toClient, historyVars>>
  BY DEF GetTimesOut, Set
<1>2. w \in Workers /\ Connection(c, pc[c], open[c], toServer[c], toClient[c], w)
  BY <1>1, GetAnsweredStands DEF Sound
<1> HIDE DEF w
<1>3. ConnectionsTyped' /\ Connected'
  BY <1>1, <1>2, AnsweredKeeps
<1> QED
  BY <1>1, <1>3 DEF Sound, MessagesTyped, queueVars, historyVars

LEMMA GetAdmitsExpiredSound ==
    ASSUME Sound, NEW c \in Clients, NEW d \in Clients \ {c}, GetAdmitsExpired(c, d)
    PROVE  Sound'
<1> DEFINE q == worker[c].queue
           m == Head(queue[q])
           n == worker[d].msg
           w == Answered(worker[c], "succ", m)
           x == PutEnded(worker[d], "timeout")
<1>1. /\ At(c, "get") /\ Putting(d) /\ Len(queue[q]) = Limit
      /\ worker' = [worker EXCEPT ![c] = w, ![d] = x]
      /\ queue' = [queue EXCEPT ![q] = Append(Tail(@), n)]
      /\ UNCHANGED <<temp, clientVars, toServer, toClient, historyVars>>
  BY DEF GetAdmitsExpired
<1>2. q \in Queues
  BY <1>1, AtConnection DEF Sound, Connection, WorkerStands, At
<1>3. m \in Messages /\ Tail(queue[q]) \in Seq(Messages)
  <2>1. queue[q] \in Seq(Messages)
    BY <1>2 DEF Sound, MessagesTyped
  <2>2. queue[q] # <<>>
    BY <1>1, <2>1, ServerAssumption
  <2> HIDE DEF q
  <2> QED
    BY <2>1, <2>2
<1>4. w \in Workers /\ Connection(c, pc[c], open[c], toServer[c], toClient[c], w)
  BY <1>1, <1>3, GetAnsweredStands DEF Sound
<1>5. /\ x \in Workers /\ Connection(d, pc[d], open[d], toServer[d], toClient[d], x)
      /\ n \in Messages
  BY <1>1, PutEndedStands DEF Sound, Results
<1> HIDE DEF w, x, m, n, q
<1>6. ConnectionsTyped' /\ Connected'
  BY <1>1, <1>4, <1>5, WorkersMove DEF Sound
<1>7. MessagesTyped'
  <2>1. Append(Tail(queue[q]), n) \in Seq(Messages)
    BY <1>3, <1>5
  <2> QED
    BY <1>1, <1>2, <2>1 DEF Sound, MessagesTyped, historyVars
<1> QED
  BY <1>6, <1>7 DEF Sound

LEMMA PutHandsOverSound ==
    ASSUME Sound, NEW c \in Clients, NEW d \in Clients \ {c}, PutHandsOver(c, d)
    PROVE  Sound'
<1> DEFINE q == worker[c].queue
           m == worker[c].msg
           given == Append(temp[q], m)
           x == PutEnded(worker[c], "succ")
<1>1. /\ Putting(c) /\ At(d, "get") /\ Accepted(c)
      /\ UNCHANGED <<queue, clientVars, toServer, toClient, sent, delivered>>
  BY DEF PutHandsOver
<1>2. /\ x \in Workers /\ Connection(c, pc[c], open[c], toServer[c], toClient[c], x)
      /\ m \in Messages /\ q \in Queues
  BY <1>1, PutEndedStands DEF Sound, Results
<1>3. temp[q] \in Seq(Messages)
  BY <1>2 DEF Sound, MessagesTyped
<1>4. given \in Seq(Messages) /\ Head(given) \in Messages /\ Tail(given) \in Seq(Messages)
  <2>1. given \in Seq(Messages) /\ Len(given) = Len(temp[q]) + 1 /\ Len(temp[q]) \in Nat
    BY <1>2, <1>3
  <2> HIDE DEF given
  <2>2. given # <<>>
    BY <2>1
  <2> QED
    BY <2>1, <2>2
<1>5. \E w \in Workers :
          /\ worker' = [worker EXCEPT ![c] = x, ![d] = w]
          /\ Connection(d, pc[d], open[d], toServer[d], toClient[d], w)
  <2> DEFINE taken == Answered(worker[d], "succ", Head(given))
             late  == Answered(worker[d], "timeout", None)
  <2>1. taken \in Workers /\ Connection(d, pc[d], open[d], toServer[d], toClient[d], taken)
    BY <1>1, <1>4, GetAnsweredStands DEF Sound
  <2>2. late \in Workers /\ Connection(d, pc[d], open[d], toServer[d], toClient[d], late)
    BY <1>1, GetAnsweredStands DEF Sound
  <2>3. \/ worker' = [worker EXCEPT ![c] = x, ![d] = taken]
        \/ worker' = [worker EXCEPT ![c] = x, ![d] = late]
    BY DEF PutHandsOver
  <2> HIDE DEF taken, late, x
  <2> QED
    BY <2>1, <2>2, <2>3
<1>6. temp' = [temp EXCEPT ![q] = given] \/ temp' = [temp EXCEPT ![q] = Tail(given)]
  BY DEF PutHandsOver
<1> HIDE DEF x, m, q, given
<1>7. ConnectionsTyped' /\ Connected'
  BY <1>1, <1>2, <1>5, WorkersMove DEF Sound
<1>8. MessagesTyped'
  BY <1>1, <1>2, <1>4, <1>6 DEF Sound, MessagesTyped, Accepted, m
<1> QED
  BY <1>7, <1>8 DEF Sound

LEMMA SendsReplySound ==
    ASSUME Sound, NEW c \in Clients, SendsReply(c)
    PROVE  Sound'
<1> DEFINE w == worker[c]
<1>1. /\ w.at = "reply" /\ UNCHANGED <<queueVars, clientVars, toServer, historyVars>>
      /\ \/ /\ worker' = [worker EXCEPT ![c] = HasReplied(w)]
            /\ Delivered(c, <<Head_, ReplyOf(w)>>)
         \/ ~open[c] /\ worker' = [worker EXCEPT ![c] = SendFailed(w)] /\ toClient' = toClient
  BY DEF SendsReply, Set, At, HasReplied, ReplyOf, Receiving
<1>2. toServer' = [toServer EXCEPT ![c] = toServer[c]]
  BY <1>1, AtConnection DEF Sound
<1>3. CASE worker' = [worker EXCEPT ![c] = HasReplied(w)] /\ Delivered(c, <<Head_, ReplyOf(w)>>)
  <2> DEFINE tc == IF open[c] THEN <<Head_, ReplyOf(w)>> ELSE toClient[c]
  <2>1. toClient' = [toClient EXCEPT ![c] = tc] /\ tc \in Seq(ClientBytes)
    <3>1. CASE open[c]
      <4>1. toClient[c] = <<>> /\ ReplyOf(w) \in ClientBytes /\ Head_ \in ClientBytes
        BY <1>1, <3>1, ReplyTaken DEF Sound, ReplyStands, ClientBytes
      <4>2. <<Head_, ReplyOf(w)>> \in Seq(ClientBytes)
        BY <4>1
      <4>3. <<>> \o <<Head_, ReplyOf(w)>> = <<Head_, ReplyOf(w)>>
        OBVIOUS
      <4>4. toClient' = [toClient EXCEPT ![c] = @ \o <<Head_, ReplyOf(w)>>]
        BY <1>3, <3>1 DEF Delivered
      <4> QED
        BY <3>1, <4>1, <4>2, <4>3, <4>4
    <3>2. CASE ~open[c]
      BY <1>3, <3>2, AtConnection DEF Delivered, Sound
    <3> QED
      BY <3>1, <3>2
  <2>2. IF open[c] THEN tc = <<Head_, ReplyOf(w)>> ELSE tc = toClient[c]
    OBVIOUS
  <2> HIDE DEF tc
  <2>3. HasReplied(w) \in Workers /\ Connection(c, pc[c], open[c], toServer[c], tc, HasReplied(w))
    BY <1>1, <2>1, <2>2, HasRepliedStands DEF Sound
  <2>4. UNCHANGED clientVars /\ toServer[c] \in Seq(ServerBytes)
    BY <1>1, AtConnection DEF Sound
  <2>5. ConnectionsTyped' /\ Connected'
    BY <1>2, <1>3, <2>1, <2>3, <2>4, WorkerMoves DEF Sound
  <2> QED
    BY <1>1, <2>5 DEF Sound, MessagesTyped, queueVars, historyVars
<1>4. CASE ~open[c] /\ worker' = [worker EXCEPT ![c] = SendFailed(w)] /\ toClient' = toClient
  <2>1. SendFailed(w) \in Workers /\ Connection(c, pc[c], open[c], toServer[c], toClient[c], SendFailed(w))
    BY <1>1, <1>4, SendFailedStands DEF Sound
  <2>2. ConnectionsTyped' /\ Connected'
    BY <1>1, <1>4, <2>1, AnsweredKeeps
  <2> QED
    BY <1>1, <2>2 DEF Sound, MessagesTyped, queueVars, historyVars
<1> QED
  BY <1>1, <1>3, <1>4

LEMMA SendsDataSound ==
    ASSUME Sound, NEW c \in Clients, SendsData(c)
    PROVE  Sound'
<1> DEFINE w == worker[c]
           tc == IF open[c] THEN toClient[c] \o <<w.msg>> ELSE toClient[c]
<1>1. /\ w.at = "data" /\ UNCHANGED <<queueVars, clientVars, toServer, historyVars>>
      /\ \/ worker' = [worker EXCEPT ![c] = Receiving] /\ Delivered(c, <<w.msg>>)
         \/ ~open[c] /\ worker' = [worker EXCEPT ![c] = SendFailed(w)] /\ toClient' = toClient
  BY DEF SendsData, Set, At, Receiving
<1>2. toServer' = [toServer EXCEPT ![c] = toServer[c]] /\ toServer[c] \in Seq(ServerBytes)
  BY <1>1, AtConnection DEF Sound
<1>3. CASE worker' = [worker EXCEPT ![c] = Receiving] /\ Delivered(c, <<w.msg>>)
  <2>1. toClient' = [toClient EXCEPT ![c] = tc]
    BY <1>3, AtConnection DEF Delivered, Sound
  <2>2. tc \in Seq(ClientBytes) /\ Connection(c, pc[c], open[c], toServer[c], tc, Receiving)
    BY <1>1, DataSentStands DEF Sound
  <2> HIDE DEF tc
  <2>3. ConnectionsTyped' /\ Connected'
    BY <1>1, <1>2, <1>3, <2>1, <2>2, RestingWorkers, WorkerMoves DEF Sound
  <2> QED
    BY <1>1, <2>3 DEF Sound, MessagesTyped, queueVars, historyVars
<1>4. CASE ~open[c] /\ worker' = [worker EXCEPT ![c] = SendFailed(w)] /\ toClient' = toClient
  <2>1. SendFailed(w) \in Workers /\ Connection(c, pc[c], open[c], toServer[c], toClient[c], SendFailed(w))
    BY <1>1, <1>4, SendFailedStands DEF Sound
  <2>2. ConnectionsTyped' /\ Connected'
    BY <1>1, <1>4, <2>1, AnsweredKeeps
  <2> QED
    BY <1>1, <2>2 DEF Sound, MessagesTyped, queueVars, historyVars
<1> QED
  BY <1>1, <1>3, <1>4

(* The client's actions change the connection and the history. *)
LEMMA ClientSound ==
    ASSUME Sound, NEW c \in Clients, ClientStep(c) \/ ClientCall(c)
    PROVE  Sound' /\ ClientKeeps(c) /\ UNCHANGED systemVars
<1>1. CASE ReceivesReply(c)
  <2>1. ClientKeeps(c) /\ UNCHANGED <<systemVars, queueVars, sent, accepted>>
    BY <1>1, ReceivesReplyStands DEF Sound, ReceivesReply
  <2>2. delivered' \in SUBSET Messages
    <3> DEFINE reply == toClient[c][2]
    <3>1. reply.msg \in Empty \cup {None} /\ Empty \subseteq Messages
      <4>1. pc[c] \in {"put", "get"} /\ Len(toClient[c]) >= 2
        BY <1>1 DEF ReceivesReply
      <4>2. ReplyStands(pc[c], reply)
        BY <4>1, GoesOn DEF Sound
      <4> QED
        BY <4>2, ServerAssumption DEF ReplyStands, Replies
    <3>2. delivered' = IF c \in JavaClients /\ reply.msg # None THEN delivered \cup {reply.msg} ELSE delivered
      BY <1>1 DEF ReceivesReply
    <3> HIDE DEF reply
    <3> QED
      BY <3>1, <3>2 DEF Sound, MessagesTyped
  <2> QED
    BY <2>1, <2>2 DEF Sound, MessagesTyped, ClientKeeps, queueVars
<1>2. CASE ReceivesData(c)
  <2>1. /\ ClientKeeps(c) /\ UNCHANGED <<systemVars, queueVars, sent, accepted>>
        /\ Head(toClient[c]) \in Messages /\ delivered' = delivered \cup {Head(toClient[c])}
    BY <1>2, ReceivesDataStands DEF Sound, ReceivesData
  <2> QED
    BY <2>1 DEF Sound, MessagesTyped, ClientKeeps, queueVars
<1>3. CASE Connects(c)
  <2>1. ClientKeeps(c) /\ UNCHANGED <<systemVars, queueVars, historyVars>>
    BY <1>3, ConnectsStands DEF Sound, Connects
  <2> QED
    BY <2>1 DEF Sound, MessagesTyped, ClientKeeps, queueVars, historyVars
<1>4. CASE Closes(c)
  <2>1. ClientKeeps(c) /\ UNCHANGED <<systemVars, queueVars, historyVars>>
    BY <1>4, ClosesStands DEF Sound, Closes
  <2> QED
    BY <2>1 DEF Sound, MessagesTyped, ClientKeeps, queueVars, historyVars
<1>5. ASSUME NEW n \in Asked, NEW w \in Waits[c], SendsGet(c, n, w)
      PROVE  Sound' /\ ClientKeeps(c) /\ UNCHANGED systemVars
  <2>1. ClientKeeps(c) /\ UNCHANGED <<systemVars, queueVars, historyVars>>
    BY <1>5, SendsGetStands DEF Sound, SendsGet, Requested, historyVars
  <2> QED
    BY <2>1 DEF Sound, MessagesTyped, ClientKeeps, queueVars, historyVars
<1>6. ASSUME NEW n \in Asked, NEW w \in Waits[c], NEW m \in Messages,
             SendsPut(c, m, n, w) \/ JavaSendsPut(c, m, n, w)
      PROVE  Sound' /\ ClientKeeps(c) /\ UNCHANGED systemVars
  <2>1. ClientKeeps(c)
    BY <1>6, SendsPutStands DEF Sound
  <2>2. UNCHANGED <<systemVars, queueVars, accepted, delivered>> /\ sent' = sent \cup {m}
    BY <1>6 DEF SendsPut, JavaSendsPut, Requested
  <2> QED
    BY <2>1, <2>2 DEF Sound, MessagesTyped, ClientKeeps, queueVars
<1> QED
  BY <1>1, <1>2, <1>3, <1>4, <1>5, <1>6 DEF ClientStep, ClientCall

LEMMA WorkerSound ==
    ASSUME IInv, Running, Sound, NEW c \in Clients, WorkerStep(c)
    PROVE  Sound' /\ UNCHANGED <<systemVars, clientVars>>
<1>1. CASE Accepts(c)
  <2>1. ConnectionsTyped' /\ Connected'
    BY <1>1, AcceptsStands DEF Sound
  <2> QED
    BY <1>1, <2>1 DEF Accepts, Sound, MessagesTyped, queueVars, historyVars
<1>2. CASE Receives(c)
  <2>1. worker[c].at = "receive"
    BY <1>2 DEF Receives, At
  <2>2. ConnectionsTyped' /\ Connected'
    BY <1>2, <2>1, TakesRequest, ReceivesStands DEF Sound
  <2> QED
    BY <1>2, <2>2 DEF Receives, Sound, MessagesTyped, queueVars, historyVars
<1>3. CASE ReceiveFails(c)
  <2>1. ConnectionsTyped' /\ Connected'
    BY <1>3, ReceiveFailsStands DEF Sound
  <2> QED
    BY <1>3, <2>1 DEF ReceiveFails, Sound, MessagesTyped, queueVars, historyVars
<1>4. CASE PutQueues(c)
  BY <1>4, PutQueuesSound DEF PutQueues
<1>5. CASE PutTimesOut(c)
  BY <1>5, PutTimesOutSound DEF PutTimesOut
<1>6. CASE GetPops(c)
  BY <1>6, GetPopsSound DEF GetPops
<1>7. CASE GetTimesOut(c)
  BY <1>7, GetTimesOutSound DEF GetTimesOut
<1>8. ASSUME NEW d \in Clients \ {c}, GetAdmitsExpired(c, d)
      PROVE  Sound' /\ UNCHANGED <<systemVars, clientVars>>
  BY <1>8, GetAdmitsExpiredSound DEF GetAdmitsExpired
<1>9. ASSUME NEW d \in Clients \ {c}, PutHandsOver(c, d)
      PROVE  Sound' /\ UNCHANGED <<systemVars, clientVars>>
  BY <1>9, PutHandsOverSound DEF PutHandsOver
<1>10. CASE SendsReply(c)
  BY <1>10, SendsReplySound DEF SendsReply
<1>11. CASE SendsData(c)
  BY <1>11, SendsDataSound DEF SendsData
<1> QED
  BY <1>1, <1>2, <1>3, <1>4, <1>5, <1>6, <1>7, <1>8, <1>9, <1>10, <1>11 DEF WorkerStep

LEMMA EveryStepSound ==
    ASSUME IInv, TypeOK, Running, Connected, [Next]_vars
    PROVE  TypeOK' /\ Running' /\ Connected'
<1>1. Sound /\ running \in BOOLEAN
  BY TypeParts DEF Sound
<1>2. ASSUME Sound', running' \in BOOLEAN, Running' PROVE TypeOK' /\ Running' /\ Connected'
  BY <1>2 DEF Sound, TypeOK, ConnectionsTyped, MessagesTyped, Places, ServerBytes, ClientBytes, Workers
<1>3. CASE NamesQueues
  <2>1. Sound' /\ running' = running /\ ~running /\ pc' = pc
    BY <1>1, <1>3 DEF NamesQueues, queueVars, clientVars, historyVars,
                      Sound, ConnectionsTyped, MessagesTyped, Connected
  <2> QED
    BY <1>1, <1>2, <2>1 DEF Running
<1>4. CASE Start
  <2>1. Sound' /\ running' = TRUE /\ pc' = pc /\ enum' = enum /\ enum = None
    BY <1>1, <1>4 DEF Start, tableVars, queueVars, clientVars, historyVars,
                      Sound, ConnectionsTyped, MessagesTyped, Connected
  <2> QED
    BY <1>2, <2>1 DEF Running
<1>5. ASSUME NEW c \in Clients, ClientStep(c) \/ ClientCall(c)
      PROVE  TypeOK' /\ Running' /\ Connected'
  <2>1. Sound' /\ ClientKeeps(c) /\ running' = running /\ enum' = enum
    BY <1>1, <1>5, ClientSound DEF systemVars, tableVars
  <2>2. running
    <3>1. pc[c] # "new" => running
      BY DEF Running
    <3>2. CASE pc[c] = "new"
      <4>1. Connects(c)
        <5>1. ~open[c]
          BY <3>2, <1>1, AtConnection DEF Sound, Connection
        <5> QED
          BY <1>5, <3>2, <5>1 DEF ClientStep, ClientCall, ReceivesReply, ReceivesData, Closes,
                                  SendsGet, SendsPut, JavaSendsPut
      <4> QED
        BY <4>1 DEF Connects
    <3> QED
      BY <3>1, <3>2
  <2>3. Running'
    BY <2>1, <2>2 DEF Running
  <2> QED
    BY <1>1, <1>2, <2>1, <2>3
<1>6. ASSUME NEW c \in Clients, WorkerStep(c)
      PROVE  TypeOK' /\ Running' /\ Connected'
  <2>1. Sound' /\ running' = running /\ enum' = enum /\ pc' = pc
    BY <1>1, <1>6, WorkerSound DEF systemVars, tableVars, clientVars
  <2> QED
    BY <1>1, <1>2, <2>1 DEF Running
<1>7. CASE UNCHANGED vars
  <2>1. Sound' /\ running' = running /\ pc' = pc /\ enum' = enum
    BY <1>1, <1>7 DEF vars, systemVars, tableVars, queueVars, clientVars, historyVars,
                      Sound, ConnectionsTyped, MessagesTyped, Connected
  <2> QED
    BY <1>1, <1>2, <2>1 DEF Running
<1> QED
  BY <1>3, <1>4, <1>5, <1>6, <1>7 DEF Next

-----------------------------------------------------------------------------
(* The table goes on answering behind the running server, and nothing is   *)
(* destroyed twice: the server only reads it.                              *)

LEMMA TableRuns == Spec => TableSpec
<1>1. Init => TableInit
  BY DEF Init
<1>2. [Next]_vars => [TableNext]_tableVars
  <2> SUFFICES ASSUME [Next]_vars PROVE TableNext \/ UNCHANGED tableVars
    OBVIOUS
  <2>1. CASE NamesQueues
    BY <2>1 DEF NamesQueues
  <2>2. CASE Start
    BY <2>2 DEF Start
  <2>3. ASSUME NEW c \in Clients, ClientStep(c) PROVE UNCHANGED tableVars
    BY <2>3 DEF ClientStep, ReceivesReply, ReceivesData, systemVars
  <2>4. ASSUME NEW c \in Clients, ClientCall(c) PROVE UNCHANGED tableVars
    BY <2>4 DEF ClientCall, Connects, Closes, SendsGet, SendsPut, JavaSendsPut, Requested, systemVars
  <2>5. ASSUME NEW c \in Clients, WorkerStep(c) PROVE UNCHANGED tableVars
    BY <2>5 DEF WorkerStep, Accepts, Receives, ReceiveFails, PutQueues, PutTimesOut, GetPops,
                GetTimesOut, GetAdmitsExpired, PutHandsOver, SendsReply, SendsData, systemVars
  <2>6. CASE UNCHANGED vars
    BY <2>6 DEF vars, systemVars
  <2> QED
    BY <2>1, <2>2, <2>3, <2>4, <2>5, <2>6 DEF Next
<1> QED
  BY <1>1, <1>2, PTL DEF Spec, TableSpec

(* TableMatches for the table of a server: each request finds the queue    *)
(* added last under its name (qc_server.c over qc_qmanager.c).             *)
THEOREM ServerTableAnswers == Spec => []TableMatches
  BY TableRuns, TableAnswers, PTL

(* DestroyedOnce for a queue system that a server may use.                 *)
THEOREM ServerDestroysOnce == Spec => []DestroyedOnce
  BY TableRuns, DestroyedOnceEach, PTL

LEMMA StartsInStep ==
    ASSUME Init
    PROVE  TypeOK /\ Running /\ Connected
<1>1. NoWorker \in Workers /\ NoWorker.at = "none" /\ NoWorker.msg = None
  BY DEF NoWorker, Workers, WorkerPlaces
<1>2. TypeOK
  <2>1. <<>> \in Seq(ServerBytes) /\ <<>> \in Seq(ClientBytes) /\ <<>> \in Seq(Messages)
    OBVIOUS
  <2>2. ConnectionsTyped
    BY <1>1, <2>1 DEF Init, ConnectionsTyped, Places
  <2>3. MessagesTyped /\ running \in BOOLEAN
    BY <2>1 DEF Init, MessagesTyped
  <2> QED
    BY <2>2, <2>3, TypeParts
<1>3. Running
  BY DEF Init, Running
<1>4. ASSUME NEW c \in Clients
      PROVE  Connection(c, pc[c], open[c], toServer[c], toClient[c], worker[c])
  <2>1. /\ pc[c] = "new" /\ open[c] = FALSE /\ toServer[c] = <<>> /\ toClient[c] = <<>>
        /\ worker[c] = NoWorker
    BY DEF Init
  <2>2. WorkerStands(c, FALSE, NoWorker)
    BY <1>1 DEF WorkerStands, Resting, Holding
  <2>3. ToServerStands(c, "new", <<>>, NoWorker)
    <3>1. Len(<<>>) = 0
      OBVIOUS
    <3> QED
      BY <3>1 DEF ToServerStands
  <2>4. ToClientStands("new", <<>>, NoWorker)
    BY DEF ToClientStands
  <2>5. Connection(c, "new", FALSE, <<>>, <<>>, NoWorker)
    BY <1>1, <2>2, <2>3, <2>4 DEF Connection
  <2> QED
    BY <2>1, <2>5
<1> QED
  BY <1>2, <1>3, <1>4 DEF Connected

(* The types, the table behind a running server and each connection's      *)
(* place in its protocol, whatever clients do.                             *)
THEOREM ConnectionsHold == Spec => [](TypeOK /\ Running /\ Connected)
<1>1. Init => TypeOK /\ Running /\ Connected
  BY StartsInStep
<1>2. IInv /\ (TypeOK /\ Running /\ Connected) /\ [Next]_vars => (TypeOK /\ Running /\ Connected)'
  BY EveryStepSound
<1>3. Spec => []IInv
  BY TableRuns, Invariant, PTL
<1> QED
  BY <1>1, <1>2, <1>3, PTL DEF Spec

(* TypeOK: the types of the server's state (qc_server.c, qc_client.c).     *)
THEOREM ServerTyped == Spec => []TypeOK
  BY ConnectionsHold, PTL

LEMMA ConnectionInStep ==
    ASSUME TypeOK, Connected, NEW c \in Clients
    PROVE  InStep(c)
<1> DEFINE w == worker[c]
           ts == toServer[c]
           tc == toClient[c]
<1>1. ConnectionsTyped
  BY TypeParts
<1>2. Connection(c, pc[c], open[c], ts, tc, w) /\ pc[c] \in Places /\ tc \in Seq(ClientBytes)
  BY <1>1, AtConnection
<1>3. ToServerStands(c, pc[c], ts, w) /\ ToClientStands(pc[c], tc, w)
  BY <1>2 DEF Connection
<1>4. CASE pc[c] \in {"new", "idle"}
  <2>1. Quiet(c) /\ ts = <<>> /\ tc = <<>>
    BY <1>2, <1>3, <1>4 DEF Connection, ToServerStands, ToClientStands, Quiet
  <2> QED
    BY <1>4, <2>1 DEF InStep
<1>5. CASE pc[c] \in {"put", "get"}
  <2>1. CASE w.at \in {"none", "receive"} /\ ts # <<>> /\ tc = <<>>
    <3>1. Quiet(c) /\ Len(ts) = 2 /\ tc = <<>>
      BY <1>3, <1>5, <2>1 DEF Quiet, ToServerStands
    <3> QED
      BY <1>5, <3>1 DEF InStep
  <2>2. CASE w.at \in {pc[c], "reply"} /\ ts = <<>> /\ tc = <<>>
    BY <1>5, <2>2 DEF InStep
  <2>3. CASE ts = <<>> /\ tc # <<>>
    <3>1. /\ Len(tc) \in {2, 3} /\ tc[1] = Head_ /\ ReplyStands(pc[c], tc[2])
          /\ w.at = IF tc[2].msg_len = 1 /\ Len(tc) = 2 THEN "data" ELSE "receive"
          /\ Len(tc) = 3 => tc[2].msg_len = 1
      BY <1>3, <1>5, <2>3 DEF ToClientStands
    <3>2. tc[2] \in Replies /\ tc[2].msg_len \in {0, 1}
      BY <3>1 DEF ReplyStands, Replies
    <3>3. (tc[2].msg_len > 0) = (w.at = "data" \/ Len(tc) = 3)
      <4>1. CASE tc[2].msg_len = 0
        BY <3>1, <4>1
      <4>2. CASE tc[2].msg_len = 1
        BY <3>1, <4>2
      <4> QED
        BY <3>2, <4>1, <4>2
    <3> QED
      BY <1>5, <2>3, <3>1, <3>2, <3>3 DEF InStep
  <2> QED
    BY <1>2, <1>5, <2>1, <2>2, <2>3 DEF Connection
<1>6. CASE pc[c] = "data"
  <2>1. CASE tc = <<>>
    <3>1. w.at = "data"
      BY <1>3, <1>6, <2>1 DEF ToClientStands
    <3> QED
      BY <1>6, <2>1, <3>1 DEF InStep
  <2>2. CASE tc # <<>>
    <3>1. w.at = "receive" /\ Len(tc) = 1 /\ tc[1] \in Messages
      BY <1>3, <1>6, <2>2 DEF ToClientStands
    <3>2. tc = <<tc[1]>>
      BY <1>2, <3>1, OneLeft
    <3> QED
      BY <1>6, <3>1, <3>2 DEF InStep
  <2> QED
    BY <2>1, <2>2
<1>7. CASE pc[c] = "closed"
  <2>1. tc = <<>>
    BY <1>3, <1>7 DEF ToClientStands
  <2> QED
    BY <1>7, <2>1 DEF InStep
<1> QED
  BY <1>2, <1>4, <1>5, <1>6, <1>7 DEF Places

(* StreamsInStep: a request is on its way, being worked on or answered, and*)
(* the bytes that come are those the receiver expects next                 *)
(* (work_thread_routine against qc_client_msgput and qc_client_msgget).    *)
THEOREM ConnectionsInStep == Spec => []StreamsInStep
<1>1. TypeOK /\ Connected => StreamsInStep
  BY ConnectionInStep DEF StreamsInStep
<1> QED
  BY <1>1, ConnectionsHold, PTL

-----------------------------------------------------------------------------
(* Messages move from one of the sets that are apart to another.           *)

(* All but connection c have what they had. *)
OthersHave(c, K, K2) == \A e \in Clients \ {c} : K2[e] = K[e]

LEMMA Swapped ==
    ASSUME NEW Q, NEW T, NEW K, NEW R, NEW D, NEW A, NEW S
    PROVE  /\ Apart(Q, T, K, R, D, A, S) <=> Apart(T, Q, K, R, D, A, S)
           /\ GoneOf(Q, T, K, D, A) = GoneOf(T, Q, K, D, A)
<1>1. Q \cap T = {} <=> T \cap Q = {}
  OBVIOUS
<1> QED
  BY <1>1 DEF Apart, GoneOf

LEMMA Shrunk ==
    ASSUME NEW Q, NEW T, NEW K, NEW R, NEW D, NEW A, NEW S, Apart(Q, T, K, R, D, A, S),
           NEW c \in Clients, NEW K2, NEW R2, OthersHave(c, K, K2), OthersHave(c, R, R2),
           K2[c] \subseteq K[c], R2[c] \subseteq R[c], R2[c] \subseteq K2[c]
    PROVE  /\ Apart(Q, T, K2, R2, D, A, S)
           /\ GoneOf(Q, T, K2, D, A) \subseteq GoneOf(Q, T, K, D, A) \cup (K[c] \ (K2[c] \cup R[c]))
<1>1. \A e \in Clients : K2[e] \subseteq K[e] /\ R2[e] \subseteq R[e] /\ R2[e] \subseteq K2[e]
  BY DEF OthersHave, Apart
<1>2. Apart(Q, T, K2, R2, D, A, S)
  <2>1. \A d, e \in Clients : d # e => K2[d] \cap K2[e] = {}
    BY <1>1 DEF Apart
  <2> QED
    BY <1>1, <2>1 DEF Apart
<1>3. ASSUME NEW m \in GoneOf(Q, T, K2, D, A), m \notin GoneOf(Q, T, K, D, A)
      PROVE  m \in K[c] \ (K2[c] \cup R[c])
  <2>1. m \in A /\ m \notin K2[c] /\ \E e \in Clients : m \in K[e]
    BY <1>3 DEF GoneOf
  <2>2. m \in K[c]
    BY <1>3, <2>1 DEF GoneOf, OthersHave
  <2> QED
    BY <2>1, <2>2 DEF Apart
<1> QED
  BY <1>2, <1>3

LEMMA AskedFor ==
    ASSUME NEW Q, NEW T, NEW K, NEW R, NEW D, NEW A, NEW S, Apart(Q, T, K, R, D, A, S),
           NEW c \in Clients, NEW K2, NEW R2, OthersHave(c, K, K2), OthersHave(c, R, R2),
           NEW m, m \notin S, K[c] = {}, K2[c] = {m}, R2[c] = {m}
    PROVE  /\ Apart(Q, T, K2, R2, D, A, S \cup {m})
           /\ GoneOf(Q, T, K2, D, A) \subseteq GoneOf(Q, T, K, D, A)
<1>1. /\ m \notin Q /\ m \notin T /\ m \notin D /\ m \notin A /\ \A e \in Clients : m \notin K[e]
  BY DEF Apart
<1>2. \A e \in Clients : e = c \/ (K2[e] = K[e] /\ R2[e] = R[e])
  BY DEF OthersHave
<1>3. \A d, e \in Clients : d # e => K2[d] \cap K2[e] = {}
  BY <1>1, <1>2 DEF Apart
<1>4. \A e \in Clients : /\ R2[e] \subseteq K2[e] /\ K2[e] \cap Q = {} /\ K2[e] \cap T = {}
                         /\ K2[e] \cap D = {} /\ K2[e] \subseteq S \cup {m} /\ R2[e] \cap A = {}
  <2> TAKE e \in Clients
  <2>1. CASE e = c
    BY <1>1, <2>1
  <2>2. CASE e # c
    BY <1>2, <2>2 DEF Apart
  <2> QED
    BY <2>1, <2>2
<1>5. Apart(Q, T, K2, R2, D, A, S \cup {m})
  BY <1>3, <1>4 DEF Apart
<1> QED
  BY <1>2, <1>5 DEF GoneOf

LEMMA TakenHome ==
    ASSUME NEW Q, NEW T, NEW K, NEW R, NEW D, NEW A, NEW S, Apart(Q, T, K, R, D, A, S),
           NEW c \in Clients, NEW K2, NEW R2, OthersHave(c, K, K2), OthersHave(c, R, R2),
           NEW m \in K[c], K[c] = {m}, K2[c] = {}, R2[c] = {}
    PROVE  /\ Apart(Q, T, K2, R2, D \cup {m}, A, S)
           /\ GoneOf(Q, T, K2, D \cup {m}, A) \subseteq GoneOf(Q, T, K, D, A)
<1>1. m \notin Q /\ m \notin T /\ m \in S /\ \A e \in Clients \ {c} : m \notin K[e]
  BY DEF Apart
<1>2. \A e \in Clients : e = c \/ (K2[e] = K[e] /\ R2[e] = R[e])
  BY DEF OthersHave
<1>3. \A d, e \in Clients : d # e => K2[d] \cap K2[e] = {}
  BY <1>2 DEF Apart
<1>4. \A e \in Clients : /\ R2[e] \subseteq K2[e] /\ K2[e] \cap Q = {} /\ K2[e] \cap T = {}
                         /\ K2[e] \cap (D \cup {m}) = {} /\ K2[e] \subseteq S /\ R2[e] \cap A = {}
  <2> TAKE e \in Clients
  <2>1. CASE e = c
    BY <2>1
  <2>2. CASE e # c
    BY <1>1, <1>2, <2>2 DEF Apart
  <2> QED
    BY <2>1, <2>2
<1>5. Apart(Q, T, K2, R2, D \cup {m}, A, S)
  <2>1. Q \cap (D \cup {m}) = {} /\ T \cap (D \cup {m}) = {} /\ D \cup {m} \subseteq S
    BY <1>1 DEF Apart
  <2> QED
    BY <1>3, <1>4, <2>1 DEF Apart
<1> QED
  BY <1>2, <1>5 DEF GoneOf

LEMMA QueuedUp ==
    ASSUME NEW Q, NEW T, NEW K, NEW R, NEW D, NEW A, NEW S, Apart(Q, T, K, R, D, A, S),
           NEW c \in Clients, NEW K2, NEW R2, OthersHave(c, K, K2), OthersHave(c, R, R2),
           NEW m \in K[c], K[c] = {m}, K2[c] = {}, R2[c] = {}
    PROVE  /\ Apart(Q \cup {m}, T, K2, R2, D, A, S)
           /\ GoneOf(Q \cup {m}, T, K2, D, A) \subseteq GoneOf(Q, T, K, D, A)
           /\ m \notin Q /\ m \notin T
<1>1. m \notin Q /\ m \notin T /\ m \notin D /\ m \in S /\ \A e \in Clients \ {c} : m \notin K[e]
  BY DEF Apart
<1>2. \A e \in Clients : e = c \/ (K2[e] = K[e] /\ R2[e] = R[e])
  BY DEF OthersHave
<1>3. \A d, e \in Clients : d # e => K2[d] \cap K2[e] = {}
  BY <1>2 DEF Apart
<1>4. \A e \in Clients : /\ R2[e] \subseteq K2[e] /\ K2[e] \cap (Q \cup {m}) = {} /\ K2[e] \cap T = {}
                         /\ K2[e] \cap D = {} /\ K2[e] \subseteq S /\ R2[e] \cap A = {}
  <2> TAKE e \in Clients
  <2>1. CASE e = c
    BY <2>1
  <2>2. CASE e # c
    BY <1>1, <1>2, <2>2 DEF Apart
  <2> QED
    BY <2>1, <2>2
<1>5. Apart(Q \cup {m}, T, K2, R2, D, A, S)
  <2>1. /\ (Q \cup {m}) \cap T = {} /\ (Q \cup {m}) \cap D = {} /\ Q \cup {m} \subseteq S
        /\ A \subseteq S /\ T \cap D = {} /\ T \subseteq S /\ D \subseteq S
    BY <1>1 DEF Apart
  <2> QED
    BY <1>3, <1>4, <2>1 DEF Apart
<1> QED
  BY <1>1, <1>2, <1>5 DEF GoneOf

LEMMA AcceptedToo ==
    ASSUME NEW Q, NEW T, NEW K, NEW R, NEW D, NEW A, NEW S, Apart(Q, T, K, R, D, A, S),
           NEW m \in Q, NEW A2, A2 = A \/ A2 = A \cup {m}
    PROVE  /\ Apart(Q, T, K, R, D, A2, S)
           /\ GoneOf(Q, T, K, D, A2) \subseteq GoneOf(Q, T, K, D, A)
<1>1. \A e \in Clients : R[e] \cap A2 = {}
  BY DEF Apart
<1>2. A2 \subseteq S
  BY DEF Apart
<1> QED
  BY <1>1, <1>2 DEF Apart, GoneOf

LEMMA TakenOut ==
    ASSUME NEW Q, NEW T, NEW K, NEW R, NEW D, NEW A, NEW S, Apart(Q, T, K, R, D, A, S),
           NEW c \in Clients, NEW K2, NEW R2, OthersHave(c, K, K2), OthersHave(c, R, R2),
           NEW m \in Q, K[c] = {}, K2[c] = {m}, R2[c] = {}
    PROVE  /\ Apart(Q \ {m}, T, K2, R2, D, A, S)
           /\ GoneOf(Q \ {m}, T, K2, D, A) \subseteq GoneOf(Q, T, K, D, A)
<1>1. m \notin T /\ m \notin D /\ m \in S /\ \A e \in Clients : m \notin K[e]
  BY DEF Apart
<1>2. \A e \in Clients : e = c \/ (K2[e] = K[e] /\ R2[e] = R[e])
  BY DEF OthersHave
<1>3. \A d, e \in Clients : d # e => K2[d] \cap K2[e] = {}
  BY <1>1, <1>2 DEF Apart
<1>4. \A e \in Clients : /\ R2[e] \subseteq K2[e] /\ K2[e] \cap (Q \ {m}) = {} /\ K2[e] \cap T = {}
                         /\ K2[e] \cap D = {} /\ K2[e] \subseteq S /\ R2[e] \cap A = {}
  <2> TAKE e \in Clients
  <2>1. CASE e = c
    BY <1>1, <2>1
  <2>2. CASE e # c
    BY <1>1, <1>2, <2>2 DEF Apart
  <2> QED
    BY <2>1, <2>2
<1>5. Apart(Q \ {m}, T, K2, R2, D, A, S)
  <2>1. /\ (Q \ {m}) \cap T = {} /\ (Q \ {m}) \cap D = {} /\ Q \ {m} \subseteq S
    BY DEF Apart
  <2> QED
    BY <1>3, <1>4, <2>1 DEF Apart
<1>6. GoneOf(Q \ {m}, T, K2, D, A) \subseteq GoneOf(Q, T, K, D, A)
  <2> SUFFICES ASSUME NEW x \in GoneOf(Q \ {m}, T, K2, D, A) PROVE x \in GoneOf(Q, T, K, D, A)
    OBVIOUS
  <2>1. /\ x \in A /\ x \notin Q \ {m} /\ x \notin T /\ x \notin D
        /\ \A e \in Clients : x \notin K2[e]
    BY DEF GoneOf
  <2>2. x # m
    BY <2>1
  <2>3. \A e \in Clients : x \notin K[e]
    BY <1>2, <2>1
  <2> QED
    BY <2>1, <2>2, <2>3 DEF GoneOf
<1> QED
  BY <1>5, <1>6

-----------------------------------------------------------------------------
(* The queues' sequences: what an append and a take do to what is in them. *)

Sequences == [Queues -> Seq(Messages)]

LEMMA AppendedOnce ==
    ASSUME NEW f \in Sequences, Once(f), NEW q \in Queues, NEW m \in Messages, m \notin In(f),
           NEW g, g = [f EXCEPT ![q] = Append(f[q], m)]
    PROVE  g \in Sequences /\ Once(g) /\ In(g) = In(f) \cup {m}
<1> DEFINE n == Len(f[q])
           s == Append(f[q], m)
<1>1. /\ f[q] \in Seq(Messages) /\ n \in Nat /\ DOMAIN f[q] = 1..n
      /\ s \in Seq(Messages) /\ DOMAIN s = 1..(n + 1) /\ s[n + 1] = m
      /\ \A i \in 1..n : s[i] = f[q][i]
  BY DEF Sequences
<1>2. g \in Sequences /\ g[q] = s /\ \A r \in Queues \ {q} : g[r] = f[r]
  BY <1>1 DEF Sequences
<1> HIDE DEF s, n
<1>3. ASSUME NEW r \in Queues, NEW i \in DOMAIN g[r]
      PROVE  \/ r = q /\ i = n + 1 /\ g[r][i] = m
             \/ i \in DOMAIN f[r] /\ g[r][i] = f[r][i] /\ (r = q => i # n + 1)
  <2>1. CASE r = q
    <3>1. i \in 1..(n + 1)
      BY <1>1, <1>2, <1>3, <2>1
    <3>2. CASE i = n + 1
      BY <1>1, <1>2, <2>1, <3>2
    <3>3. CASE i # n + 1
      <4>1. i \in 1..n
        BY <1>1, <3>1, <3>3
      <4> QED
        BY <1>1, <1>2, <2>1, <3>3, <4>1
    <3> QED
      BY <3>2, <3>3
  <2>2. CASE r # q
    BY <1>2, <1>3, <2>2
  <2> QED
    BY <2>1, <2>2
<1>4. ASSUME NEW r \in Queues, NEW i \in DOMAIN f[r]
      PROVE  i \in DOMAIN g[r] /\ g[r][i] = f[r][i]
  <2>1. CASE r = q
    <3>1. i \in 1..n /\ i \in 1..(n + 1)
      BY <1>1, <1>4, <2>1
    <3> QED
      BY <1>1, <1>2, <2>1, <3>1
  <2>2. CASE r # q
    BY <1>2, <1>4, <2>2
  <2> QED
    BY <2>1, <2>2
<1>5. \A r \in Queues : \A i \in DOMAIN f[r] : f[r][i] # m
  BY DEF In
<1>6. Once(g)
  <2> SUFFICES ASSUME NEW r \in Queues, NEW t \in Queues, NEW i \in DOMAIN g[r], NEW j \in DOMAIN g[t],
                      g[r][i] = g[t][j]
               PROVE  r = t /\ i = j
    BY DEF Once
  <2>1. CASE g[r][i] = m
    BY <1>3, <1>5, <2>1
  <2>2. CASE g[r][i] # m
    <3>1. i \in DOMAIN f[r] /\ j \in DOMAIN f[t] /\ f[r][i] = f[t][j]
      BY <1>3, <2>2
    <3> QED
      BY <3>1 DEF Once
  <2> QED
    BY <2>1, <2>2
<1>7. In(g) \subseteq In(f) \cup {m}
  BY <1>3 DEF In
<1>8. In(f) \subseteq In(g)
  BY <1>4 DEF In
<1>9. m \in In(g)
  <2>1. n + 1 \in DOMAIN g[q] /\ g[q][n + 1] = m
    BY <1>1, <1>2
  <2> QED
    BY <2>1 DEF In
<1> QED
  BY <1>2, <1>6, <1>7, <1>8, <1>9

LEMMA TakenOnce ==
    ASSUME NEW f \in Sequences, Once(f), NEW q \in Queues, f[q] # <<>>,
           NEW g, g = [f EXCEPT ![q] = Tail(f[q])]
    PROVE  /\ g \in Sequences /\ Once(g) /\ In(g) = In(f) \ {Head(f[q])}
           /\ Head(f[q]) \in In(f) /\ Head(f[q]) \in Messages
<1> DEFINE n == Len(f[q])
           s == Tail(f[q])
           m == Head(f[q])
<1>1. /\ f[q] \in Seq(Messages) /\ n \in Nat \ {0} /\ DOMAIN f[q] = 1..n /\ m = f[q][1]
      /\ s \in Seq(Messages) /\ DOMAIN s = 1..(n - 1) /\ \A i \in 1..(n - 1) : s[i] = f[q][i + 1]
  <2>1. f[q] \in Seq(Messages)
    BY DEF Sequences
  <2>2. \A t \in Seq(Messages) : t # <<>> =>
            /\ Len(t) \in Nat \ {0} /\ DOMAIN t = 1..Len(t) /\ Head(t) = t[1]
            /\ Tail(t) \in Seq(Messages) /\ DOMAIN Tail(t) = 1..(Len(t) - 1)
            /\ \A i \in 1..(Len(t) - 1) : Tail(t)[i] = t[i + 1]
    OBVIOUS
  <2> QED
    BY <2>1, <2>2
<1>2. g \in Sequences /\ g[q] = s /\ \A r \in Queues \ {q} : g[r] = f[r]
  BY <1>1 DEF Sequences
<1> HIDE DEF s, n, m
<1> DEFINE was(r, i) == IF r = q THEN i + 1 ELSE i
<1>3. ASSUME NEW r \in Queues, NEW i \in DOMAIN g[r]
      PROVE  /\ was(r, i) \in DOMAIN f[r] /\ g[r][i] = f[r][was(r, i)]
             /\ r = q => i \in Nat /\ was(r, i) # 1
  <2>1. CASE r = q
    <3>1. i \in 1..(n - 1) /\ i + 1 \in 1..n /\ i + 1 # 1
      BY <1>1, <1>2, <1>3, <2>1
    <3> QED
      BY <1>1, <1>2, <2>1, <3>1
  <2>2. CASE r # q
    BY <1>2, <1>3, <2>2
  <2> QED
    BY <2>1, <2>2
<1>4. 1 \in DOMAIN f[q] /\ f[q][1] = m
  BY <1>1
<1>5. ASSUME NEW r \in Queues, NEW i \in DOMAIN f[r], f[r][i] # m
      PROVE  \E j \in DOMAIN g[r] : g[r][j] = f[r][i]
  <2>1. CASE r = q
    <3>1. i \in 1..n /\ i # 1
      BY <1>1, <1>4, <1>5, <2>1
    <3>2. i - 1 \in 1..(n - 1) /\ (i - 1) + 1 = i
      BY <1>1, <3>1
    <3>3. i - 1 \in DOMAIN g[r] /\ g[r][i - 1] = f[r][i]
      BY <1>1, <1>2, <2>1, <3>2
    <3> QED
      BY <3>3
  <2>2. CASE r # q
    BY <1>2, <1>5, <2>2
  <2> QED
    BY <2>1, <2>2
<1>6. Once(g)
  <2> SUFFICES ASSUME NEW r \in Queues, NEW t \in Queues, NEW i \in DOMAIN g[r], NEW j \in DOMAIN g[t],
                      g[r][i] = g[t][j]
               PROVE  r = t /\ i = j
    BY DEF Once
  <2>1. /\ was(r, i) \in DOMAIN f[r] /\ was(t, j) \in DOMAIN f[t]
        /\ f[r][was(r, i)] = f[t][was(t, j)]
    <3>1. g[r][i] = f[r][was(r, i)] /\ g[t][j] = f[t][was(t, j)]
      BY <1>3
    <3>2. was(r, i) \in DOMAIN f[r] /\ was(t, j) \in DOMAIN f[t]
      BY <1>3
    <3> HIDE DEF was
    <3> QED
      BY <3>1, <3>2
  <2>2. r = t /\ was(r, i) = was(t, j)
    <3> HIDE DEF was
    <3> QED
      BY <2>1 DEF Once
  <2>3. CASE r = q
    <3>1. i \in Nat /\ j \in Nat /\ i + 1 = j + 1
      BY <1>3, <2>2, <2>3
    <3>2. i = j
      BY <3>1
    <3> QED
      BY <2>2, <3>2
  <2>4. CASE r # q
    BY <2>2, <2>4
  <2> QED
    BY <2>3, <2>4
<1>7. In(g) \subseteq In(f)
  BY <1>3 DEF In
<1>8. m \notin In(g)
  <2> SUFFICES ASSUME NEW r \in Queues, NEW i \in DOMAIN g[r], g[r][i] = m PROVE FALSE
    BY DEF In
  <2>1. was(r, i) \in DOMAIN f[r] /\ f[r][was(r, i)] = f[q][1] /\ (r = q => was(r, i) # 1)
    BY <1>3, <1>4
  <2> HIDE DEF was
  <2> QED
    BY <1>4, <2>1 DEF Once
<1>9. In(f) \ {m} \subseteq In(g)
  BY <1>5 DEF In
<1>10. m \in In(f) /\ m \in Messages
  <2>1. m \in In(f)
    BY <1>4 DEF In
  <2> QED
    BY <1>1, <2>1
<1> QED
  BY <1>2, <1>6, <1>7, <1>8, <1>9, <1>10 DEF m

-----------------------------------------------------------------------------
(* What the connections have, and what a step about one of them changes.   *)

LEMMA CargoAt ==
    ASSUME NEW c \in Clients
    PROVE  /\ Cargoes[c] = CargoOf(toServer[c], toClient[c], worker[c])
           /\ Askings[c] = Asking(toServer[c], worker[c])
           /\ Cargoes'[c] = CargoOf(toServer'[c], toClient'[c], worker'[c])
           /\ Askings'[c] = Asking(toServer'[c], worker'[c])
  BY DEF Cargoes, Askings

Elsewhere(c) == \A e \in Clients \ {c} :
    /\ pc'[e] = pc[e] /\ toServer'[e] = toServer[e] /\ toClient'[e] = toClient[e]
    /\ worker'[e] = worker[e]

LEMMA ClientElsewhere ==
    ASSUME ConnectionsTyped, NEW c \in Clients, ClientStep(c) \/ ClientCall(c)
    PROVE  Elsewhere(c)
<1>1. CASE ReceivesReply(c)
  BY <1>1 DEF ReceivesReply, ConnectionOf, ConnectionsTyped, Elsewhere
<1>2. CASE ReceivesData(c)
  BY <1>2 DEF ReceivesData, ConnectionOf, ConnectionsTyped, Elsewhere
<1>3. CASE Connects(c)
  BY <1>3 DEF Connects, ConnectionOf, ConnectionsTyped, Elsewhere
<1>4. CASE Closes(c)
  BY <1>4 DEF Closes, ConnectionOf, ConnectionsTyped, Elsewhere
<1>5. ASSUME NEW r, Requested(c, r) PROVE Elsewhere(c)
  BY <1>5 DEF Requested, ConnectionOf, ConnectionsTyped, Elsewhere
<1> QED
  BY <1>1, <1>2, <1>3, <1>4, <1>5 DEF ClientStep, ClientCall, SendsGet, SendsPut, JavaSendsPut

(* All but the two actions of a pair of workers. *)
WorkerAlone(c) ==
    \/ Accepts(c) \/ Receives(c) \/ ReceiveFails(c)
    \/ PutQueues(c) \/ PutTimesOut(c) \/ GetPops(c) \/ GetTimesOut(c)
    \/ SendsReply(c) \/ SendsData(c)

LEMMA WorkerElsewhere ==
    ASSUME ConnectionsTyped, NEW c \in Clients, WorkerAlone(c)
    PROVE  Elsewhere(c) /\ pc' = pc
<1> USE DEF ConnectionsTyped, Elsewhere, Set, clientVars
<1>1. CASE Accepts(c)
  BY <1>1 DEF Accepts
<1>2. CASE Receives(c)
  BY <1>2 DEF Receives
<1>3. CASE ReceiveFails(c)
  BY <1>3 DEF ReceiveFails
<1>4. CASE PutQueues(c)
  BY <1>4 DEF PutQueues
<1>5. CASE PutTimesOut(c)
  BY <1>5 DEF PutTimesOut
<1>6. CASE GetPops(c)
  BY <1>6 DEF GetPops
<1>7. CASE GetTimesOut(c)
  BY <1>7 DEF GetTimesOut
<1>8. CASE SendsReply(c)
  BY <1>8 DEF SendsReply, Delivered
<1>9. CASE SendsData(c)
  BY <1>9 DEF SendsData, Delivered
<1> QED
  BY <1>1, <1>2, <1>3, <1>4, <1>5, <1>6, <1>7, <1>8, <1>9 DEF WorkerAlone

LEMMA OthersKeep ==
    ASSUME NEW c \in Clients, Elsewhere(c)
    PROVE  /\ OthersHave(c, Cargoes, Cargoes') /\ OthersHave(c, Askings, Askings')
           /\ (c \in Spent => c \in Spent') => Spent \subseteq Spent'
<1>1. ASSUME NEW e \in Clients \ {c}
      PROVE  Cargoes'[e] = Cargoes[e] /\ Askings'[e] = Askings[e]
  BY CargoAt DEF Elsewhere
<1>2. ASSUME c \in Spent => c \in Spent' PROVE Spent \subseteq Spent'
  BY <1>2 DEF Spent, Elsewhere, Clients
<1> QED
  BY <1>1, <1>2 DEF OthersHave

(* The consumers that are spent pay for what is gone. *)
LEMMA NoneLost ==
    ASSUME LossCounted, Gone' \subseteq Gone, Spent \subseteq Spent'
    PROVE  LossCounted'
<1>2. IsFiniteSet(Spent) /\ IsFiniteSet(Spent')
  <2>1. Spent \subseteq Clients /\ Spent' \subseteq Clients
    BY DEF Spent, Clients
  <2> QED
    BY <2>1, ServerAssumption, FS_Subset
<1>3. Cardinality(Spent) <= Cardinality(Spent') /\ Cardinality(Spent) \in Nat /\ Cardinality(Spent') \in Nat
  BY <1>2, FS_Subset, FS_CardinalityType
<1>4. IsFiniteSet(Gone') /\ Cardinality(Gone') <= Cardinality(Gone)
      /\ Cardinality(Gone) \in Nat /\ Cardinality(Gone') \in Nat
  BY FS_Subset, FS_CardinalityType DEF LossCounted
<1> QED
  BY <1>3, <1>4 DEF LossCounted

LEMMA OneLost ==
    ASSUME LossCounted, NEW m, Gone' \subseteq Gone \cup {m},
           Spent \subseteq Spent', NEW c \in Spent', c \notin Spent
    PROVE  LossCounted'
<1>2. IsFiniteSet(Spent) /\ IsFiniteSet(Spent')
  <2>1. Spent \subseteq Clients /\ Spent' \subseteq Clients
    BY DEF Spent, Clients
  <2> QED
    BY <2>1, ServerAssumption, FS_Subset
<1>3. /\ IsFiniteSet(Spent \cup {c}) /\ Cardinality(Spent \cup {c}) = Cardinality(Spent) + 1
      /\ Spent \cup {c} \subseteq Spent'
  BY <1>2, FS_AddElement
<1>4. Cardinality(Spent) + 1 <= Cardinality(Spent') /\ Cardinality(Spent) \in Nat /\ Cardinality(Spent') \in Nat
  BY <1>2, <1>3, FS_Subset, FS_CardinalityType
<1>5. /\ IsFiniteSet(Gone \cup {m}) /\ Cardinality(Gone) \in Nat
      /\ Cardinality(Gone \cup {m}) \in Nat /\ Cardinality(Gone \cup {m}) <= Cardinality(Gone) + 1
  <2>1. IsFiniteSet(Gone) /\ Cardinality(Gone) \in Nat
    BY FS_CardinalityType DEF LossCounted
  <2>2. IsFiniteSet(Gone \cup {m})
        /\ Cardinality(Gone \cup {m}) = IF m \in Gone THEN Cardinality(Gone) ELSE Cardinality(Gone) + 1
    BY <2>1, FS_AddElement
  <2> QED
    BY <2>1, <2>2
<1>6. IsFiniteSet(Gone') /\ Cardinality(Gone') <= Cardinality(Gone \cup {m}) /\ Cardinality(Gone') \in Nat
  BY <1>5, FS_Subset, FS_CardinalityType
<1> QED
  BY <1>4, <1>5, <1>6 DEF LossCounted

Conserved == MessagesApart /\ LossCounted

(* A step that changes what one connection has: nothing is lost but what   *)
(* was still to be put, or one message for a consumer that is now spent.   *)
LEMMA ConnectionShrinks ==
    ASSUME Conserved, NEW c \in Clients, Elsewhere(c), UNCHANGED <<queueVars, historyVars>>,
           c \in Spent => c \in Spent',
           Cargoes'[c] \subseteq Cargoes[c], Askings'[c] \subseteq Askings[c],
           \/ Cargoes[c] \subseteq Cargoes'[c] \cup Askings[c]
           \/ /\ \E m : Cargoes[c] \subseteq Cargoes'[c] \cup Askings[c] \cup {m}
              /\ c \in Spent' /\ c \notin Spent
    PROVE  Conserved'
<1>1. /\ Once(queue) /\ Once(temp)
      /\ Apart(In(queue), In(temp), Cargoes, Askings, delivered, accepted, sent)
  BY DEF Conserved, MessagesApart
<1>2. queue' = queue /\ temp' = temp /\ sent' = sent /\ accepted' = accepted /\ delivered' = delivered
  BY DEF queueVars, historyVars
<1>3. In(queue)' = In(queue) /\ In(temp)' = In(temp) /\ Once(queue)' /\ Once(temp)'
  BY <1>1, <1>2 DEF In, Once
<1>4. /\ OthersHave(c, Cargoes, Cargoes') /\ OthersHave(c, Askings, Askings')
      /\ Spent \subseteq Spent'
  BY OthersKeep
<1>5. Askings'[c] \subseteq Cargoes'[c]
  BY CargoAt DEF CargoOf
<1>6. /\ Apart(In(queue), In(temp), Cargoes', Askings', delivered, accepted, sent)
      /\ GoneOf(In(queue), In(temp), Cargoes', delivered, accepted)
            \subseteq Gone \cup (Cargoes[c] \ (Cargoes'[c] \cup Askings[c]))
  <2> DEFINE K2 == Cargoes'
             R2 == Askings'
             Q == In(queue)
             T == In(temp)
  <2>1. /\ Apart(Q, T, Cargoes, Askings, delivered, accepted, sent)
        /\ OthersHave(c, Cargoes, K2) /\ OthersHave(c, Askings, R2)
        /\ K2[c] \subseteq Cargoes[c] /\ R2[c] \subseteq Askings[c] /\ R2[c] \subseteq K2[c]
        /\ Gone = GoneOf(Q, T, Cargoes, delivered, accepted)
    BY <1>1, <1>4, <1>5 DEF Gone
  <2> HIDE DEF K2, R2, Q, T
  <2>2. /\ Apart(Q, T, K2, R2, delivered, accepted, sent)
        /\ GoneOf(Q, T, K2, delivered, accepted) \subseteq Gone \cup (Cargoes[c] \ (K2[c] \cup Askings[c]))
    BY ONLY <2>1, c \in Clients, Shrunk
  <2> QED
    BY <2>2 DEF K2, R2, Q, T
<1>7. Gone' \subseteq Gone \cup (Cargoes[c] \ (Cargoes'[c] \cup Askings[c]))
  BY <1>2, <1>3, <1>6 DEF Gone
<1>8. MessagesApart'
  BY <1>2, <1>3, <1>6 DEF MessagesApart
<1>9. LossCounted'
  <2>1. CASE Cargoes[c] \subseteq Cargoes'[c] \cup Askings[c]
    <3>1. Gone' \subseteq Gone
      BY <1>7, <2>1
    <3> QED
      BY <1>4, <3>1, NoneLost DEF Conserved
  <2>2. CASE /\ \E m : Cargoes[c] \subseteq Cargoes'[c] \cup Askings[c] \cup {m}
             /\ c \in Spent' /\ c \notin Spent
    <3>1. PICK m : Cargoes[c] \subseteq Cargoes'[c] \cup Askings[c] \cup {m}
      BY <2>2
    <3>2. Gone' \subseteq Gone \cup {m}
      BY <1>7, <3>1
    <3> QED
      BY <1>4, <2>2, <3>2, OneLost DEF Conserved
  <2> QED
    BY <2>1, <2>2
<1> QED
  BY <1>8, <1>9 DEF Conserved

-----------------------------------------------------------------------------
(* What a connection has, by its bytes and its worker. *)

LEMMA FramesApart ==
    Head_ \notin Messages /\ Head_ \notin Replies /\ \A r \in Replies : r \notin Messages
<1>1. \A r \in Replies : DOMAIN r = {"result", "msg_len", "msg"}
  BY DEF Replies
<1>2. DOMAIN Head_ = {"frame"}
  BY DEF Head_
<1>3. Head_ \notin Replies
  <2>1. "msg" \notin {"frame"} /\ "msg" \in {"result", "msg_len", "msg"}
    OBVIOUS
  <2> QED
    BY <1>1, <1>2, <2>1
<1> QED
  BY <1>3, FramesAssumption

LEMMA AskingIs ==
    ASSUME NEW ts, NEW w
    PROVE  /\ Len(ts) # 2 /\ (w.at # "put" \/ w.msg \notin Messages) => Asking(ts, w) = {}
           /\ Len(ts) = 2 /\ w.at # "put" =>
                 Asking(ts, w) = IF ts[2].msg \in Messages THEN {ts[2].msg} ELSE {}
           /\ Len(ts) # 2 /\ w.at = "put" /\ w.msg \in Messages => Asking(ts, w) = {w.msg}
  BY DEF Asking

LEMMA NothingAsked ==
    ASSUME NEW w
    PROVE  /\ w.at # "put" => Asking(<<>>, w) = {}
           /\ w.at = "put" /\ w.msg \in Messages => Asking(<<>>, w) = {w.msg}
<1>1. Len(<<>>) # 2
  OBVIOUS
<1> QED
  BY <1>1, AskingIs

LEMMA InHandIs ==
    ASSUME NEW w
    PROVE  InHandOf(w) = IF w.at \in Holding /\ w.msg \in Messages THEN {w.msg} ELSE {}
  BY DEF InHandOf

LEMMA OnWayIs ==
    ASSUME NEW tc \in Seq(ClientBytes)
    PROVE  /\ tc = <<>> => OnWay(tc) = {}
           /\ Len(tc) = 1 /\ tc[1] \in Messages => OnWay(tc) = {tc[1]}
           /\ Len(tc) = 2 /\ tc[1] = Head_ /\ tc[2] \in Replies =>
                 OnWay(tc) = IF tc[2].msg = None THEN {} ELSE {tc[2].msg}
           /\ Len(tc) = 3 /\ tc[1] = Head_ /\ tc[2] \in Replies /\ tc[2].msg = None /\ tc[3] \in Messages =>
                 OnWay(tc) = {tc[3]}
<1>1. DOMAIN tc = 1..Len(tc)
  OBVIOUS
<1>2. None \notin Messages /\ \A r \in Replies : r.msg \in Messages \cup {None} /\ r \notin Messages
  BY FramesApart, ServerAssumption DEF Replies
<1>3. ASSUME tc = <<>> PROVE OnWay(tc) = {}
  BY <1>3 DEF OnWay
<1>4. ASSUME Len(tc) = 1, tc[1] \in Messages PROVE OnWay(tc) = {tc[1]}
  <2>1. DOMAIN tc = {1} /\ tc[1] \notin Replies
    BY <1>1, <1>2, <1>4
  <2> QED
    BY <1>4, <2>1 DEF OnWay
<1>5. ASSUME Len(tc) = 2, tc[1] = Head_, tc[2] \in Replies
      PROVE  OnWay(tc) = IF tc[2].msg = None THEN {} ELSE {tc[2].msg}
  <2>1. DOMAIN tc = {1, 2}
    BY <1>1, <1>5
  <2>2. tc[1] \notin Messages /\ tc[1] \notin Replies /\ tc[2] \notin Messages
    BY <1>2, <1>5, FramesApart
  <2>3. OnWay(tc) = {m \in Messages : tc[2].msg = m}
    BY <1>5, <2>1, <2>2 DEF OnWay
  <2> QED
    BY <1>2, <1>5, <2>3
<1>6. ASSUME Len(tc) = 3, tc[1] = Head_, tc[2] \in Replies, tc[2].msg = None, tc[3] \in Messages
      PROVE  OnWay(tc) = {tc[3]}
  <2>1. DOMAIN tc = {1, 2, 3}
    BY <1>1, <1>6
  <2>2. /\ tc[1] \notin Messages /\ tc[1] \notin Replies /\ tc[2] \notin Messages
        /\ tc[3] \notin Replies /\ tc[2].msg \notin Messages
    BY <1>2, <1>6, FramesApart
  <2> QED
    BY <1>6, <2>1, <2>2 DEF OnWay
<1> QED
  BY <1>3, <1>4, <1>5, <1>6

(* A connection where nothing is on its way. *)
LEMMA CargoOfWorker ==
    ASSUME NEW w
    PROVE  CargoOf(<<>>, <<>>, w) =
               IF w.at \in Holding \cup {"put"} /\ w.msg \in Messages THEN {w.msg} ELSE {}
<1>1. <<>> \in Seq(ClientBytes)
  OBVIOUS
<1>2. OnWay(<<>>) = {}
  BY <1>1, OnWayIs
<1>3. Asking(<<>>, w) = IF w.at = "put" /\ w.msg \in Messages THEN {w.msg} ELSE {}
  <2>1. CASE w.at = "put" /\ w.msg \in Messages
    BY <2>1, NothingAsked
  <2>2. CASE w.at # "put"
    BY <2>2, NothingAsked
  <2>3. CASE w.msg \notin Messages
    <3>1. Len(<<>>) # 2
      OBVIOUS
    <3> QED
      BY <2>3, <3>1, AskingIs
  <2> QED
    BY <2>1, <2>2, <2>3
<1> QED
  BY <1>2, <1>3, InHandIs DEF CargoOf

-----------------------------------------------------------------------------
(* Each action keeps the messages apart and the losses counted. *)

LEMMA SpentAt ==
    ASSUME Sound, NEW c \in Clients
    PROVE  /\ c \in Spent <=> /\ c \in Consumers /\ pc[c] = "closed" /\ Len(toServer[c]) < 2
                              /\ worker[c].at \in Resting
           /\ c \in Spent' <=> /\ c \in Consumers /\ pc'[c] = "closed" /\ Len(toServer'[c]) < 2
                               /\ worker'[c].at \in Resting
           /\ open[c] => pc[c] # "closed" /\ c \notin Spent
           /\ ~open[c] => pc[c] \in {"new", "closed"}
<1>1. open[c] <=> pc[c] \notin {"new", "closed"}
  BY AtConnection DEF Sound, Connection
<1> QED
  BY <1>1 DEF Spent

LEMMA ConnectsKeeps ==
    ASSUME Sound, Conserved, NEW c \in Clients, Connects(c)
    PROVE  Conserved'
<1>1. /\ UNCHANGED <<queueVars, historyVars>> /\ pc[c] = "new"
      /\ toServer' = toServer /\ toClient' = toClient /\ worker' = worker
  BY DEF Connects
<1>2. Cargoes'[c] = Cargoes[c] /\ Askings'[c] = Askings[c]
  BY <1>1, CargoAt
<1>3. Elsewhere(c)
  BY ClientElsewhere DEF Sound, ClientCall
<1>4. c \notin Spent
  BY <1>1 DEF Spent
<1> QED
  BY <1>1, <1>2, <1>3, <1>4, ConnectionShrinks

(* The idle client's request is all its connection has. *)
LEMMA RequestCargo ==
    ASSUME Sound, NEW c \in Clients, pc[c] = "idle", NEW r, Requested(c, r)
    PROVE  /\ Cargoes[c] = {} /\ Askings[c] = {}
           /\ Cargoes'[c] = IF r.msg \in Messages THEN {r.msg} ELSE {}
           /\ Askings'[c] = Cargoes'[c]
<1>1. /\ toServer[c] = <<>> /\ toClient[c] = <<>> /\ worker[c].at \in {"none", "receive"}
  BY AtConnection DEF Sound, Connection, ToServerStands, ToClientStands
<1>2. worker[c].at \notin Holding \cup {"put"}
  BY <1>1 DEF Holding
<1>3. Cargoes[c] = {} /\ Askings[c] = {}
  BY <1>1, <1>2, CargoAt, CargoOfWorker, NothingAsked
<1>4. toServer'[c] = <<Head_, r>> /\ toClient'[c] = <<>> /\ worker'[c] = worker[c]
  BY <1>1 DEF Requested, Sound, ConnectionsTyped
<1>5. Asking(<<Head_, r>>, worker[c]) = IF r.msg \in Messages THEN {r.msg} ELSE {}
  <2> DEFINE ts == <<Head_, r>>
  <2>1. Len(ts) = 2 /\ ts[2] = r
    OBVIOUS
  <2> HIDE DEF ts
  <2>2. worker[c].at # "put"
    BY <1>1
  <2>3. Asking(ts, worker[c]) = IF r.msg \in Messages THEN {r.msg} ELSE {}
    BY <2>1, <2>2, AskingIs
  <2> QED
    BY <2>3 DEF ts
<1>6. OnWay(<<>>) = {} /\ InHandOf(worker[c]) = {}
  <2>1. <<>> \in Seq(ClientBytes)
    OBVIOUS
  <2> QED
    BY <1>2, <2>1, OnWayIs, InHandIs
<1> QED
  BY <1>3, <1>4, <1>5, <1>6, CargoAt DEF CargoOf

LEMMA SendsGetKeeps ==
    ASSUME Sound, Conserved, NEW c \in Clients, NEW n \in Asked, NEW w \in Waits[c], SendsGet(c, n, w)
    PROVE  Conserved'
<1> DEFINE r == [type |-> "get", qname |-> n, msg |-> None, wait |-> w]
<1>1. pc[c] = "idle" /\ Requested(c, r) /\ UNCHANGED <<queueVars, historyVars>> /\ r.msg \notin Messages
  BY ServerAssumption DEF SendsGet, Requested, historyVars
<1> HIDE DEF r
<1>2. Cargoes[c] = {} /\ Askings[c] = {} /\ Cargoes'[c] = {} /\ Askings'[c] = {}
  BY <1>1, RequestCargo
<1>3. Elsewhere(c)
  BY ClientElsewhere DEF Sound, ClientCall
<1>4. c \notin Spent
  BY <1>1 DEF Spent
<1> QED
  BY <1>1, <1>2, <1>3, <1>4, ConnectionShrinks

LEMMA SendsPutKeeps ==
    ASSUME Sound, Conserved, NEW c \in Clients, NEW n \in Asked, NEW w \in Waits[c], NEW m \in Messages,
           SendsPut(c, m, n, w) \/ JavaSendsPut(c, m, n, w)
    PROVE  Conserved'
<1> DEFINE r == [type |-> "put", qname |-> n, msg |-> m, wait |-> w]
           K2 == Cargoes'
           R2 == Askings'
<1>1. /\ pc[c] = "idle" /\ Requested(c, r) /\ m \notin sent /\ sent' = sent \cup {m} /\ r.msg = m
      /\ queue' = queue /\ temp' = temp /\ accepted' = accepted /\ delivered' = delivered
  BY DEF SendsPut, JavaSendsPut, Requested, queueVars
<1> HIDE DEF r
<1>2. Cargoes[c] = {} /\ Askings[c] = {} /\ K2[c] = {m} /\ R2[c] = {m}
  BY <1>1, RequestCargo
<1>3. Elsewhere(c)
  BY ClientElsewhere DEF Sound, ClientCall
<1>4. c \notin Spent
  BY <1>1 DEF Spent
<1>5. OthersHave(c, Cargoes, K2) /\ OthersHave(c, Askings, R2) /\ Spent \subseteq Spent'
  BY <1>3, <1>4, OthersKeep
<1>6. /\ Once(queue)' /\ Once(temp)' /\ In(queue)' = In(queue) /\ In(temp)' = In(temp)
      /\ Apart(In(queue), In(temp), Cargoes, Askings, delivered, accepted, sent)
  BY <1>1 DEF Conserved, MessagesApart, Once, In
<1> HIDE DEF K2, R2
<1>7. /\ Apart(In(queue), In(temp), K2, R2, delivered, accepted, sent \cup {m})
      /\ GoneOf(In(queue), In(temp), K2, delivered, accepted)
            \subseteq GoneOf(In(queue), In(temp), Cargoes, delivered, accepted)
  BY <1>1, <1>2, <1>5, <1>6, AskedFor
<1>8. MessagesApart'
  BY <1>1, <1>6, <1>7 DEF MessagesApart, K2, R2
<1>9. Gone' \subseteq Gone
  BY <1>1, <1>6, <1>7 DEF Gone, K2, R2
<1> QED
  BY <1>5, <1>8, <1>9, NoneLost DEF Conserved

(* A message that is delivered. *)
LEMMA DeliveryKeeps ==
    ASSUME Conserved, NEW c \in Clients, Elsewhere(c), NEW m, c \notin Spent,
           UNCHANGED <<queueVars, sent, accepted>>, delivered' = delivered \cup {m},
           Cargoes[c] = {m}, Cargoes'[c] = {}
    PROVE  Conserved'
<1> DEFINE K2 == Cargoes'
           R2 == Askings'
<1>1. queue' = queue /\ temp' = temp /\ sent' = sent /\ accepted' = accepted
  BY DEF queueVars
<1>2. OthersHave(c, Cargoes, K2) /\ OthersHave(c, Askings, R2) /\ Spent \subseteq Spent'
  BY OthersKeep
<1>3. /\ Once(queue)' /\ Once(temp)' /\ In(queue)' = In(queue) /\ In(temp)' = In(temp)
      /\ Apart(In(queue), In(temp), Cargoes, Askings, delivered, accepted, sent)
  BY <1>1 DEF Conserved, MessagesApart, Once, In
<1>4. K2[c] = {} /\ R2[c] = {}
  <2>1. Askings'[c] \subseteq Cargoes'[c]
    BY CargoAt DEF CargoOf
  <2> QED
    BY <2>1
<1> HIDE DEF K2, R2
<1>5. /\ Apart(In(queue), In(temp), K2, R2, delivered \cup {m}, accepted, sent)
      /\ GoneOf(In(queue), In(temp), K2, delivered \cup {m}, accepted)
            \subseteq GoneOf(In(queue), In(temp), Cargoes, delivered, accepted)
  BY <1>2, <1>3, <1>4, TakenHome
<1>6. MessagesApart'
  BY <1>1, <1>3, <1>5 DEF MessagesApart, K2, R2
<1>7. Gone' \subseteq Gone
  BY <1>1, <1>3, <1>5 DEF Gone, K2, R2
<1> QED
  BY <1>2, <1>6, <1>7, NoneLost DEF Conserved

LEMMA ReceivesDataKeeps ==
    ASSUME Sound, Conserved, NEW c \in Clients, ReceivesData(c)
    PROVE  Conserved'
<1> DEFINE m == Head(toClient[c])
<1>1. /\ UNCHANGED <<queueVars, sent, accepted>> /\ delivered' = delivered \cup {m}
      /\ worker' = worker /\ toServer' = toServer /\ pc[c] = "data"
  BY DEF ReceivesData
<1>2. /\ toServer[c] = <<>> /\ worker[c].at = "receive" /\ m \in Messages
      /\ toClient[c] = <<m>> /\ toClient'[c] = <<>>
  BY ReceivesDataStands DEF Sound
<1> HIDE DEF m
<1>3. InHandOf(worker[c]) = {} /\ Asking(<<>>, worker[c]) = {}
  BY <1>2, InHandIs, NothingAsked DEF Holding
<1>4. OnWay(<<m>>) = {m}
  <2>1. <<m>> \in Seq(ClientBytes) /\ Len(<<m>>) = 1 /\ <<m>>[1] = m
    BY <1>2 DEF ClientBytes
  <2> QED
    BY <1>2, <2>1, OnWayIs
<1>5. Cargoes[c] = {m}
  BY <1>2, <1>3, <1>4, CargoAt DEF CargoOf
<1>6. Cargoes'[c] = {}
  <2>1. worker'[c].at \notin Holding \cup {"put"}
    BY <1>1, <1>2 DEF Holding
  <2>2. toServer'[c] = <<>>
    BY <1>1, <1>2
  <2> QED
    BY <1>2, <2>1, <2>2, CargoAt, CargoOfWorker
<1>7. Elsewhere(c) /\ c \notin Spent
  BY <1>1, ClientElsewhere DEF Sound, ClientStep, Spent
<1> QED
  BY <1>1, <1>5, <1>6, <1>7, DeliveryKeeps

LEMMA ReceivesReplyKeeps ==
    ASSUME Sound, Conserved, NEW c \in Clients, ReceivesReply(c)
    PROVE  Conserved'
<1> DEFINE tc == toClient[c]
           reply == tc[2]
           w == worker[c]
<1>1. /\ UNCHANGED <<queueVars, sent, accepted>> /\ worker' = worker /\ toServer' = toServer
      /\ delivered' = IF c \in JavaClients /\ reply.msg # None THEN delivered \cup {reply.msg} ELSE delivered
      /\ pc[c] \in {"put", "get"} /\ Len(tc) >= 2
  BY DEF ReceivesReply
<1>2. Elsewhere(c) /\ c \notin Spent
  BY <1>1, ClientElsewhere DEF Sound, ClientStep, Spent
<1>3. /\ toServer[c] = <<>> /\ w.at \in {"data", "receive"} /\ tc[1] = Head_
      /\ pc'[c] = AfterReply(c, reply)
      /\ Len(tc) = IF reply.msg_len = 1 /\ w.at = "receive" THEN 3 ELSE 2
      /\ Len(tc) = 3 => toClient'[c] = <<tc[3]>>
      /\ Len(tc) = 2 => toClient'[c] = <<>>
  BY ReceivesReplyStands DEF Sound
<1>4. /\ ReplyStands(pc[c], reply)
      /\ c \notin JavaClients /\ reply.msg # None => AfterReply(c, reply) = "closed"
  BY <1>1, GoesOn DEF Sound
<1>5. /\ reply \in Replies /\ reply.msg_len \in {0, 1} /\ reply.msg \in Messages \cup {None}
      /\ reply.msg # None => reply.msg_len = 0 /\ pc[c] = "get"
  BY <1>4, ServerAssumption DEF ReplyStands, Replies
<1>6. tc \in Seq(ClientBytes) /\ (Len(tc) = 3 => tc[3] \in Messages)
  <2>1. Connection(c, pc[c], open[c], toServer[c], tc, w) /\ tc \in Seq(ClientBytes)
    BY AtConnection DEF Sound
  <2>2. tc # <<>>
    BY <1>1, <2>1
  <2> QED
    BY <1>1, <2>1, <2>2 DEF Connection, ToClientStands
<1>7. toServer'[c] = <<>> /\ worker'[c] = w /\ Asking(<<>>, w) = {}
  BY <1>1, <1>3, NothingAsked
<1>8. /\ Cargoes[c] = InHandOf(w) \cup OnWay(tc) /\ Cargoes'[c] = InHandOf(w) \cup OnWay(toClient'[c])
      /\ Askings[c] = {} /\ Askings'[c] = {}
  BY <1>3, <1>7, CargoAt DEF CargoOf
<1> HIDE DEF w, tc, reply
<1>9. CASE Len(tc) = 3
  <2>1. reply.msg_len = 1 /\ reply.msg = None
    BY <1>3, <1>5, <1>9
  <2>2. OnWay(tc) = {tc[3]}
    BY <1>3, <1>5, <1>6, <1>9, <2>1, OnWayIs DEF reply
  <2>3. OnWay(<<tc[3]>>) = {tc[3]}
    <3> DEFINE m == tc[3]
    <3>1. m \in Messages
      BY <1>6, <1>9
    <3> HIDE DEF m
    <3>2. <<m>> \in Seq(ClientBytes) /\ Len(<<m>>) = 1 /\ <<m>>[1] = m
      BY <3>1 DEF ClientBytes
    <3>3. OnWay(<<m>>) = {m}
      BY <3>1, <3>2, OnWayIs
    <3> QED
      BY <3>3 DEF m
  <2>4. Cargoes'[c] = Cargoes[c]
    BY <1>3, <1>8, <1>9, <2>2, <2>3
  <2>5. UNCHANGED historyVars
    BY <1>1, <2>1 DEF historyVars
  <2> QED
    BY <1>1, <1>2, <1>8, <2>4, <2>5, ConnectionShrinks
<1>10. CASE Len(tc) = 2 /\ reply.msg = None
  <2>1. OnWay(tc) = {}
    BY <1>3, <1>5, <1>6, <1>10, OnWayIs DEF reply
  <2>2. Cargoes'[c] \subseteq Cargoes[c] /\ Cargoes[c] \subseteq Cargoes'[c] \cup Askings[c]
    <3>1. toClient'[c] = <<>> /\ <<>> \in Seq(ClientBytes)
      BY <1>3, <1>10
    <3>2. OnWay(toClient'[c]) = {}
      BY <3>1, OnWayIs
    <3> QED
      BY <1>8, <2>1, <3>2
  <2>3. UNCHANGED historyVars
    BY <1>1, <1>10 DEF historyVars
  <2> QED
    BY <1>1, <1>2, <1>8, <2>2, <2>3, ConnectionShrinks
<1>11. CASE Len(tc) = 2 /\ reply.msg # None
  <2>1. OnWay(tc) = {reply.msg}
    BY <1>3, <1>5, <1>6, <1>11, OnWayIs DEF reply
  <2>2. OnWay(toClient'[c]) = {}
    <3>1. toClient'[c] = <<>> /\ <<>> \in Seq(ClientBytes)
      BY <1>3, <1>11
    <3> QED
      BY <3>1, OnWayIs
  <2>3. w.at = "receive" /\ InHandOf(w) = {}
    <3>1. w.at = "receive"
      <4>1. Connection(c, pc[c], open[c], toServer[c], tc, w) /\ tc \in Seq(ClientBytes)
        BY AtConnection DEF Sound, tc, w
      <4>2. tc # <<>>
        <5>1. Len(tc) = 2
          BY <1>11
        <5>2. Len(<<>>) = 0
          OBVIOUS
        <5> QED
          BY ONLY <5>1, <5>2
      <4>3. w.at = IF tc[2].msg_len = 1 /\ Len(tc) = 2 THEN "data" ELSE "receive"
        BY <1>1, <4>1, <4>2 DEF Connection, ToClientStands
      <4> QED
        BY <1>5, <1>11, <4>3 DEF reply
    <3> QED
      BY <3>1, InHandIs DEF Holding
  <2>4. Cargoes[c] = {reply.msg} /\ Cargoes'[c] = {}
    BY <1>8, <2>1, <2>2, <2>3
  <2>5. CASE c \in JavaClients
    <3>1. delivered' = delivered \cup {reply.msg}
      BY <1>1, <1>11, <2>5
    <3> QED
      BY <1>1, <1>2, <2>4, <3>1, DeliveryKeeps
  <2>6. CASE c \notin JavaClients
    <3>1. pc'[c] = "closed" /\ UNCHANGED historyVars
      BY <1>1, <1>3, <1>4, <1>11, <2>6 DEF historyVars
    <3>2. c \in Consumers
      BY <1>5, <1>11, AtConnection DEF Sound, Connection
    <3>3. c \in Spent'
      <4>1. Len(toServer'[c]) < 2
        BY <1>7
      <4>2. worker'[c].at \in Resting
        BY <1>7, <2>3 DEF Resting
      <4> QED
        BY <3>1, <3>2, <4>1, <4>2, SpentAt
    <3>4. \E m : Cargoes[c] \subseteq Cargoes'[c] \cup Askings[c] \cup {m}
      BY <2>4
    <3> QED
      BY <1>1, <1>2, <1>8, <2>4, <3>1, <3>3, <3>4, ConnectionShrinks
  <2> QED
    BY <2>5, <2>6
<1>12. Len(tc) = 2 \/ Len(tc) = 3
  BY <1>3
<1> QED
  BY <1>9, <1>10, <1>11, <1>12

LEMMA ClosesKeeps ==
    ASSUME Sound, Conserved, NEW c \in Clients, Closes(c)
    PROVE  Conserved'
<1> DEFINE ts == toServer[c]
           ts2 == toServer'[c]
           tc == toClient[c]
           w == worker[c]
<1>1. UNCHANGED <<queueVars, historyVars>> /\ worker'[c] = w /\ open[c]
  BY DEF Closes
<1>2. Elsewhere(c) /\ c \notin Spent
  BY <1>1, ClientElsewhere, SpentAt DEF Sound, ClientCall
<1>3. /\ pc'[c] = "closed" /\ toClient'[c] = <<>> /\ Len(ts2) \in 0..Len(ts)
      /\ Len(ts2) = 2 => ts2[2] = ts[2]
  BY ClosesStands DEF Sound
<1>4. /\ Connection(c, pc[c], open[c], ts, tc, w) /\ tc \in Seq(ClientBytes) /\ pc[c] \in Places
      /\ ts \in Seq(ServerBytes) /\ Len(ts) \in Nat
  BY AtConnection DEF Sound
<1>5. ToServerStands(c, pc[c], ts, w) /\ ToClientStands(pc[c], tc, w)
  BY <1>4 DEF Connection
<1>6. Asking(ts2, w) \subseteq Asking(ts, w)
  <2>1. Len(ts2) = 2 => Len(ts) = 2
    <3>1. Len(ts) <= 2
      BY <1>5 DEF ToServerStands
    <3>2. \A k, n \in Nat : k \in 0..n /\ n <= 2 /\ k = 2 => n = 2
      OBVIOUS
    <3>3. Len(ts2) \in Nat
      BY <1>3, <1>4
    <3> QED
      BY <1>3, <1>4, <3>1, <3>2, <3>3
  <2> QED
    BY <1>3, <2>1 DEF Asking
<1>7. /\ Cargoes[c] = CargoOf(ts, tc, w) /\ Cargoes'[c] = CargoOf(ts2, <<>>, w)
      /\ Askings[c] = Asking(ts, w) /\ Askings'[c] = Asking(ts2, w)
  BY <1>1, <1>3, CargoAt
<1>8. OnWay(<<>>) = {}
  <2>1. <<>> \in Seq(ClientBytes)
    OBVIOUS
  <2> QED
    BY <2>1, OnWayIs
<1> HIDE DEF ts, ts2, tc, w
<1>9. /\ Cargoes'[c] \subseteq Cargoes[c] /\ Askings'[c] \subseteq Askings[c]
      /\ Cargoes[c] \subseteq Cargoes'[c] \cup Askings[c] \cup OnWay(tc)
  BY <1>6, <1>7, <1>8 DEF CargoOf
<1>10. CASE OnWay(tc) = {}
  <2>1. Cargoes[c] \subseteq Cargoes'[c] \cup Askings[c]
    BY <1>9, <1>10
  <2> QED
    BY <1>1, <1>2, <1>9, <2>1, ConnectionShrinks
<1>11. CASE OnWay(tc) # {}
  <2>1. tc # <<>>
    BY <1>4, <1>11, OnWayIs
  <2>2. /\ pc[c] \in {"get", "data"} /\ w.at = "receive" /\ \E m : OnWay(tc) = {m}
    <3>1. CASE pc[c] \in {"put", "get"}
      <4>1. /\ Len(tc) \in {2, 3} /\ tc[1] = Head_ /\ ReplyStands(pc[c], tc[2])
            /\ w.at = IF tc[2].msg_len = 1 /\ Len(tc) = 2 THEN "data" ELSE "receive"
            /\ Len(tc) = 3 => tc[2].msg_len = 1 /\ tc[3] \in Messages
        BY <1>5, <2>1, <3>1 DEF ToClientStands
      <4>2. /\ tc[2] \in Replies /\ (tc[2].msg # None => tc[2].msg_len = 0 /\ pc[c] = "get")
            /\ (tc[2].msg_len = 1 => pc[c] = "get")
        BY <4>1 DEF ReplyStands
      <4>3. CASE Len(tc) = 3
        <5>1. tc[2].msg = None
          BY <4>1, <4>2, <4>3
        <5>2. OnWay(tc) = {tc[3]}
          BY <1>4, <4>1, <4>2, <4>3, <5>1, OnWayIs
        <5>3. w.at = "receive" /\ pc[c] = "get"
          BY <4>1, <4>2, <4>3
        <5> QED
          BY <5>2, <5>3
      <4>4. CASE Len(tc) = 2
        <5>1. OnWay(tc) = IF tc[2].msg = None THEN {} ELSE {tc[2].msg}
          BY <1>4, <4>1, <4>2, <4>4, OnWayIs
        <5>2. tc[2].msg # None /\ OnWay(tc) = {tc[2].msg}
          BY <1>11, <5>1
        <5>3. w.at = "receive" /\ pc[c] = "get"
          BY <4>1, <4>2, <5>2
        <5> QED
          BY <5>2, <5>3
      <4> QED
        BY <4>1, <4>3, <4>4
    <3>2. CASE pc[c] = "data"
      <4>1. w.at = "receive" /\ Len(tc) = 1 /\ tc[1] \in Messages
        BY <1>5, <2>1, <3>2 DEF ToClientStands
      <4> QED
        BY <1>4, <3>2, <4>1, OnWayIs
    <3> QED
      BY <1>5, <2>1, <3>1, <3>2 DEF ToClientStands
  <2>3. c \in Consumers
    BY <1>4, <2>2 DEF Connection
  <2>4. ts = <<>>
    BY <1>4, <2>1, <2>2 DEF Connection, ToServerStands
  <2>5. Len(ts2) < 2
    <3>1. Len(ts) = 0
      BY <2>4
    <3>2. \A k : k \in 0..0 => k < 2
      OBVIOUS
    <3> QED
      BY <1>3, <3>1, <3>2
  <2>6. c \in Spent'
    BY <1>1, <1>3, <2>2, <2>3, <2>5, SpentAt DEF ts2, Resting, w
  <2>7. \E m : Cargoes[c] \subseteq Cargoes'[c] \cup Askings[c] \cup {m}
    BY <1>9, <2>2
  <2> QED
    BY <1>1, <1>2, <1>9, <2>6, <2>7, ConnectionShrinks
<1> QED
  BY <1>10, <1>11

LEMMA AcceptsKeeps ==
    ASSUME Sound, Conserved, NEW c \in Clients, Accepts(c)
    PROVE  Conserved'
<1>1. /\ UNCHANGED <<queueVars, historyVars>> /\ worker[c].at = "none" /\ worker'[c] = Receiving
      /\ toServer'[c] = toServer[c] /\ toClient'[c] = toClient[c]
  BY DEF Accepts, At, Set, Receiving, Sound, ConnectionsTyped
<1>2. Elsewhere(c) /\ pc' = pc
  BY WorkerElsewhere DEF Sound, WorkerAlone
<1>3. /\ InHandOf(worker[c]) = {} /\ InHandOf(Receiving) = {}
      /\ Asking(toServer[c], worker[c]) = Asking(toServer[c], Receiving)
  <2>1. InHandOf(worker[c]) = {} /\ InHandOf(Receiving) = {}
    BY <1>1, RestingWorkers, InHandIs DEF Holding
  <2> QED
    BY <1>1, <2>1, RestingWorkers DEF Asking
<1>4. Cargoes'[c] = Cargoes[c] /\ Askings'[c] = Askings[c]
  BY <1>1, <1>3, CargoAt DEF CargoOf
<1>5. c \in Spent => c \in Spent'
  BY <1>1, <1>2, RestingWorkers, SpentAt DEF Resting
<1> QED
  BY <1>1, <1>2, <1>4, <1>5, ConnectionShrinks

LEMMA ReceivesKeeps ==
    ASSUME Sound, Conserved, NEW c \in Clients, Receives(c),
           \A n \in Names : Found(table, n) \in Queues \cup {None}
    PROVE  Conserved'
<1> DEFINE r == toServer[c][2]
           x == worker'[c]
<1>1. UNCHANGED <<queueVars, historyVars>> /\ toClient'[c] = toClient[c]
  BY DEF Receives
<1>2. Elsewhere(c) /\ pc' = pc
  BY WorkerElsewhere DEF Sound, WorkerAlone
<1>3. /\ Len(toServer[c]) = 2 /\ toServer'[c] = <<>> /\ worker[c].at = "receive"
      /\ \E q \in Queues \cup {None} : x = HasReceived(q, r)
      /\ RequestStands(c, r)
  BY ReceivesStands DEF Sound
<1>4. /\ x.msg = None \/ (x.msg = r.msg /\ x.at = r.type)
      /\ r.type \in {"put", "get"} /\ (r.type = "get" => r.msg = None) /\ None \notin Messages
  BY <1>3, ServerAssumption DEF HasReceived, RequestStands, Requests
<1>5. Asking(toServer[c], worker[c]) = {r.msg} \cap Messages /\ InHandOf(worker[c]) = {}
  <2>1. InHandOf(worker[c]) = {}
    BY <1>3, InHandIs DEF Holding
  <2>2. worker[c].at # "put"
    BY <1>3
  <2>3. Asking(toServer[c], worker[c]) = IF toServer[c][2].msg \in Messages THEN {toServer[c][2].msg} ELSE {}
    BY <1>3, <2>2, AskingIs
  <2> QED
    BY <2>1, <2>3
<1> HIDE DEF r, x
<1>6. Asking(<<>>, x) \subseteq {r.msg} \cap Messages /\ InHandOf(x) = {}
  <2>1. InHandOf(x) = {}
    BY <1>4, InHandIs DEF Holding
  <2>2. CASE x.at # "put"
    BY <2>1, <2>2, NothingAsked
  <2>3. CASE x.at = "put" /\ x.msg \in Messages
    BY <1>4, <2>1, <2>3, NothingAsked
  <2>4. CASE x.msg \notin Messages
    <3>1. Len(<<>>) # 2
      OBVIOUS
    <3> QED
      BY <2>1, <2>4, <3>1, AskingIs
  <2> QED
    BY <2>2, <2>3, <2>4
<1>7. /\ Cargoes'[c] \subseteq Cargoes[c] /\ Askings'[c] \subseteq Askings[c]
      /\ Cargoes[c] \subseteq Cargoes'[c] \cup Askings[c]
  <2>1. /\ Cargoes[c] = CargoOf(toServer[c], toClient[c], worker[c])
        /\ Askings[c] = Asking(toServer[c], worker[c])
        /\ Cargoes'[c] = CargoOf(<<>>, toClient[c], x)
        /\ Askings'[c] = Asking(<<>>, x)
    BY <1>1, <1>3, CargoAt DEF x
  <2> QED
    BY <1>5, <1>6, <2>1 DEF CargoOf
<1>8. c \notin Spent
  BY <1>3, SpentAt
<1> QED
  BY <1>1, <1>2, <1>7, <1>8, ConnectionShrinks

LEMMA ReceiveFailsKeeps ==
    ASSUME Sound, Conserved, NEW c \in Clients, ReceiveFails(c)
    PROVE  Conserved'
<1>1. /\ UNCHANGED <<queueVars, historyVars>> /\ worker[c].at = "receive" /\ worker'[c] = Ended
      /\ toServer'[c] = <<>> /\ toClient'[c] = toClient[c] /\ Len(toServer[c]) < 2
  BY DEF ReceiveFails, At, Set, Ended, Sound, ConnectionsTyped
<1>2. Elsewhere(c) /\ pc' = pc
  BY WorkerElsewhere DEF Sound, WorkerAlone
<1>3. /\ InHandOf(worker[c]) = {} /\ InHandOf(Ended) = {}
      /\ Asking(<<>>, Ended) = {}
  BY <1>1, RestingWorkers, InHandIs, NothingAsked DEF Holding
<1>4. Cargoes'[c] = OnWay(toClient[c]) /\ Askings'[c] = {} /\ OnWay(toClient[c]) \subseteq Cargoes[c]
  BY <1>1, <1>3, CargoAt DEF CargoOf
<1>5. Cargoes[c] \subseteq Cargoes'[c] \cup Askings[c]
  BY <1>3, <1>4, CargoAt DEF CargoOf
<1>6. c \in Spent => c \in Spent'
  <2>1. Len(<<>>) < 2
    OBVIOUS
  <2> QED
    BY <1>1, <1>2, <2>1, RestingWorkers, SpentAt DEF Resting
<1> QED
  BY <1>1, <1>2, <1>4, <1>5, <1>6, ConnectionShrinks

(* A worker in a queue has the message it puts, or none. *)
LEMMA PutterHas ==
    ASSUME Sound, NEW c \in Clients, Putting(c),
           toServer' = toServer, toClient' = toClient, worker'[c].msg = None
    PROVE  /\ worker[c].msg \in Messages /\ worker[c].queue \in Queues
           /\ toServer'[c] = <<>> /\ c \notin Spent
           /\ Cargoes[c] = {worker[c].msg} /\ Cargoes'[c] = {} /\ Askings'[c] = {}
           /\ At(c, "put") => Askings[c] = {worker[c].msg}
           /\ At(c, "reput") => c \in Consumers /\ pc[c] = "closed"
<1>1. /\ worker[c].msg \in Messages /\ worker[c].queue \in Queues
      /\ toServer[c] = <<>> /\ toClient[c] = <<>> /\ (At(c, "reput") => c \in Consumers /\ pc[c] = "closed")
  BY PutEndedStands DEF Sound, Results
<1>2. worker[c].at \in {"put", "reput"} /\ worker[c].at \in Holding \cup {"put"} /\ worker[c].at \notin Resting
  BY DEF Putting, At, Holding, Resting
<1>3. Cargoes[c] = {worker[c].msg}
  BY <1>1, <1>2, CargoAt, CargoOfWorker
<1>4. worker'[c].msg \notin Messages
  BY ServerAssumption
<1>5. toServer'[c] = <<>> /\ toClient'[c] = <<>>
  BY <1>1
<1>6. Cargoes'[c] = {}
  BY <1>4, <1>5, CargoAt, CargoOfWorker
<1>7. Askings'[c] = {}
  BY <1>6, CargoAt DEF CargoOf
<1>8. At(c, "put") => Askings[c] = {worker[c].msg}
  BY <1>1, CargoAt, NothingAsked DEF At
<1>9. c \notin Spent
  BY <1>2 DEF Spent
<1> QED
  BY <1>1, <1>3, <1>5, <1>6, <1>7, <1>8, <1>9

LEMMA GetterHas ==
    ASSUME Sound, NEW c \in Clients, At(c, "get"),
           toServer' = toServer, toClient' = toClient, worker'[c].at = "reply"
    PROVE  /\ worker[c].queue \in Queues /\ c \notin Spent
           /\ Cargoes[c] = {} /\ Askings[c] = {} /\ Askings'[c] = {}
           /\ Cargoes'[c] = IF worker'[c].msg \in Messages THEN {worker'[c].msg} ELSE {}
<1>1. worker[c].queue \in Queues /\ worker[c].msg = None /\ toServer[c] = <<>> /\ toClient[c] = <<>>
  <2>1. ("timeout" = "succ" /\ None \in Messages) \/ ("timeout" = "timeout" /\ None = None)
    OBVIOUS
  <2> QED
    BY <2>1, GetAnsweredStands DEF Sound
<1>2. Cargoes[c] = {} /\ Askings[c] = {}
  <2>1. worker[c].msg \notin Messages
    BY <1>1, ServerAssumption
  <2>2. Cargoes[c] = {}
    BY <1>1, <2>1, CargoAt, CargoOfWorker
  <2> QED
    BY <2>2, CargoAt DEF CargoOf
<1>3. toServer'[c] = <<>> /\ toClient'[c] = <<>> /\ worker'[c].at \in Holding
  BY <1>1 DEF Holding
<1>4. Cargoes'[c] = IF worker'[c].msg \in Messages THEN {worker'[c].msg} ELSE {}
  BY <1>3, CargoAt, CargoOfWorker
<1>5. Askings'[c] = {}
  BY <1>3, CargoAt, NothingAsked
<1>6. c \notin Spent
  BY DEF Spent, Resting, At
<1> QED
  BY <1>1, <1>2, <1>4, <1>5, <1>6

LEMMA PutQueuesKeeps ==
    ASSUME Sound, Conserved, NEW c \in Clients, PutQueues(c)
    PROVE  Conserved'
<1> DEFINE q == worker[c].queue
           m == worker[c].msg
           K2 == Cargoes'
           R2 == Askings'
<1>1. /\ Putting(c) /\ queue' = [queue EXCEPT ![q] = Append(queue[q], m)] /\ temp' = temp
      /\ accepted' = accepted \/ accepted' = accepted \cup {m}
      /\ sent' = sent /\ delivered' = delivered /\ toServer' = toServer /\ toClient' = toClient
  BY DEF PutQueues, Accepted
<1>2. worker'[c].msg = None
  <2>1. worker'[c] = PutEnded(worker[c], "succ")
    BY DEF PutQueues, Set, Sound, ConnectionsTyped
  <2> QED
    BY <1>1, <2>1, PutEndedStands DEF Sound, Results
<1>3. /\ m \in Messages /\ q \in Queues /\ c \notin Spent
      /\ Cargoes[c] = {m} /\ K2[c] = {} /\ R2[c] = {}
  BY <1>1, <1>2, PutterHas
<1>4. Elsewhere(c)
  BY WorkerElsewhere DEF Sound, WorkerAlone
<1>5. OthersHave(c, Cargoes, K2) /\ OthersHave(c, Askings, R2) /\ Spent \subseteq Spent'
  BY <1>3, <1>4, OthersKeep
<1>6. /\ queue \in Sequences /\ Once(queue) /\ Once(temp) /\ In(temp)' = In(temp) /\ Once(temp)'
      /\ Apart(In(queue), In(temp), Cargoes, Askings, delivered, accepted, sent)
  BY <1>1 DEF Conserved, MessagesApart, Sound, MessagesTyped, Sequences, Once, In
<1> HIDE DEF K2, R2, m, q
<1> DEFINE Q == In(queue)
           T == In(temp)
<1>7. /\ Apart(Q \cup {m}, T, K2, R2, delivered, accepted', sent)
      /\ GoneOf(Q \cup {m}, T, K2, delivered, accepted') \subseteq GoneOf(Q, T, Cargoes, delivered, accepted)
      /\ m \notin Q
  <2>1. Apart(Q, T, Cargoes, Askings, delivered, accepted, sent) /\ m \in Cargoes[c]
    BY <1>3, <1>6
  <2> DEFINE A2 == accepted'
  <2>2. A2 = accepted \/ A2 = accepted \cup {m}
    BY <1>1
  <2> HIDE DEF Q, T, A2
  <2>3. /\ Apart(Q \cup {m}, T, K2, R2, delivered, accepted, sent)
        /\ GoneOf(Q \cup {m}, T, K2, delivered, accepted) \subseteq GoneOf(Q, T, Cargoes, delivered, accepted)
        /\ m \notin Q
    BY <1>3, <1>5, <2>1, QueuedUp
  <2> DEFINE Q2 == Q \cup {m}
  <2>4. m \in Q2 /\ Apart(Q2, T, K2, R2, delivered, accepted, sent)
    BY <2>3
  <2> HIDE DEF Q2
  <2>5. /\ Apart(Q2, T, K2, R2, delivered, A2, sent)
        /\ GoneOf(Q2, T, K2, delivered, A2) \subseteq GoneOf(Q2, T, K2, delivered, accepted)
    BY ONLY <2>2, <2>4, AcceptedToo
  <2> QED
    BY <2>3, <2>5 DEF A2, Q2
<1>8. Once(queue)' /\ In(queue)' = Q \cup {m}
  <2> DEFINE g == queue'
  <2>1. g = [queue EXCEPT ![q] = Append(queue[q], m)]
    BY <1>1
  <2>2. m \notin In(queue)
    BY <1>7
  <2> HIDE DEF g, Q, T
  <2>3. q \in Queues /\ m \in Messages /\ queue \in Sequences /\ Once(queue)
    BY <1>3, <1>6
  <2>4. Once(g) /\ In(g) = In(queue) \cup {m}
    BY ONLY <2>1, <2>2, <2>3, AppendedOnce
  <2> QED
    BY <2>4 DEF g, Once, In, Q
<1>9. MessagesApart'
  BY <1>1, <1>6, <1>7, <1>8 DEF MessagesApart, K2, R2
<1>10. Gone' \subseteq Gone
  BY <1>1, <1>6, <1>7, <1>8 DEF Gone, K2
<1> QED
  BY <1>5, <1>9, <1>10, NoneLost DEF Conserved

LEMMA PutTimesOutKeeps ==
    ASSUME Sound, Conserved, NEW c \in Clients, PutTimesOut(c)
    PROVE  Conserved'
<1>1. /\ Putting(c) /\ UNCHANGED <<queueVars, historyVars>> /\ toServer' = toServer /\ toClient' = toClient
      /\ worker'[c] = PutEnded(worker[c], "timeout")
  BY DEF PutTimesOut, Set, Sound, ConnectionsTyped
<1>2. worker'[c].msg = None /\ worker'[c].at = IF At(c, "put") THEN "reply" ELSE "ended"
  BY <1>1, PutEndedStands DEF Sound, Results
<1>3. /\ c \notin Spent /\ Cargoes[c] = {worker[c].msg} /\ Cargoes'[c] = {} /\ Askings'[c] = {}
      /\ At(c, "put") => Askings[c] = {worker[c].msg}
      /\ At(c, "reput") => c \in Consumers /\ pc[c] = "closed"
      /\ toServer'[c] = <<>>
  BY <1>1, <1>2, PutterHas
<1>4. Elsewhere(c) /\ pc' = pc
  BY WorkerElsewhere DEF Sound, WorkerAlone
<1>5. CASE At(c, "put")
  <2>1. Cargoes[c] \subseteq Cargoes'[c] \cup Askings[c]
    BY <1>3, <1>5
  <2> QED
    BY <1>1, <1>3, <1>4, <2>1, ConnectionShrinks
<1>6. CASE At(c, "reput")
  <2>1. Len(toServer'[c]) < 2
    <3>1. Len(<<>>) < 2
      OBVIOUS
    <3> QED
      BY <1>3, <3>1
  <2>2. c \in Spent'
    BY <1>2, <1>3, <1>4, <1>6, <2>1, SpentAt DEF Resting, At
  <2>3. \E m : Cargoes[c] \subseteq Cargoes'[c] \cup Askings[c] \cup {m}
    BY <1>3
  <2> QED
    BY <1>1, <1>3, <1>4, <2>2, <2>3, ConnectionShrinks
<1> QED
  BY <1>1, <1>5, <1>6 DEF Putting

LEMMA GetPopsKeeps ==
    ASSUME Sound, Conserved, NEW c \in Clients, GetPops(c)
    PROVE  Conserved'
<1> DEFINE q == worker[c].queue
           m == Head(queue[q])
           K2 == Cargoes'
           R2 == Askings'
<1>1. /\ At(c, "get") /\ queue[q] # <<>> /\ queue' = [queue EXCEPT ![q] = Tail(queue[q])] /\ temp' = temp
      /\ UNCHANGED historyVars /\ toServer' = toServer /\ toClient' = toClient
      /\ worker'[c] = Answered(worker[c], "succ", m)
  BY DEF GetPops, Set, Sound, ConnectionsTyped
<1>2. worker[c].queue \in Queues
  BY <1>1, AtConnection DEF Sound, Connection, WorkerStands, At
<1>3. /\ queue \in Sequences /\ Once(queue) /\ Once(temp) /\ In(temp)' = In(temp) /\ Once(temp)'
      /\ Apart(In(queue), In(temp), Cargoes, Askings, delivered, accepted, sent)
  BY <1>1 DEF Conserved, MessagesApart, Sound, MessagesTyped, Sequences, Once, In
<1> DEFINE g == queue'
<1>4. Once(g) /\ In(g) = In(queue) \ {m} /\ m \in In(queue) /\ m \in Messages
  <2>1. g = [queue EXCEPT ![q] = Tail(queue[q])]
    BY <1>1
  <2> HIDE DEF g, q
  <2>2. /\ Once(g) /\ In(g) = In(queue) \ {Head(queue[q])} /\ Head(queue[q]) \in In(queue)
        /\ Head(queue[q]) \in Messages
    BY <1>1, <1>2, <1>3, <2>1, TakenOnce DEF q
  <2> QED
    BY <2>2
<1>5. worker'[c].at = "reply" /\ worker'[c].msg = m
  <2> HIDE DEF m
  <2> QED
    BY <1>1, <1>4, GetAnsweredStands DEF Sound
<1>6. c \notin Spent /\ Cargoes[c] = {} /\ K2[c] = {m} /\ R2[c] = {}
  BY <1>1, <1>4, <1>5, GetterHas
<1>7. Elsewhere(c)
  BY WorkerElsewhere DEF Sound, WorkerAlone
<1>8. OthersHave(c, Cargoes, K2) /\ OthersHave(c, Askings, R2) /\ Spent \subseteq Spent'
  BY <1>6, <1>7, OthersKeep
<1> HIDE DEF K2, R2, m, q
<1> DEFINE Q == In(queue)
           T == In(temp)
<1>9. /\ Apart(Q \ {m}, T, K2, R2, delivered, accepted, sent)
      /\ GoneOf(Q \ {m}, T, K2, delivered, accepted) \subseteq GoneOf(Q, T, Cargoes, delivered, accepted)
  <2>1. Apart(Q, T, Cargoes, Askings, delivered, accepted, sent) /\ m \in Q
    BY <1>3, <1>4
  <2> HIDE DEF Q, T
  <2> QED
    BY <1>6, <1>8, <2>1, TakenOut
<1>10. Once(queue)' /\ In(queue)' = Q \ {m}
  BY <1>4 DEF Once, In
<1>11. sent' = sent /\ accepted' = accepted /\ delivered' = delivered
  BY <1>1 DEF historyVars
<1>12. MessagesApart'
  BY <1>1, <1>3, <1>9, <1>10, <1>11 DEF MessagesApart, K2, R2
<1>13. Gone' \subseteq Gone
  BY <1>1, <1>3, <1>9, <1>10, <1>11 DEF Gone, K2
<1> QED
  BY <1>8, <1>12, <1>13, NoneLost DEF Conserved

LEMMA GetTimesOutKeeps ==
    ASSUME Sound, Conserved, NEW c \in Clients, GetTimesOut(c)
    PROVE  Conserved'
<1>1. /\ At(c, "get") /\ UNCHANGED <<queueVars, historyVars>> /\ toServer' = toServer /\ toClient' = toClient
      /\ worker'[c] = Answered(worker[c], "timeout", None)
  BY DEF GetTimesOut, Set, Sound, ConnectionsTyped
<1>2. worker'[c].msg = None /\ worker'[c].at = "reply"
  BY <1>1, GetAnsweredStands DEF Sound
<1>3. c \notin Spent /\ Cargoes[c] = {} /\ Askings[c] = {} /\ Cargoes'[c] = {} /\ Askings'[c] = {}
  BY <1>1, <1>2, GetterHas, ServerAssumption
<1>4. Elsewhere(c)
  BY WorkerElsewhere DEF Sound, WorkerAlone
<1> QED
  BY <1>1, <1>3, <1>4, ConnectionShrinks

(* A step of two workers, one that puts and one that gets: it is as if one *)
(* of them moved, and then the other.                                      *)
LEMMA PairElsewhere ==
    ASSUME NEW c \in Clients, NEW d \in Clients \ {c},
           pc' = pc, toServer' = toServer, toClient' = toClient,
           \A e \in Clients \ {c, d} : worker'[e] = worker[e],
           c \notin Spent, d \notin Spent
    PROVE  /\ Spent \subseteq Spent'
           /\ \E K :
                 /\ OthersHave(c, Cargoes, K) /\ OthersHave(d, K, Cargoes')
                 /\ K[c] = Cargoes'[c] /\ K[d] = Cargoes[d]
           /\ \E R :
                 /\ OthersHave(c, Askings, R) /\ OthersHave(d, R, Askings')
                 /\ R[c] = Askings'[c]
<1>1. ASSUME NEW e \in Clients \ {c, d}
      PROVE  Cargoes'[e] = Cargoes[e] /\ Askings'[e] = Askings[e]
  BY <1>1, CargoAt
<1>2. Spent \subseteq Spent'
  <2> SUFFICES ASSUME NEW e \in Spent PROVE e \in Spent'
    OBVIOUS
  <2>1. e \in Clients \ {c, d}
    BY DEF Spent, Clients
  <2> QED
    BY <2>1 DEF Spent
<1>3. DOMAIN Cargoes = Clients /\ DOMAIN Askings = Clients
  BY DEF Cargoes, Askings
<1> DEFINE K == [Cargoes EXCEPT ![c] = Cargoes'[c]]
           R == [Askings EXCEPT ![c] = Askings'[c]]
<1>4. K[c] = Cargoes'[c] /\ \A e \in Clients \ {c} : K[e] = Cargoes[e]
  BY <1>3
<1>5. R[c] = Askings'[c] /\ \A e \in Clients \ {c} : R[e] = Askings[e]
  BY <1>3
<1> HIDE DEF K, R
<1>6. OthersHave(c, Cargoes, K) /\ OthersHave(d, K, Cargoes') /\ K[d] = Cargoes[d]
  BY <1>1, <1>4 DEF OthersHave
<1>7. OthersHave(c, Askings, R) /\ OthersHave(d, R, Askings')
  BY <1>1, <1>5 DEF OthersHave
<1> QED
  BY <1>2, <1>4, <1>5, <1>6, <1>7

(* The parts of Conserved that an action on the chains or the tempLists needs.  *)
LEMMA KeptParts ==
    ASSUME Sound, Conserved
    PROVE  /\ queue \in Sequences /\ Once(queue) /\ temp \in Sequences /\ Once(temp)
           /\ Apart(In(queue), In(temp), Cargoes, Askings, delivered, accepted, sent)
           /\ Gone = GoneOf(In(queue), In(temp), Cargoes, delivered, accepted)
  BY DEF Conserved, MessagesApart, Sound, MessagesTyped, Sequences, Gone

LEMMA KeptAgain ==
    ASSUME LossCounted, Once(queue)', Once(temp)',
           NEW Q, NEW T, Q = In(queue)', T = In(temp)',
           Apart(Q, T, Cargoes', Askings', delivered', accepted', sent'),
           GoneOf(Q, T, Cargoes', delivered', accepted') \subseteq Gone,
           Spent \subseteq Spent'
    PROVE  Conserved'
<1>1. Gone' \subseteq Gone
  BY DEF Gone
<1> QED
  BY <1>1, NoneLost DEF Conserved, MessagesApart

LEMMA GetAdmitsExpiredKeeps ==
    ASSUME Sound, Conserved, NEW c \in Clients, NEW d \in Clients \ {c}, GetAdmitsExpired(c, d)
    PROVE  Conserved'
<1> DEFINE q == worker[c].queue
           h == Head(queue[q])
           m == worker[d].msg
           K2 == Cargoes'
           R2 == Askings'
           Q == In(queue)
           T == In(temp)
           g == queue'
<1>1. /\ At(c, "get") /\ Putting(d) /\ Len(queue[q]) = Limit
      /\ temp' = temp /\ UNCHANGED historyVars
      /\ pc' = pc /\ toServer' = toServer /\ toClient' = toClient
      /\ worker'[c] = Answered(worker[c], "succ", h) /\ worker'[d] = PutEnded(worker[d], "timeout")
      /\ \A e \in Clients \ {c, d} : worker'[e] = worker[e]
  BY DEF GetAdmitsExpired, Sound, ConnectionsTyped, clientVars
<1>2. g = [queue EXCEPT ![q] = Append(Tail(queue[q]), m)]
  BY DEF GetAdmitsExpired
<1>3. q \in Queues
  BY <1>1, AtConnection DEF Sound, Connection, WorkerStands, At
<1>4. /\ queue \in Sequences /\ Once(queue) /\ temp \in Sequences /\ Once(temp)
      /\ Apart(Q, T, Cargoes, Askings, delivered, accepted, sent)
      /\ Gone = GoneOf(Q, T, Cargoes, delivered, accepted)
  BY KeptParts
<1>5. queue[q] # <<>>
  <2>1. queue[q] \in Seq(Messages)
    BY <1>3 DEF Sound, MessagesTyped
  <2> QED
    BY <1>1, <2>1, ServerAssumption
<1> DEFINE f == [queue EXCEPT ![q] = Tail(queue[q])]
<1>6. f \in Sequences /\ Once(f) /\ In(f) = Q \ {h} /\ h \in Q /\ h \in Messages
  <2> HIDE DEF f, q
  <2>1. f = [queue EXCEPT ![q] = Tail(queue[q])]
    BY DEF f
  <2>2. queue \in Sequences /\ Once(queue) /\ q \in Queues
    BY <1>3, <1>4
  <2>3. /\ f \in Sequences /\ Once(f) /\ In(f) = In(queue) \ {Head(queue[q])}
        /\ Head(queue[q]) \in In(queue) /\ Head(queue[q]) \in Messages
    BY ONLY <1>5, <2>1, <2>2, TakenOnce
  <2> QED
    BY <2>3
<1>7. worker'[c].at = "reply" /\ worker'[c].msg = h
  <2> HIDE DEF h
  <2>1. At(c, "get") /\ worker'[c] = Answered(worker[c], "succ", h) /\ h \in Messages
    BY <1>1, <1>6
  <2>2. /\ Answered(worker[c], "succ", h).at = "reply"
        /\ Answered(worker[c], "succ", h).msg = h
    BY <2>1, GetAnsweredStands DEF Sound
  <2> QED
    BY <2>1, <2>2
<1>8. worker'[d].msg = None
  BY <1>1, PutEndedStands DEF Sound, Results
<1>9. /\ c \notin Spent /\ Cargoes[c] = {} /\ Askings[c] = {} /\ R2[c] = {} /\ K2[c] = {h}
  <2> HIDE DEF h
  <2> QED
    BY <1>1, <1>6, <1>7, GetterHas
<1>10. /\ m \in Messages /\ d \notin Spent /\ Cargoes[d] = {m} /\ K2[d] = {} /\ R2[d] = {}
  BY <1>1, <1>8, PutterHas
<1> HIDE DEF K2, R2, q, h, m, Q, T, f, g
<1>11. /\ Spent \subseteq Spent'
       /\ \E K : /\ OthersHave(c, Cargoes, K) /\ OthersHave(d, K, K2)
                 /\ K[c] = {h} /\ K[d] = {m}
       /\ \E R : OthersHave(c, Askings, R) /\ OthersHave(d, R, R2) /\ R[c] = {}
  <2>1. /\ pc' = pc /\ toServer' = toServer /\ toClient' = toClient
        /\ \A e \in Clients \ {c, d} : worker'[e] = worker[e]
    BY <1>1
  <2>2. /\ Spent \subseteq Spent'
        /\ \E K : /\ OthersHave(c, Cargoes, K) /\ OthersHave(d, K, K2)
                  /\ K[c] = K2[c] /\ K[d] = Cargoes[d]
        /\ \E R : OthersHave(c, Askings, R) /\ OthersHave(d, R, R2) /\ R[c] = R2[c]
    BY <1>9, <1>10, <2>1, PairElsewhere DEF K2, R2
  <2> QED
    BY <1>9, <1>10, <2>2
<1>12. PICK K : /\ OthersHave(c, Cargoes, K) /\ OthersHave(d, K, K2)
                /\ K[c] = {h} /\ K[d] = {m}
  BY <1>11
<1>13. PICK R : OthersHave(c, Askings, R) /\ OthersHave(d, R, R2) /\ R[c] = {}
  BY <1>11
<1>14. /\ Apart(Q \ {h}, T, K, R, delivered, accepted, sent)
       /\ GoneOf(Q \ {h}, T, K, delivered, accepted) \subseteq Gone
  BY <1>4, <1>6, <1>9, <1>12, <1>13, TakenOut
<1>15. /\ Apart((Q \ {h}) \cup {m}, T, K2, R2, delivered, accepted, sent)
       /\ GoneOf((Q \ {h}) \cup {m}, T, K2, delivered, accepted) \subseteq Gone
       /\ m \notin Q \ {h}
  <2> DEFINE L == Q \ {h}
  <2>1. Apart(L, T, K, R, delivered, accepted, sent)
    BY <1>14
  <2>2. m \in K[d] /\ K[d] = {m} /\ K2[d] = {} /\ R2[d] = {} /\ d \in Clients
    BY <1>10, <1>12
  <2> HIDE DEF L
  <2>3. /\ Apart(L \cup {m}, T, K2, R2, delivered, accepted, sent)
        /\ GoneOf(L \cup {m}, T, K2, delivered, accepted) \subseteq GoneOf(L, T, K, delivered, accepted)
        /\ m \notin L
    <3>1. OthersHave(d, K, K2) /\ OthersHave(d, R, R2)
      BY <1>12, <1>13
    <3> QED
      BY ONLY <2>1, <2>2, <3>1, QueuedUp
  <2> QED
    BY <1>14, <2>3 DEF L
<1>16. Once(g) /\ In(g) = (Q \ {h}) \cup {m}
  <2>1. f[q] = Tail(queue[q]) /\ g = [f EXCEPT ![q] = Append(f[q], m)]
    BY <1>2, <1>3, <1>4 DEF f, Sequences
  <2>2. m \notin In(f) /\ m \in Messages /\ f \in Sequences /\ Once(f) /\ q \in Queues
    BY <1>3, <1>6, <1>10, <1>15
  <2>3. Once(g) /\ In(g) = In(f) \cup {m}
    BY ONLY <2>1, <2>2, AppendedOnce
  <2> QED
    BY <1>6, <2>3
<1>17. /\ Once(queue)' /\ In(queue)' = (Q \ {h}) \cup {m}
       /\ Once(temp)' /\ In(temp)' = T
  <2>1. Once(queue)' /\ In(queue)' = (Q \ {h}) \cup {m}
    BY <1>16 DEF g, Once, In
  <2>2. Once(temp)' /\ In(temp)' = In(temp)
    BY <1>1, <1>4 DEF Once, In
  <2> QED
    BY <2>1, <2>2 DEF T
<1>18. sent' = sent /\ accepted' = accepted /\ delivered' = delivered
  BY <1>1 DEF historyVars
<1> QED
  BY <1>11, <1>15, <1>17, <1>18, KeptAgain DEF Conserved, K2, R2

LEMMA PutHandsOverKeeps ==
    ASSUME Sound, Conserved, NEW c \in Clients, NEW d \in Clients \ {c}, PutHandsOver(c, d)
    PROVE  Conserved'
<1> DEFINE q == worker[c].queue
           m == worker[c].msg
           given == Append(temp[q], m)
           f == [temp EXCEPT ![q] = given]
           h == Head(given)
           K2 == Cargoes'
           R2 == Askings'
           A2 == accepted'
           Q == In(queue)
           T == In(temp)
           g == temp'
           ToTheLate == g = f /\ worker'[d] = Answered(worker[d], "timeout", None)
           Handed == g = [temp EXCEPT ![q] = Tail(given)] /\ worker'[d] = Answered(worker[d], "succ", h)
<1>1. /\ Putting(c) /\ At(d, "get") /\ Accepted(c) /\ UNCHANGED <<queue, sent, delivered>>
      /\ pc' = pc /\ toServer' = toServer /\ toClient' = toClient
      /\ worker'[c] = PutEnded(worker[c], "succ")
      /\ \A e \in Clients \ {c, d} : worker'[e] = worker[e]
  BY DEF PutHandsOver, Sound, ConnectionsTyped, clientVars
<1>2. Handed \/ ToTheLate
  BY DEF PutHandsOver, Sound, ConnectionsTyped
<1>3. A2 = accepted \/ A2 = accepted \cup {m}
  BY <1>1 DEF Accepted
<1>4. /\ queue \in Sequences /\ Once(queue) /\ temp \in Sequences /\ Once(temp)
      /\ Apart(Q, T, Cargoes, Askings, delivered, accepted, sent)
      /\ Gone = GoneOf(Q, T, Cargoes, delivered, accepted)
  BY KeptParts
<1>5. worker'[c].msg = None
  BY <1>1, PutEndedStands DEF Sound, Results
<1>6. /\ m \in Messages /\ q \in Queues /\ c \notin Spent
      /\ Cargoes[c] = {m} /\ K2[c] = {} /\ R2[c] = {}
  BY <1>1, <1>5, PutterHas
<1>7. m \notin T
  BY <1>4, <1>6 DEF Apart
<1>8. f \in Sequences /\ Once(f) /\ In(f) = T \cup {m} /\ f[q] = given /\ given # <<>>
  <2> HIDE DEF T, f, m, q
  <2>1. f = [temp EXCEPT ![q] = Append(temp[q], m)]
    BY DEF f
  <2>2. m \notin In(temp) /\ m \in Messages /\ temp \in Sequences /\ Once(temp) /\ q \in Queues
    BY <1>4, <1>6, <1>7 DEF T
  <2>3. f \in Sequences /\ Once(f) /\ In(f) = In(temp) \cup {m}
    BY ONLY <2>1, <2>2, AppendedOnce
  <2>4. f[q] = given
    BY <2>2 DEF f, Sequences
  <2>5. given # <<>>
    <3>1. temp[q] \in Seq(Messages)
      BY <2>2 DEF Sequences
    <3> QED
      BY <2>2, <3>1
  <2> QED
    BY <2>3, <2>4, <2>5 DEF T
<1> DEFINE f2 == [f EXCEPT ![q] = Tail(f[q])]
<1>9. /\ f2 = [temp EXCEPT ![q] = Tail(given)] /\ f2 \in Sequences /\ Once(f2)
      /\ In(f2) = (T \cup {m}) \ {h} /\ h \in T \cup {m} /\ h \in Messages
  <2>1. f2 = [temp EXCEPT ![q] = Tail(given)]
    BY <1>4, <1>6, <1>8 DEF Sequences
  <2>2. f \in Sequences /\ Once(f) /\ q \in Queues /\ f[q] # <<>> /\ f[q] = given
    BY <1>6, <1>8
  <2> HIDE DEF f, given, q
  <2>3. /\ f2 \in Sequences /\ Once(f2) /\ In(f2) = In(f) \ {Head(f[q])}
        /\ Head(f[q]) \in In(f) /\ Head(f[q]) \in Messages
    BY ONLY <2>2, TakenOnce
  <2> HIDE DEF T, m, f2
  <2> QED
    BY <1>8, <2>1, <2>2, <2>3
<1> HIDE DEF T, m, f, f2, given, q, h, g, K2, R2, A2
<1>10. /\ \/ /\ h \in T \cup {m} /\ h \in Messages
             /\ Once(g) /\ In(g) = (T \cup {m}) \ {h}
             /\ worker'[d] = Answered(worker[d], "succ", h)
          \/ /\ Once(g) /\ In(g) = T \cup {m}
             /\ worker'[d] = Answered(worker[d], "timeout", None)
  BY <1>2, <1>8, <1>9
<1> HIDE DEF Handed, ToTheLate, Q
<1>11. /\ worker'[d].at = "reply" /\ d \notin Spent /\ Cargoes[d] = {} /\ Askings[d] = {} /\ R2[d] = {}
       /\ worker'[d] = Answered(worker[d], "succ", h) /\ h \in Messages => K2[d] = {h}
       /\ worker'[d] = Answered(worker[d], "timeout", None) => K2[d] = {}
  <2>1. /\ worker'[d].at = "reply"
        /\ worker'[d] = Answered(worker[d], "succ", h) /\ h \in Messages => worker'[d].msg = h
        /\ worker'[d] = Answered(worker[d], "timeout", None) => worker'[d].msg = None
    BY <1>1, <1>10, GetAnsweredStands DEF Sound
  <2>2. /\ d \notin Spent /\ Cargoes[d] = {} /\ Askings[d] = {} /\ R2[d] = {}
        /\ K2[d] = IF worker'[d].msg \in Messages THEN {worker'[d].msg} ELSE {}
    BY <1>1, <2>1, GetterHas DEF K2, R2
  <2>3. None \notin Messages
    BY ServerAssumption
  <2> QED
    BY <2>1, <2>2, <2>3
<1>12. /\ Spent \subseteq Spent'
       /\ \E K : /\ OthersHave(c, Cargoes, K) /\ OthersHave(d, K, K2)
                 /\ K[c] = {} /\ K[d] = {}
       /\ \E R : OthersHave(c, Askings, R) /\ OthersHave(d, R, R2) /\ R[c] = {}
  <2>1. /\ pc' = pc /\ toServer' = toServer /\ toClient' = toClient
        /\ \A e \in Clients \ {c, d} : worker'[e] = worker[e]
    BY <1>1
  <2>2. /\ Spent \subseteq Spent'
        /\ \E K : /\ OthersHave(c, Cargoes, K) /\ OthersHave(d, K, K2)
                  /\ K[c] = K2[c] /\ K[d] = Cargoes[d]
        /\ \E R : OthersHave(c, Askings, R) /\ OthersHave(d, R, R2) /\ R[c] = R2[c]
    BY <1>6, <1>11, <2>1, PairElsewhere DEF K2, R2
  <2> QED
    BY <1>6, <1>11, <2>2
<1>13. PICK K : /\ OthersHave(c, Cargoes, K) /\ OthersHave(d, K, K2)
                /\ K[c] = {} /\ K[d] = {}
  BY <1>12
<1>14. PICK R : OthersHave(c, Askings, R) /\ OthersHave(d, R, R2) /\ R[c] = {}
  BY <1>12
<1> DEFINE L == T \cup {m}
<1>15. Apart(L, Q, K, R, delivered, A2, sent) /\ GoneOf(L, Q, K, delivered, A2) \subseteq Gone
  <2>1. Apart(T, Q, Cargoes, Askings, delivered, accepted, sent)
    BY <1>4, Swapped
  <2>2. /\ c \in Clients /\ m \in Cargoes[c] /\ Cargoes[c] = {m} /\ K[c] = {} /\ R[c] = {}
        /\ OthersHave(c, Cargoes, K) /\ OthersHave(c, Askings, R)
    BY <1>6, <1>13, <1>14
  <2>3. /\ Apart(T \cup {m}, Q, K, R, delivered, accepted, sent)
        /\ GoneOf(T \cup {m}, Q, K, delivered, accepted) \subseteq GoneOf(T, Q, Cargoes, delivered, accepted)
    BY ONLY <2>1, <2>2, QueuedUp
  <2>4. Gone = GoneOf(T, Q, Cargoes, delivered, accepted)
    BY <1>4, Swapped
  <2>5. m \in L /\ Apart(L, Q, K, R, delivered, accepted, sent)
    BY <2>3
  <2> HIDE DEF L
  <2>6. /\ Apart(L, Q, K, R, delivered, A2, sent)
        /\ GoneOf(L, Q, K, delivered, A2) \subseteq GoneOf(L, Q, K, delivered, accepted)
    BY ONLY <1>3, <2>5, AcceptedToo
  <2> QED
    BY <2>3, <2>4, <2>6 DEF L
<1>16. \A x : Apart(x, Q, K2, R2, delivered, A2, sent) /\ GoneOf(x, Q, K2, delivered, A2) \subseteq Gone
              /\ Once(g) /\ In(g) = x => Conserved'
  <2> SUFFICES ASSUME NEW x, Apart(x, Q, K2, R2, delivered, A2, sent),
                      GoneOf(x, Q, K2, delivered, A2) \subseteq Gone, Once(g), In(g) = x
               PROVE  Conserved'
    OBVIOUS
  <2>1. Apart(Q, x, K2, R2, delivered, A2, sent) /\ GoneOf(Q, x, K2, delivered, A2) \subseteq Gone
    BY Swapped
  <2>2. Once(queue)' /\ In(queue)' = Q
    BY <1>1, <1>4 DEF Once, In, Q
  <2>3. Once(temp)' /\ In(temp)' = x
    BY DEF g, Once, In
  <2>4. sent' = sent /\ delivered' = delivered
    BY <1>1
  <2> QED
    BY <1>12, <2>1, <2>2, <2>3, <2>4, KeptAgain DEF Conserved, K2, R2, A2
<1> HIDE DEF L
<1>17. CASE h \in L /\ h \in Messages /\ Once(g) /\ In(g) = L \ {h} /\ worker'[d] = Answered(worker[d], "succ", h)
  <2>1. /\ Apart(L \ {h}, Q, K2, R2, delivered, A2, sent)
        /\ GoneOf(L \ {h}, Q, K2, delivered, A2) \subseteq GoneOf(L, Q, K, delivered, A2)
    BY <1>11, <1>13, <1>14, <1>15, <1>17, TakenOut
  <2> QED
    BY <1>15, <1>16, <1>17, <2>1
<1>18. CASE Once(g) /\ In(g) = L /\ worker'[d] = Answered(worker[d], "timeout", None)
  <2>1. K2[d] \subseteq K[d] /\ R2[d] \subseteq R[d] /\ R2[d] \subseteq K2[d] /\ K[d] = {}
    BY <1>11, <1>13, <1>18
  <2>2. /\ Apart(L, Q, K2, R2, delivered, A2, sent)
        /\ GoneOf(L, Q, K2, delivered, A2) \subseteq GoneOf(L, Q, K, delivered, A2) \cup (K[d] \ (K2[d] \cup R[d]))
    BY <1>13, <1>14, <1>15, <2>1, Shrunk
  <2>3. GoneOf(L, Q, K2, delivered, A2) \subseteq Gone
    BY <1>15, <2>1, <2>2
  <2> QED
    BY <1>16, <1>18, <2>2, <2>3
<1> QED
  BY <1>10, <1>17, <1>18 DEF L

(* A worker that sends. *)
LEMMA SenderHas ==
    ASSUME Sound, NEW c \in Clients, worker[c].at \in {"reply", "data"},
           toServer' = toServer, pc' = pc, worker'[c].at # "put"
    PROVE  /\ toServer'[c] = <<>> /\ c \notin Spent /\ Askings[c] = {} /\ Askings'[c] = {}
           /\ Cargoes[c] = (IF worker[c].msg \in Messages THEN {worker[c].msg} ELSE {}) \cup OnWay(toClient[c])
           /\ Cargoes'[c] = InHandOf(worker'[c]) \cup OnWay(toClient'[c])
           /\ worker[c].msg # None => c \in Consumers
           /\ ~open[c] => pc'[c] = "closed" /\ toClient[c] = <<>>
<1>1. Connection(c, pc[c], open[c], toServer[c], toClient[c], worker[c])
  BY AtConnection DEF Sound
<1>2. toServer[c] = <<>> /\ pc[c] # "new"
  BY <1>1 DEF Connection, ToServerStands
<1>3. Asking(<<>>, worker[c]) = {} /\ Asking(<<>>, worker'[c]) = {}
  BY NothingAsked
<1>4. InHandOf(worker[c]) = IF worker[c].msg \in Messages THEN {worker[c].msg} ELSE {}
  BY InHandIs DEF Holding
<1>5. worker[c].msg # None => c \in Consumers
  BY <1>1 DEF Connection, WorkerStands, Holding
<1>6. ~open[c] => pc[c] = "closed" /\ toClient[c] = <<>>
  BY <1>1, <1>2 DEF Connection, ToClientStands
<1>7. c \notin Spent
  BY DEF Spent, Resting
<1> QED
  BY <1>2, <1>3, <1>4, <1>5, <1>6, <1>7, CargoAt DEF CargoOf

LEMMA SendFailedKeeps ==
    ASSUME Sound, Conserved, NEW c \in Clients, worker[c].at \in {"reply", "data"}, ~open[c],
           UNCHANGED <<queueVars, historyVars, toServer, toClient, pc>>, Elsewhere(c),
           worker'[c] = SendFailed(worker[c])
    PROVE  Conserved'
<1>1. /\ worker'[c].msg = worker[c].msg
      /\ worker'[c].at = IF worker[c].msg = None THEN "ended" ELSE "reput"
  BY SendFailedStands DEF Sound
<1>2. /\ c \notin Spent /\ Askings[c] = {} /\ Askings'[c] = {}
      /\ Cargoes[c] = (IF worker[c].msg \in Messages THEN {worker[c].msg} ELSE {}) \cup OnWay(toClient[c])
      /\ Cargoes'[c] = InHandOf(worker'[c]) \cup OnWay(toClient'[c])
  BY <1>1, SenderHas
<1>3. InHandOf(worker'[c]) = IF worker[c].msg \in Messages THEN {worker[c].msg} ELSE {}
  BY <1>1, InHandIs, ServerAssumption DEF Holding
<1>4. Cargoes'[c] = Cargoes[c]
  BY <1>2, <1>3
<1> QED
  BY <1>2, <1>4, ConnectionShrinks

(* What was in the worker's hand and did not arrive is lost. *)
LEMMA HandEmptied ==
    ASSUME Sound, Conserved, NEW c \in Clients, worker[c].at \in {"reply", "data"}, ~open[c],
           UNCHANGED <<queueVars, historyVars, toServer, toClient, pc>>, Elsewhere(c),
           worker'[c] = Receiving
    PROVE  Conserved'
<1>1. worker'[c].at = "receive" /\ worker'[c].msg = None
  BY RestingWorkers
<1>2. /\ toServer'[c] = <<>> /\ c \notin Spent /\ Askings[c] = {} /\ Askings'[c] = {}
      /\ Cargoes[c] = (IF worker[c].msg \in Messages THEN {worker[c].msg} ELSE {}) \cup OnWay(toClient[c])
      /\ Cargoes'[c] = InHandOf(worker'[c]) \cup OnWay(toClient'[c])
      /\ worker[c].msg # None => c \in Consumers
      /\ pc'[c] = "closed"
  BY <1>1, SenderHas
<1>3. InHandOf(worker'[c]) = {}
  BY <1>1, InHandIs DEF Holding
<1>4. Cargoes'[c] \subseteq Cargoes[c]
      /\ Cargoes[c] \subseteq Cargoes'[c] \cup (IF worker[c].msg \in Messages THEN {worker[c].msg} ELSE {})
  BY <1>2, <1>3
<1>5. CASE worker[c].msg \in Messages
  <2>1. c \in Consumers
    BY <1>2, <1>5, ServerAssumption
  <2>2. c \in Spent'
    <3>1. Len(toServer'[c]) < 2
      BY <1>2
    <3>2. worker'[c].at \in Resting
      BY <1>1 DEF Resting
    <3> QED
      BY <1>2, <2>1, <3>1, <3>2, SpentAt
  <2>3. \E m : Cargoes[c] \subseteq Cargoes'[c] \cup Askings[c] \cup {m}
    BY <1>4, <1>5
  <2> QED
    BY <1>2, <1>4, <2>2, <2>3, ConnectionShrinks
<1>6. CASE worker[c].msg \notin Messages
  BY <1>2, <1>4, <1>6, ConnectionShrinks
<1> QED
  BY <1>5, <1>6

LEMMA SendsReplyKeeps ==
    ASSUME Sound, Conserved, NEW c \in Clients, SendsReply(c)
    PROVE  Conserved'
<1> DEFINE w == worker[c]
           reply == ReplyOf(w)
<1>1. /\ w.at = "reply" /\ UNCHANGED <<queueVars, historyVars, toServer, pc>>
      /\ \/ /\ worker'[c] = HasReplied(w)
            /\ Delivered(c, <<Head_, reply>>)
         \/ ~open[c] /\ worker'[c] = SendFailed(w) /\ toClient' = toClient
  BY DEF SendsReply, Set, At, HasReplied, ReplyOf, Receiving, Sound, ConnectionsTyped, clientVars
<1>2. Elsewhere(c)
  BY WorkerElsewhere DEF Sound, WorkerAlone
<1>3. w \in Workers /\ (w.msg \in Messages \/ w.msg = None)
  BY AtConnection DEF Sound, Workers
<1>4. CASE ~open[c] /\ worker'[c] = SendFailed(w) /\ toClient' = toClient
  BY <1>1, <1>2, <1>4, SendFailedKeeps
<1>5. ASSUME worker'[c] = HasReplied(w), w.msg \in Messages \ Empty
      PROVE  worker'[c].at = "data" /\ worker'[c].msg = w.msg
  BY <1>3, <1>5 DEF HasReplied, MsgLen, Workers
<1>6. ASSUME worker'[c] = HasReplied(w), w.msg \notin Messages \ Empty
      PROVE  worker'[c] = Receiving /\ worker'[c].at = "receive"
  BY <1>6, RestingWorkers DEF HasReplied, MsgLen
<1>7. ASSUME worker'[c] = HasReplied(w)
      PROVE  /\ c \notin Spent /\ Askings[c] = {} /\ Askings'[c] = {}
             /\ Cargoes[c] = (IF worker[c].msg \in Messages THEN {worker[c].msg} ELSE {}) \cup OnWay(toClient[c])
             /\ Cargoes'[c] = InHandOf(worker'[c]) \cup OnWay(toClient'[c])
  BY <1>1, <1>5, <1>6, <1>7, SenderHas
<1>8. CASE ~open[c] /\ worker'[c] = HasReplied(w) /\ Delivered(c, <<Head_, reply>>)
  <2>1. toClient' = toClient
    BY <1>8 DEF Delivered
  <2>2. CASE w.msg \in Messages \ Empty
    <3>1. InHandOf(worker'[c]) = {w.msg}
      BY <1>5, <1>8, <2>2, InHandIs DEF Holding
    <3>2. Cargoes'[c] = Cargoes[c]
      BY <1>7, <1>8, <2>1, <2>2, <3>1
    <3> QED
      BY <1>1, <1>2, <1>7, <1>8, <3>2, ConnectionShrinks
  <2>3. CASE w.msg \notin Messages \ Empty
    BY <1>1, <1>2, <1>6, <1>8, <2>1, <2>3, HandEmptied
  <2> QED
    BY <2>2, <2>3
<1>9. CASE open[c] /\ worker'[c] = HasReplied(w) /\ Delivered(c, <<Head_, reply>>)
  <2>1. toClient[c] = <<>> /\ reply \in Replies /\ reply.msg = IF w.msg \in Empty THEN w.msg ELSE None
    BY <1>1, <1>9, ReplyTaken DEF Sound, ReplyStands, ReplyOf
  <2>2. toClient'[c] = <<Head_, reply>>
    <3>1. toClient'[c] = toClient[c] \o <<Head_, reply>>
      BY <1>9 DEF Delivered, Sound, ConnectionsTyped
    <3>2. <<>> \o <<Head_, reply>> = <<Head_, reply>>
      OBVIOUS
    <3> QED
      BY <2>1, <3>1, <3>2
  <2> HIDE DEF reply
  <2>3. OnWay(toClient[c]) = {} /\ OnWay(toClient'[c]) = IF reply.msg = None THEN {} ELSE {reply.msg}
    <3> DEFINE t == <<Head_, reply>>
    <3>1. t \in Seq(ClientBytes)
      BY <2>1 DEF ClientBytes
    <3>2. Len(t) = 2 /\ t[1] = Head_ /\ t[2] = reply
      OBVIOUS
    <3> HIDE DEF t
    <3>3. OnWay(t) = IF reply.msg = None THEN {} ELSE {reply.msg}
      BY <2>1, <3>1, <3>2, OnWayIs
    <3>4. OnWay(<<>>) = {}
      <4>1. <<>> \in Seq(ClientBytes)
        OBVIOUS
      <4> QED
        BY <4>1, OnWayIs
    <3> QED
      BY <2>1, <2>2, <3>3, <3>4 DEF t
  <2>4. Cargoes'[c] = Cargoes[c]
    <3>1. CASE w.msg \in Messages \ Empty
      <4>1. InHandOf(worker'[c]) = {w.msg} /\ reply.msg = None
        BY <1>5, <1>9, <2>1, <3>1, InHandIs DEF Holding
      <4> QED
        BY <1>7, <1>9, <2>3, <3>1, <4>1
    <3>2. CASE w.msg \notin Messages \ Empty
      <4>1. InHandOf(worker'[c]) = {}
        BY <1>6, <1>9, <3>2, InHandIs DEF Holding
      <4>2. Empty \subseteq Messages /\ None \notin Messages
        BY ServerAssumption
      <4>3. CASE w.msg \in Empty
        BY <1>7, <1>9, <2>1, <2>3, <4>1, <4>2, <4>3
      <4>4. CASE w.msg \notin Empty
        BY <1>7, <1>9, <2>1, <2>3, <3>2, <4>1, <4>2, <4>4
      <4> QED
        BY <4>3, <4>4
    <3> QED
      BY <3>1, <3>2
  <2> QED
    BY <1>1, <1>2, <1>7, <1>9, <2>4, ConnectionShrinks
<1> QED
  BY <1>1, <1>4, <1>8, <1>9

LEMMA SendsDataKeeps ==
    ASSUME Sound, Conserved, NEW c \in Clients, SendsData(c)
    PROVE  Conserved'
<1> DEFINE w == worker[c]
           tc == toClient[c]
           t == toClient'[c]
<1>1. /\ w.at = "data" /\ UNCHANGED <<queueVars, historyVars, toServer, pc>>
      /\ \/ worker'[c] = Receiving /\ Delivered(c, <<w.msg>>)
         \/ ~open[c] /\ worker'[c] = SendFailed(w) /\ toClient' = toClient
  BY DEF SendsData, Set, At, Receiving, Sound, ConnectionsTyped, clientVars
<1>2. Elsewhere(c)
  BY WorkerElsewhere DEF Sound, WorkerAlone
<1>3. CASE ~open[c] /\ worker'[c] = SendFailed(w) /\ toClient' = toClient
  BY <1>1, <1>2, <1>3, SendFailedKeeps
<1>4. CASE ~open[c] /\ worker'[c] = Receiving /\ Delivered(c, <<w.msg>>)
  <2>1. toClient' = toClient
    BY <1>4 DEF Delivered
  <2> QED
    BY <1>1, <1>2, <1>4, <2>1, HandEmptied
<1>5. CASE open[c] /\ worker'[c] = Receiving /\ Delivered(c, <<w.msg>>)
  <2>1. worker'[c].at = "receive"
    BY <1>5, RestingWorkers
  <2>2. /\ c \notin Spent /\ Askings[c] = {} /\ Askings'[c] = {}
        /\ Cargoes[c] = (IF w.msg \in Messages THEN {w.msg} ELSE {}) \cup OnWay(tc)
        /\ Cargoes'[c] = InHandOf(worker'[c]) \cup OnWay(t)
    BY <1>1, <2>1, SenderHas
  <2>3. InHandOf(worker'[c]) = {}
    BY <2>1, InHandIs DEF Holding
  <2>4. /\ w.msg \in Messages
        /\ \/ tc = <<>>
           \/ /\ Len(tc) = 2 /\ tc[1] = Head_ /\ ReplyStands("get", tc[2]) /\ tc[2].msg_len = 1
    BY <1>1, <1>5, DataTaken DEF Sound
  <2>5. t = tc \o <<w.msg>>
    BY <1>5 DEF Delivered, Sound, ConnectionsTyped
  <2>6. tc \in Seq(ClientBytes) /\ w.msg \in ClientBytes
    BY <2>4, AtConnection DEF Sound, ClientBytes
  <2> HIDE DEF t, tc, w
  <2>7. /\ t \in Seq(ClientBytes)
        /\ tc = <<>> => Len(t) = 1 /\ t[1] = w.msg
        /\ Len(tc) = 2 => Len(t) = 3 /\ t[3] = w.msg /\ t[1] = tc[1] /\ t[2] = tc[2]
    BY ONLY <2>5, <2>6, OneMore
  <2>8. OnWay(tc) = {} /\ OnWay(t) = {w.msg}
    <3>1. CASE tc = <<>>
      BY <2>4, <2>6, <2>7, <3>1, OnWayIs
    <3>2. CASE Len(tc) = 2 /\ tc[1] = Head_ /\ ReplyStands("get", tc[2]) /\ tc[2].msg_len = 1
      <4>1. tc[2] \in Replies /\ tc[2].msg = None
        BY <3>2 DEF ReplyStands
      <4>2. OnWay(tc) = {}
        BY <2>6, <3>2, <4>1, OnWayIs
      <4>3. Len(t) = 3 /\ t[1] = Head_ /\ t[2] \in Replies /\ t[2].msg = None /\ t[3] \in Messages /\ t[3] = w.msg
        BY <2>4, <2>7, <3>2, <4>1
      <4>4. OnWay(t) = {w.msg}
        BY <2>7, <4>3, OnWayIs
      <4> QED
        BY <4>2, <4>4
    <3> QED
      BY <2>4, <3>1, <3>2
  <2>9. Cargoes'[c] = Cargoes[c]
    BY <2>2, <2>3, <2>4, <2>8
  <2> QED
    BY <1>1, <1>2, <2>2, <2>9, ConnectionShrinks
<1> QED
  BY <1>1, <1>3, <1>4, <1>5

-----------------------------------------------------------------------------
(* No message is in two places. *)

LEMMA KeptAtFirst ==
    ASSUME Init
    PROVE  Conserved
<1>1. queue = [q \in Queues |-> <<>>] /\ temp = [q \in Queues |-> <<>>]
  BY DEF Init
<1>2. In(queue) = {} /\ In(temp) = {} /\ Once(queue) /\ Once(temp)
  BY <1>1 DEF In, Once
<1>3. ASSUME NEW c \in Clients
      PROVE  Cargoes[c] = {} /\ Askings[c] = {}
  <2>1. toServer[c] = <<>> /\ toClient[c] = <<>> /\ worker[c].at = "none"
    BY DEF Init, NoWorker
  <2>2. Cargoes[c] = {}
    BY <2>1, CargoAt, CargoOfWorker DEF Holding
  <2> QED
    BY <2>2, CargoAt DEF CargoOf
<1>4. sent = {} /\ accepted = {} /\ delivered = {}
  BY DEF Init
<1>5. MessagesApart
  BY <1>2, <1>3, <1>4 DEF MessagesApart, Apart
<1>6. Gone = {}
  BY <1>4 DEF Gone, GoneOf
<1>7. IsFiniteSet(Spent)
  BY ServerAssumption, FS_Subset DEF Spent, Clients
<1>8. LossCounted
  <2>1. IsFiniteSet({}) /\ Cardinality({}) = 0 /\ Cardinality(Spent) \in Nat
    BY <1>7, FS_EmptySet, FS_CardinalityType
  <2> QED
    BY <1>6, <2>1 DEF LossCounted
<1> QED
  BY <1>5, <1>8 DEF Conserved

LEMMA NothingMoves ==
    ASSUME Conserved, UNCHANGED <<queueVars, clientVars, toServer, toClient, worker, historyVars>>
    PROVE  Conserved'
<1>1. /\ queue' = queue /\ temp' = temp /\ pc' = pc /\ toServer' = toServer /\ toClient' = toClient
      /\ worker' = worker /\ sent' = sent /\ accepted' = accepted /\ delivered' = delivered
  BY DEF queueVars, clientVars, historyVars
<1>2. Cargoes' = Cargoes /\ Askings' = Askings
  BY <1>1 DEF Cargoes, Askings
<1>3. Spent' = Spent
  BY <1>1 DEF Spent
<1>4. In(queue)' = In(queue) /\ In(temp)' = In(temp) /\ Once(queue)' = Once(queue) /\ Once(temp)' = Once(temp)
  BY <1>1 DEF In, Once
<1>5. Gone' = Gone
  BY <1>1, <1>2, <1>4 DEF Gone
<1> QED
  BY <1>1, <1>2, <1>3, <1>4, <1>5 DEF Conserved, MessagesApart, LossCounted

LEMMA StepKeeps ==
    ASSUME IInv, Running, Sound, Conserved, [Next]_vars
    PROVE  Conserved'
<1>1. CASE NamesQueues \/ Start \/ UNCHANGED vars
  BY <1>1, NothingMoves DEF NamesQueues, Start, vars
<1>2. ASSUME NEW c \in Clients, ClientStep(c)
      PROVE  Conserved'
  BY <1>2, ReceivesReplyKeeps, ReceivesDataKeeps DEF ClientStep
<1>3. ASSUME NEW c \in Clients, ClientCall(c)
      PROVE  Conserved'
  <2>1. CASE Connects(c)
    BY <2>1, ConnectsKeeps
  <2>2. CASE Closes(c)
    BY <2>2, ClosesKeeps
  <2>3. ASSUME NEW n \in Asked, NEW w \in Waits[c],
               SendsGet(c, n, w) \/ \E m \in Messages : SendsPut(c, m, n, w) \/ JavaSendsPut(c, m, n, w)
        PROVE  Conserved'
    <3>1. Waits[c] \subseteq {"forever", "timed"} /\ Asked \subseteq Names
      BY ServerAssumption
    <3> QED
      BY <2>3, <3>1, SendsGetKeeps, SendsPutKeeps
  <2> QED
    BY <1>3, <2>1, <2>2, <2>3 DEF ClientCall
<1>4. ASSUME NEW c \in Clients, WorkerStep(c)
      PROVE  Conserved'
  <2>1. CASE Accepts(c) \/ Receives(c) \/ ReceiveFails(c)
    <3>1. ASSUME Receives(c)
          PROVE  \A n \in Names : Found(table, n) \in Queues \cup {None}
      BY <3>1, TakesRequest DEF Sound, Receives, At
    <3> QED
      BY <2>1, <3>1, AcceptsKeeps, ReceivesKeeps, ReceiveFailsKeeps
  <2>2. CASE PutQueues(c) \/ PutTimesOut(c)
    BY <2>2, PutQueuesKeeps, PutTimesOutKeeps
  <2>3. CASE GetPops(c) \/ GetTimesOut(c)
    BY <2>3, GetPopsKeeps, GetTimesOutKeeps
  <2>4. CASE \E d \in Clients \ {c} : GetAdmitsExpired(c, d)
    BY <2>4, GetAdmitsExpiredKeeps
  <2>5. CASE \E d \in Clients \ {c} : PutHandsOver(c, d)
    BY <2>5, PutHandsOverKeeps
  <2>6. CASE SendsReply(c) \/ SendsData(c)
    BY <2>6, SendsReplyKeeps, SendsDataKeeps
  <2> QED
    BY <1>4, <2>1, <2>2, <2>3, <2>4, <2>5, <2>6 DEF WorkerStep
<1> QED
  BY <1>1, <1>2, <1>3, <1>4 DEF Next

(* SInv, the invariant that the two theorems below rest on. *)
THEOREM ServerInvariant == Spec => []SInv
<1>1. Init => Conserved
  BY KeptAtFirst
<1>2. IInv /\ (TypeOK /\ Running /\ Connected) /\ Conserved /\ [Next]_vars => Conserved'
  BY StepKeeps, TypeParts DEF Sound
<1>3. TypeOK /\ Running /\ Connected /\ Conserved => SInv
  BY DEF SInv, Conserved
<1>4. Spec => []IInv
  BY TableRuns, Invariant, PTL
<1> QED
  BY <1>1, <1>2, <1>3, <1>4, ConnectionsHold, PTL DEF Spec

LEMMA PlacesCounted ==
    ASSUME NEW f \in Sequences, Once(f), NEW m
    PROVE  Cardinality(PlacesIn(f, m)) = IF m \in In(f) THEN 1 ELSE 0
<1>1. CASE m \notin In(f)
  <2>1. PlacesIn(f, m) = {}
    BY <1>1 DEF PlacesIn, In
  <2> QED
    BY <1>1, <2>1, FS_EmptySet
<1>2. CASE m \in In(f)
  <2>1. PICK q \in Queues : \E i \in DOMAIN f[q] : f[q][i] = m
    BY <1>2 DEF In
  <2>2. PICK i \in DOMAIN f[q] : f[q][i] = m
    BY <2>1
  <2>3. \A r \in Queues : \A j \in DOMAIN f[r] : f[r][j] = m => r = q /\ j = i
    BY <2>2 DEF Once
  <2>4. PlacesIn(f, m) = {<<q, i>>}
    BY <2>2, <2>3 DEF PlacesIn
  <2> QED
    BY <1>2, <2>4, FS_Singleton
<1> QED
  BY <1>1, <1>2

LEMMA OneAtMost ==
    ASSUME NEW S, NEW x, S \subseteq {x}
    PROVE  Cardinality(S) = IF S = {} THEN 0 ELSE 1
<1>1. S = {} \/ S = {x}
  OBVIOUS
<1> QED
  BY <1>1, FS_EmptySet, FS_Singleton

(* A worker with a message in its hand has not sent it. *)
LEMMA HandOrWay ==
    ASSUME ConnectionsTyped, Connected, NEW c \in Clients
    PROVE  InHandOf(worker[c]) \cap OnWay(toClient[c]) = {}
<1> DEFINE w == worker[c]
           tc == toClient[c]
<1>1. tc \in Seq(ClientBytes) /\ Connection(c, pc[c], open[c], toServer[c], tc, w)
  BY AtConnection
<1>2. /\ open[c] <=> pc[c] \notin {"new", "closed"}
      /\ ToClientStands(pc[c], tc, w)
  BY <1>1 DEF Connection
<1>3. CASE w.at \notin Holding
  BY <1>3, InHandIs
<1>4. CASE w.at \in Holding /\ tc = <<>>
  BY <1>1, <1>4, OnWayIs
<1>5. CASE w.at \in Holding /\ tc # <<>>
  <2>1. /\ pc[c] \in {"put", "get"} /\ Len(tc) = 2 /\ tc[1] = Head_
        /\ ReplyStands(pc[c], tc[2]) /\ tc[2].msg_len = 1
    BY <1>2, <1>5 DEF ToClientStands, Holding
  <2>2. tc[2] \in Replies /\ tc[2].msg = None
    BY <2>1 DEF ReplyStands
  <2> HIDE DEF tc
  <2>3. OnWay(tc) = {}
    BY <1>1, <2>1, <2>2, OnWayIs
  <2> QED
    BY <2>3 DEF tc
<1> QED
  BY <1>3, <1>4, <1>5

LEMMA CopiesCounted ==
    ASSUME SInv, NEW m \in Messages
    PROVE  /\ Copies(m) <= 1
           /\ Copies(m) = 0 => /\ m \notin In(queue) /\ m \notin In(temp) /\ m \notin delivered
                               /\ \A c \in Clients : m \notin InHandOf(worker[c]) \cup OnWay(toClient[c])
<1>1. /\ ConnectionsTyped /\ Connected /\ queue \in Sequences /\ temp \in Sequences
      /\ Once(queue) /\ Once(temp)
      /\ Apart(In(queue), In(temp), Cargoes, Askings, delivered, accepted, sent)
  BY TypeParts DEF SInv, MessagesApart, MessagesTyped, Sequences
<1> DEFINE a == Cardinality(PlacesIn(queue, m))
           b == Cardinality(PlacesIn(temp, m))
           h == Cardinality(InHand(m))
           y == Cardinality(OnTheWay(m))
           e == IF m \in delivered THEN 1 ELSE 0
<1>2. a = (IF m \in In(queue) THEN 1 ELSE 0) /\ b = (IF m \in In(temp) THEN 1 ELSE 0)
  BY <1>1, PlacesCounted
<1>3. /\ InHand(m) = {c \in Clients : m \in InHandOf(worker[c])}
      /\ OnTheWay(m) = {c \in Clients : m \in OnWay(toClient[c])}
  BY DEF InHand, OnTheWay, InHandOf, OnWay, Holding
<1>4. \A c \in Clients : InHandOf(worker[c]) \cup OnWay(toClient[c]) \subseteq Cargoes[c]
  BY CargoAt DEF CargoOf
<1>5. CASE \E c \in Clients : m \in InHandOf(worker[c]) \cup OnWay(toClient[c])
  <2>1. PICK c \in Clients : m \in InHandOf(worker[c]) \cup OnWay(toClient[c])
    BY <1>5
  <2>2. m \in Cargoes[c] /\ \A d \in Clients \ {c} : m \notin Cargoes[d]
    BY <1>1, <1>4, <2>1 DEF Apart
  <2>3. InHand(m) \subseteq {c} /\ OnTheWay(m) \subseteq {c} /\ ~(c \in InHand(m) /\ c \in OnTheWay(m))
        /\ (c \in InHand(m) \/ c \in OnTheWay(m))
    BY <1>1, <1>3, <1>4, <2>1, <2>2, HandOrWay
  <2>4. h = (IF InHand(m) = {} THEN 0 ELSE 1) /\ y = (IF OnTheWay(m) = {} THEN 0 ELSE 1)
    BY <2>3, OneAtMost
  <2>5. h + y = 1 /\ h \in Nat /\ y \in Nat
    BY <2>3, <2>4
  <2>6. a = 0 /\ b = 0 /\ e = 0
    BY <1>1, <1>2, <2>2 DEF Apart
  <2> HIDE DEF a, b, h, y, e
  <2>7. a + b + h + y + e = 1
    BY <2>5, <2>6
  <2> QED
    BY <2>7 DEF Copies, a, b, h, y, e
<1>6. CASE \A c \in Clients : m \notin InHandOf(worker[c]) \cup OnWay(toClient[c])
  <2>1. InHand(m) = {} /\ OnTheWay(m) = {}
    BY <1>3, <1>6
  <2>2. h = 0 /\ y = 0
    BY <2>1, FS_EmptySet
  <2>3. /\ m \in In(queue) => m \notin In(temp) /\ m \notin delivered
        /\ m \in In(temp) => m \notin delivered
    BY <1>1 DEF Apart
  <2> HIDE DEF a, b, h, y
  <2>4. /\ a + b + h + y + e <= 1
        /\ a + b + h + y + e = 0 => m \notin In(queue) /\ m \notin In(temp) /\ m \notin delivered
    BY <1>2, <2>2, <2>3
  <2> QED
    BY <1>6, <2>4 DEF Copies, a, b, h, y
<1> QED
  BY <1>5, <1>6

(* AtMostOnce: whatever fails on the network, no message is in two places  *)
(* (the queues of qc_queue.c, the workers of qc_server.c, the bytes to the *)
(* clients), and none is delivered twice.                                  *)
THEOREM ServerAtMostOnce == Spec => []AtMostOnce
<1>1. SInv => AtMostOnce
  BY CopiesCounted DEF AtMostOnce
<1> QED
  BY <1>1, ServerInvariant, PTL

LEMMA LossesArePaid ==
    ASSUME SInv
    PROVE  LossBounded
<1> DEFINE Closed == {c \in Consumers : pc[c] = "closed"}
<1>1. Lost \subseteq Gone
  <2> SUFFICES ASSUME NEW m \in Lost PROVE m \in Gone
    OBVIOUS
  <2>1. m \in accepted /\ m \in Messages /\ Copies(m) = 0
    BY DEF Lost, SInv, TypeOK
  <2>2. /\ m \notin In(queue) /\ m \notin In(temp) /\ m \notin delivered
        /\ \A c \in Clients : m \notin InHandOf(worker[c]) \cup OnWay(toClient[c])
    BY <2>1, CopiesCounted
  <2>3. \A c \in Clients : m \notin Askings[c]
    BY <2>1 DEF SInv, MessagesApart, Apart
  <2>4. \A c \in Clients : m \notin Cargoes[c]
    BY <2>2, <2>3, CargoAt DEF CargoOf
  <2> QED
    BY <2>1, <2>2, <2>4 DEF Gone, GoneOf
<1>2. IsFiniteSet(Gone) /\ Cardinality(Gone) <= Cardinality(Spent)
  BY DEF SInv, LossCounted
<1>3. Spent \subseteq Closed /\ IsFiniteSet(Closed) /\ IsFiniteSet(Spent)
  BY ServerAssumption, FS_Subset DEF Spent, Clients
<1>4. Cardinality(Lost) <= Cardinality(Gone) /\ Cardinality(Lost) \in Nat /\ Cardinality(Gone) \in Nat
  BY <1>1, <1>2, FS_Subset, FS_CardinalityType
<1>5. Cardinality(Spent) <= Cardinality(Closed) /\ Cardinality(Spent) \in Nat /\ Cardinality(Closed) \in Nat
  BY <1>3, FS_Subset, FS_CardinalityType
<1> QED
  BY <1>2, <1>4, <1>5 DEF LossBounded

(* LossBounded: a consumer that goes away takes at most one message that   *)
(* was accepted with it (qc_server.c puts back what it could not send).    *)
THEOREM ServerLossBounded == Spec => []LossBounded
  BY LossesArePaid, ServerInvariant, PTL

=============================================================================
