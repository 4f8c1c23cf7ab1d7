--------------------------- MODULE ShmSetupProofs ---------------------------
(***************************************************************************)
(* Proofs about ShmSetup, for any configurations, sizes, attaching         *)
(* processes and starts of the daemon: what is laid out in the memory fits *)
(* into it without an overlap, and who attaches to a memory whose creation *)
(* was finished finds its queue and that memory's semaphores.              *)
(***************************************************************************)
EXTENDS ShmSetup, ListProofs

Config == [queuesize : Nat \ {0}, msgsize : Nat \ {0}]

LEMMA SetupConstants ==
    /\ ShmemSize \in Nat /\ ShmQueSize \in Nat /\ CellSize \in Nat /\ OffSize \in Nat /\ Margin \in Nat
    /\ ShmemSize > 0 /\ ShmQueSize > 0 /\ CellSize > 0 /\ OffSize > 0 /\ Margin > 0
    /\ MaxStarts \in Nat /\ MaxQues \in Nat
    /\ Configs \subseteq Seq(Config) /\ \A cs \in Configs : Len(cs) \in 1..MaxQues
  BY ShmSetupAssumption DEF Config

-----------------------------------------------------------------------------
(* The layout. *)

(* Sums over the queues, from a in steps of step[i]. *)
SumsFrom(f, a, step_, n) == f = [i \in 0..n |-> IF i = 0 THEN a ELSE f[i - 1] + step_[i]]

LEMMA SumsExist ==
    ASSUME NEW a, NEW d, NEW n \in Nat
    PROVE  \E f : SumsFrom(f, a, d, n)
<1> DEFINE Missing == {k \in 0..n : ~ \E f : SumsFrom(f, a, d, k)}
<1>1. CASE Missing = {}
  <2>1. n \in 0..n
    OBVIOUS
  <2> QED
    BY <1>1, <2>1
<1>2. CASE Missing # {}
  <2>1. PICK k \in Missing : \A j \in Missing : k <= j
    <3>1. Missing \in SUBSET Nat
      OBVIOUS
    <3> HIDE DEF Missing
    <3> QED
      BY <1>2, <3>1, LeastNatural
  <2>2. CASE k = 0
    <3>1. SumsFrom([i \in 0..0 |-> a], a, d, 0)
      BY DEF SumsFrom
    <3> QED
      BY <2>1, <2>2, <3>1
  <2>3. CASE k # 0
    <3>1. k \in Nat \ {0} /\ k - 1 \in 0..n /\ k - 1 \notin Missing
      BY <2>1, <2>3
    <3>2. PICK f : SumsFrom(f, a, d, k - 1)
      BY <3>1
    <3> DEFINE g == [i \in 0..k |-> IF i = k THEN f[k - 1] + d[k] ELSE f[i]]
    <3>3. \A i \in 0..(k - 1) : f[i] = IF i = 0 THEN a ELSE f[i - 1] + d[i]
      BY <3>2 DEF SumsFrom
    <3>4. ASSUME NEW i \in 0..k
          PROVE  g[i] = IF i = 0 THEN a ELSE g[i - 1] + d[i]
      <4>1. CASE i = 0
        BY <3>1, <3>3, <4>1
      <4>2. CASE i = k
        <5>1. i - 1 \in 0..k /\ i - 1 # k
          BY <3>1, <4>2
        <5> QED
          BY <3>1, <4>2, <5>1
      <4>3. CASE i # 0 /\ i # k
        <5>1. i \in 0..(k - 1) /\ i - 1 \in 0..k /\ i - 1 # k
          BY <3>1, <4>3
        <5> QED
          BY <3>3, <4>3, <5>1
      <4> QED
        BY <4>1, <4>2, <4>3
    <3>5. SumsFrom(g, a, d, k)
      <4>1. g = [i \in 0..k |-> g[i]]
        OBVIOUS
      <4> HIDE DEF g
      <4> QED
        BY <3>4, <4>1 DEF SumsFrom
    <3> QED
      BY <2>1, <3>5
  <2> QED
    BY <2>2, <2>3
<1> QED
  BY <1>1, <1>2

(* What the lists, margins and messages of a queue take. *)
Rest(c) == 2 * c.queuesize * CellSize + DataSize(c) + 2 * Margin

LEMMA RestTyped ==
    ASSUME NEW c \in Config
    PROVE  /\ c.queuesize \in Nat /\ c.msgsize \in Nat /\ c.queuesize >= 1 /\ c.msgsize >= 1
           /\ c.queuesize * CellSize \in Nat /\ 2 * c.queuesize * CellSize = 2 * (c.queuesize * CellSize)
           /\ DataSize(c) \in Nat /\ OffSize + c.msgsize \in Nat
           /\ DataSize(c) = c.queuesize * (OffSize + c.msgsize)
           /\ Rest(c) \in Nat /\ QueSize(c) = ShmQueSize + Rest(c)
           /\ Rest(c) = 2 * (c.queuesize * CellSize) + DataSize(c) + 2 * Margin
<1>1. c.queuesize \in Nat /\ c.msgsize \in Nat /\ c.queuesize >= 1 /\ c.msgsize >= 1
  BY DEF Config
<1>2. c.queuesize * CellSize \in Nat /\ 2 * c.queuesize * CellSize = 2 * (c.queuesize * CellSize)
  BY <1>1, SetupConstants
<1>3. OffSize + c.msgsize \in Nat /\ c.queuesize * (OffSize + c.msgsize) \in Nat
  <2>1. OffSize + c.msgsize \in Nat
    BY <1>1, SetupConstants
  <2> QED
    BY <1>1, <2>1
<1> DEFINE cells == c.queuesize * CellSize
           data == c.queuesize * (OffSize + c.msgsize)
<1>4. /\ DataSize(c) = data /\ Rest(c) = 2 * cells + data + 2 * Margin
      /\ QueSize(c) = ShmQueSize + 2 * cells + Margin + data + Margin
  BY <1>2 DEF DataSize, Rest, QueSize
<1>5. cells \in Nat /\ data \in Nat
  BY <1>2, <1>3
<1> HIDE DEF cells, data
<1>6. Rest(c) \in Nat /\ QueSize(c) = ShmQueSize + Rest(c)
  BY <1>4, <1>5, SetupConstants
<1> QED
  BY <1>1, <1>2, <1>3, <1>4, <1>6 DEF cells, data

OffsetsOf(cs, f) ==
    /\ f[0] = ShmemSize
    /\ \A i \in 0..Len(cs) : f[i] \in Nat /\ f[i] >= ShmemSize
    /\ \A i \in 1..Len(cs) : f[i] = f[i - 1] + ShmQueSize + Rest(cs[i])

LEMMA OffsetsExist ==
    ASSUME NEW cs \in Seq(Config)
    PROVE  \E f : OffsetsOf(cs, f) /\ \A q \in 1..(Len(cs) + 1) : Offset(cs, q) = f[q - 1]
<1> DEFINE d == [i \in 1..Len(cs) |-> QueSize(cs[i])]
           UpTo(f) == f = [i \in 0..Len(cs) |-> IF i = 0 THEN ShmemSize ELSE f[i - 1] + QueSize(cs[i])]
           f == CHOOSE f : UpTo(f)
<1>1. \E g : UpTo(g)
  <2>1. PICK g : SumsFrom(g, ShmemSize, d, Len(cs))
    <3>1. Len(cs) \in Nat
      OBVIOUS
    <3> HIDE DEF d
    <3> QED
      BY <3>1, SumsExist
  <2>2. \A i \in 0..Len(cs) : i # 0 => d[i] = QueSize(cs[i])
    OBVIOUS
  <2>3. UpTo(g)
    BY <2>1, <2>2 DEF SumsFrom
  <2> QED
    BY <2>3
<1>2. UpTo(f)
  BY <1>1
<1>3. \A q : Offset(cs, q) = f[q - 1]
  BY DEF Offset
<1> HIDE DEF f
<1>4. \A i \in 0..Len(cs) : f[i] = IF i = 0 THEN ShmemSize ELSE f[i - 1] + QueSize(cs[i])
  BY <1>2
<1> DEFINE Wrong == {i \in 0..Len(cs) : ~(f[i] \in Nat /\ f[i] >= ShmemSize)}
<1>5. \A i \in 1..Len(cs) : Rest(cs[i]) \in Nat /\ QueSize(cs[i]) = ShmQueSize + Rest(cs[i])
  BY RestTyped
<1>6. Wrong = {}
  <2> SUFFICES ASSUME Wrong # {}
               PROVE  FALSE
    OBVIOUS
  <2>1. PICK k \in Wrong : \A j \in Wrong : k <= j
    <3>1. Wrong \in SUBSET Nat
      OBVIOUS
    <3> HIDE DEF Wrong
    <3> QED
      BY <3>1, LeastNatural
  <2>2. CASE k = 0
    BY <1>4, <2>1, <2>2, SetupConstants
  <2>3. CASE k # 0
    <3>1. k \in 1..Len(cs) /\ k - 1 \in 0..Len(cs) /\ k - 1 \notin Wrong
      BY <2>1, <2>3
    <3>2. f[k] = f[k - 1] + QueSize(cs[k])
      BY <1>4, <2>3, <3>1
    <3> QED
      BY <1>5, <2>1, <3>1, <3>2, SetupConstants
  <2> QED
    BY <2>2, <2>3
<1>7. \A i \in 1..Len(cs) : f[i] = f[i - 1] + ShmQueSize + Rest(cs[i])
  <2> SUFFICES ASSUME NEW i \in 1..Len(cs)
               PROVE  f[i] = f[i - 1] + ShmQueSize + Rest(cs[i])
    OBVIOUS
  <2>1. f[i] = f[i - 1] + QueSize(cs[i]) /\ i - 1 \in 0..Len(cs)
    BY <1>4
  <2>2. f[i - 1] \in Nat
    BY <1>6, <2>1
  <2> QED
    BY <1>5, <2>1, <2>2, SetupConstants
<1> QED
  <2>1. f[0] = ShmemSize
    BY <1>4
  <2> QED
    BY <1>3, <1>6, <1>7, <2>1 DEF OffsetsOf

(* calc_shmsize counts all headers first, shm_queue_init each with its     *)
(* queue; in the end the sums are the same.                                *)
LEMMA SizesAgree ==
    ASSUME NEW cs \in Seq(Config), NEW f, OffsetsOf(cs, f)
    PROVE  f[Len(cs)] = CalcShmSize(cs)
<1> DEFINE n == Len(cs)
           a == ShmemSize + ShmQueSize * Len(cs)
           Total(h) == h = [i \in 0..Len(cs) |->
                               IF i = 0 THEN ShmemSize + ShmQueSize * Len(cs)
                               ELSE h[i - 1] + 2 * cs[i].queuesize * CellSize + DataSize(cs[i]) + 2 * Margin]
           h == CHOOSE h : Total(h)
           d == [i \in 1..Len(cs) |-> Rest(cs[i])]
           Sound(g) == /\ g[0] = a
                       /\ \A i \in 1..n : g[i] = g[i - 1] + Rest(cs[i])
                       /\ \A i \in 0..n : g[i] \in Int /\ f[i] + ShmQueSize * (n - i) = g[i]
<1>1. n \in Nat /\ a \in Nat /\ \A i \in 1..n : Rest(cs[i]) \in Nat /\ cs[i] \in Config
  <2>1. n \in Nat /\ \A i \in 1..n : cs[i] \in Config
    OBVIOUS
  <2>2. ShmQueSize * n \in Nat
    <3> HIDE DEF n
    <3> QED
      BY <2>1, SetupConstants
  <2>3. ASSUME NEW x \in Nat
        PROVE  ShmemSize + x \in Nat
    BY SetupConstants
  <2>4. a \in Nat
    BY <2>2, <2>3
  <2>5. \A c \in Config : Rest(c) \in Nat
    BY RestTyped
  <2> HIDE DEF a, n
  <2> QED
    BY <2>1, <2>4, <2>5
<1>2. ASSUME NEW i \in 1..n, NEW x \in Int
      PROVE  x + 2 * cs[i].queuesize * CellSize + DataSize(cs[i]) + 2 * Margin = x + Rest(cs[i])
  <2> DEFINE cells == 2 * cs[i].queuesize * CellSize
  <2>1. cells \in Nat /\ DataSize(cs[i]) \in Nat
    <3>1. cs[i] \in Config
      BY <1>1, <1>2
    <3>2. cs[i].queuesize * CellSize \in Nat /\ cells = 2 * (cs[i].queuesize * CellSize)
      BY <3>1, RestTyped
    <3>3. ASSUME NEW y \in Nat
          PROVE  2 * y \in Nat
      OBVIOUS
    <3>4. cells \in Nat
      BY <3>2, <3>3
    <3> HIDE DEF cells
    <3> QED
      BY <3>1, <3>4, RestTyped
  <2>2. Rest(cs[i]) = cells + DataSize(cs[i]) + 2 * Margin
    BY DEF Rest
  <2> HIDE DEF cells
  <2>3. x + cells + DataSize(cs[i]) + 2 * Margin = x + Rest(cs[i])
    BY <1>2, <2>1, <2>2, SetupConstants
  <2> QED
    BY <2>3 DEF cells
<1>3. ASSUME NEW g, g[0] = a, \A i \in 1..n : g[i - 1] \in Int => g[i] = g[i - 1] + Rest(cs[i])
      PROVE  Sound(g)
  <2> DEFINE Wrong == {i \in 0..n : ~(g[i] \in Int /\ f[i] + ShmQueSize * (n - i) = g[i])}
  <2>1. Wrong = {}
    <3> SUFFICES ASSUME Wrong # {}
                 PROVE  FALSE
      OBVIOUS
    <3>1. PICK k \in Wrong : \A j \in Wrong : k <= j
      <4>1. Wrong \in SUBSET Nat
        BY <1>1
      <4> HIDE DEF Wrong
      <4> QED
        BY <4>1, LeastNatural
    <3>2. CASE k = 0
      BY <1>1, <1>3, <3>1, <3>2, SetupConstants DEF OffsetsOf
    <3>3. CASE k # 0
      <4>1. k \in 1..n /\ k - 1 \in 0..n /\ k - 1 \notin Wrong
        BY <1>1, <3>1, <3>3
      <4>2. g[k] = g[k - 1] + Rest(cs[k]) /\ g[k - 1] \in Int /\ f[k - 1] + ShmQueSize * (n - (k - 1)) = g[k - 1]
        BY <1>3, <4>1
      <4>3. f[k] = f[k - 1] + ShmQueSize + Rest(cs[k]) /\ f[k - 1] \in Nat
        BY <4>1 DEF OffsetsOf
      <4>4. ShmQueSize * (n - (k - 1)) = ShmQueSize * (n - k) + ShmQueSize /\ ShmQueSize * (n - k) \in Int
        BY <1>1, <4>1, SetupConstants
      <4> DEFINE x == ShmQueSize * (n - k)
                 y == ShmQueSize * (n - (k - 1))
                 z == Rest(cs[k])
      <4>5. g[k] = g[k - 1] + z /\ f[k - 1] + y = g[k - 1] /\ f[k] = f[k - 1] + ShmQueSize + z /\ y = x + ShmQueSize
        BY <4>2, <4>3, <4>4
      <4>6. x \in Int /\ z \in Nat /\ g[k - 1] \in Int /\ f[k - 1] \in Nat
        BY <1>1, <4>1, <4>2, <4>3, <4>4
      <4> HIDE DEF x, y, z
      <4>7. g[k] \in Int /\ f[k] + x = g[k]
        <5> DEFINE before == g[k - 1]
                   offset == f[k - 1]
        <5>1. /\ g[k] = before + z /\ f[k] = offset + ShmQueSize + z
              /\ offset + y = before /\ y = x + ShmQueSize
          BY <4>5
        <5>2. before \in Int /\ offset \in Nat /\ x \in Int /\ z \in Nat /\ ShmQueSize \in Nat
          BY <4>6, SetupConstants
        <5> HIDE DEF before, offset
        <5>3. before + z \in Int /\ offset + ShmQueSize + z + x = before + z
          BY ONLY <5>1, <5>2
        <5> QED
          BY ONLY <5>1, <5>3
      <4> QED
        BY <3>1, <4>7 DEF x
    <3> QED
      BY <3>2, <3>3
  <2>2. \A i \in 1..n : i - 1 \in 0..n
    BY <1>1
  <2>3. \A i \in 0..n : g[i] \in Int /\ f[i] + ShmQueSize * (n - i) = g[i]
    BY <2>1
  <2>4. \A i \in 1..n : g[i] = g[i - 1] + Rest(cs[i])
    BY <1>3, <2>2, <2>3
  <2> QED
    BY <1>3, <2>3, <2>4
<1>4. \E g : Total(g)
  <2>1. PICK g : SumsFrom(g, a, d, n)
    BY <1>1, SumsExist
  <2>2. \A i \in 0..n : g[i] = IF i = 0 THEN a ELSE g[i - 1] + d[i]
    BY <2>1 DEF SumsFrom
  <2>3. g[0] = a /\ \A i \in 1..n : g[i] = g[i - 1] + Rest(cs[i]) /\ i - 1 \in 0..n
    <3>1. 0 \in 0..n /\ \A i \in 1..n : i \in 0..n /\ i # 0 /\ i - 1 \in 0..n /\ d[i] = Rest(cs[i])
      BY <1>1
    <3> HIDE DEF d, a, n
    <3> QED
      BY <2>2, <3>1
  <2>4. Sound(g)
    <3> HIDE DEF Sound, n, a
    <3> QED
      BY <1>3, <2>3
  <2>5. \A i \in 1..n : g[i] = g[i - 1] + 2 * cs[i].queuesize * CellSize + DataSize(cs[i]) + 2 * Margin
    BY <1>2, <2>3, <2>4
  <2>6. g = [i \in 0..n |-> g[i]]
    BY <2>1 DEF SumsFrom
  <2>7. \A i \in 0..n : g[i] = IF i = 0 THEN a ELSE g[i - 1] + 2 * cs[i].queuesize * CellSize + DataSize(cs[i]) + 2 * Margin
    BY <2>3, <2>5
  <2>8. Total(g)
    BY <2>6, <2>7
  <2> QED
    BY <2>8
<1>5. Total(h)
  BY <1>4
<1>6. CalcShmSize(cs) = h[n]
  BY DEF CalcShmSize
<1> HIDE DEF h
<1>7. h[0] = a /\ \A i \in 1..n : h[i - 1] \in Int => h[i] = h[i - 1] + Rest(cs[i])
  <2>1. \A i \in 0..n : h[i] = IF i = 0 THEN a ELSE h[i - 1] + 2 * cs[i].queuesize * CellSize + DataSize(cs[i]) + 2 * Margin
    BY <1>5
  <2>2. 0 \in 0..n /\ \A i \in 1..n : i \in 0..n /\ i # 0
    BY <1>1
  <2> HIDE DEF n, a
  <2>3. \A i \in 1..n : h[i] = h[i - 1] + 2 * cs[i].queuesize * CellSize + DataSize(cs[i]) + 2 * Margin
    BY <2>1, <2>2
  <2> QED
    BY <1>2, <2>1, <2>2, <2>3
<1>8. Sound(h)
  <2> HIDE DEF Sound, n, a
  <2> QED
    BY <1>3, <1>7
<1>9. h[n] \in Int /\ f[n] + ShmQueSize * (n - n) = h[n]
  <2>1. n \in 0..n
    BY <1>1
  <2> HIDE DEF n, a
  <2> QED
    BY <1>8, <2>1
<1>10. ShmQueSize * (n - n) = 0 /\ f[n] \in Nat
  <2>1. n - n = 0 /\ n \in 0..n
    BY <1>1
  <2>2. ShmQueSize * 0 = 0
    BY SetupConstants
  <2> HIDE DEF n
  <2> QED
    BY <2>1, <2>2 DEF OffsetsOf, n
<1>11. f[n] = h[n]
  <2> DEFINE x == f[n]
  <2>1. x \in Nat /\ x + 0 = h[n]
    BY <1>9, <1>10
  <2> HIDE DEF x
  <2>2. x = h[n]
    BY ONLY <2>1
  <2> QED
    BY <2>2 DEF x
<1> QED
  BY <1>6, <1>11

LEMMA OffsetsGrow ==
    ASSUME NEW cs \in Seq(Config), NEW f, OffsetsOf(cs, f), NEW i \in 0..Len(cs), NEW j \in 0..Len(cs), i <= j
    PROVE  f[i] <= f[j]
<1> DEFINE Wrong == {k \in 0..Len(cs) : i <= k /\ ~(f[i] <= f[k])}
<1> SUFFICES ASSUME Wrong # {}
             PROVE  FALSE
  OBVIOUS
<1>1. PICK k \in Wrong : \A m \in Wrong : k <= m
  <2>1. Wrong \in SUBSET Nat
    OBVIOUS
  <2> HIDE DEF Wrong
  <2> QED
    BY <2>1, LeastNatural
<1>2. f[i] \in Nat /\ f[k] \in Nat
  BY <1>1 DEF OffsetsOf
<1>3. k # i
  BY <1>1, <1>2
<1>4. k \in 1..Len(cs) /\ k - 1 \in 0..Len(cs) /\ i <= k - 1 /\ k - 1 \notin Wrong
  BY <1>1, <1>3
<1>5. f[i] <= f[k - 1] /\ f[k] = f[k - 1] + ShmQueSize + Rest(cs[k]) /\ f[k - 1] \in Nat
  BY <1>4 DEF OffsetsOf
<1>6. Rest(cs[k]) \in Nat
  BY <1>4, RestTyped
<1> HIDE DEF Wrong
<1>7. f[i] <= f[k]
  BY <1>2, <1>5, <1>6, SetupConstants
<1> QED
  BY <1>1, <1>7 DEF Wrong

LEMMA Product ==
    ASSUME NEW a \in Nat, NEW i \in Nat, NEW j \in Nat, i < j
    PROVE  a * i \in Nat /\ a * j \in Nat /\ a * i + a <= a * j
<1>1. PICK k \in Nat : j = (i + 1) + k
  <2>1. j - (i + 1) \in Nat /\ j = (i + 1) + (j - (i + 1))
    OBVIOUS
  <2> QED
    BY <2>1
<1>2. a * j = a * i + a + a * k
  BY <1>1
<1>3. a * i \in Nat /\ a * k \in Nat /\ a * j \in Nat
  OBVIOUS
<1> DEFINE x == a * i
           y == a * k
           z == a * j
<1>4. z = x + a + y /\ x \in Nat /\ y \in Nat
  BY <1>2, <1>3
<1> HIDE DEF x, y, z
<1>5. x + a <= z
  BY <1>4
<1> QED
  BY <1>3, <1>5 DEF x, y, z

Within(r, low, high) == r.from \in Nat /\ r.size \in Nat /\ low <= r.from /\ r.from + r.size <= high
Apart(r, s)          == r.from + r.size <= s.from \/ s.from + s.size <= r.from

QueRegions(cs, q) ==
    {HeaderAt(cs, q), ListAt(cs, q, 0), ListAt(cs, q, 1)}
    \cup {MessageAt(cs, q, i) : i \in 0..(cs[q].queuesize - 1)}

(* The regions of one queue are within its part of the memory, and apart. *)
LEMMA QueRegionsFit ==
    ASSUME NEW cs \in Seq(Config), NEW f, OffsetsOf(cs, f), NEW q \in 1..Len(cs), Offset(cs, q) = f[q - 1]
    PROVE  /\ \A r \in QueRegions(cs, q) : Within(r, f[q - 1], f[q])
           /\ \A r, s \in QueRegions(cs, q) : r # s => Apart(r, s)
<1> DEFINE c     == cs[q]
           o     == f[q - 1]
           cells == c.queuesize * CellSize
           m     == OffSize + c.msgsize
           n     == c.queuesize
           b     == o + ShmQueSize + 2 * cells + Margin
<1>1. c \in Config
  OBVIOUS
<1>2. /\ n \in Nat /\ n >= 1 /\ m \in Nat /\ cells \in Nat /\ 2 * c.queuesize * CellSize = 2 * cells
      /\ DataSize(c) = n * m /\ Rest(c) = 2 * cells + DataSize(c) + 2 * Margin
  <2> HIDE DEF c
  <2> QED
    BY <1>1, RestTyped
<1>3. o \in Nat /\ f[q] = o + ShmQueSize + Rest(c)
  <2>1. q - 1 \in 0..Len(cs)
    OBVIOUS
  <2> QED
    BY <2>1 DEF OffsetsOf
<1>4. HeaderAt(cs, q) = [from |-> o, size |-> ShmQueSize]
  BY DEF HeaderAt
<1>5. /\ ListAt(cs, q, 0) = [from |-> o + ShmQueSize, size |-> cells]
      /\ ListAt(cs, q, 1) = [from |-> o + ShmQueSize + cells, size |-> cells]
  <2>1. 0 * c.queuesize * CellSize = 0 /\ 1 * c.queuesize * CellSize = cells
    <3>1. c.queuesize \in Nat
      BY <1>2
    <3>2. \A x \in Nat : 0 * x = 0 /\ 1 * x = x
      OBVIOUS
    <3>3. 0 * c.queuesize = 0 /\ 1 * c.queuesize = c.queuesize
      <4> HIDE DEF c
      <4> QED
        BY ONLY <3>1, <3>2
    <3>4. 0 * CellSize = 0
      BY <3>2, SetupConstants
    <3> HIDE DEF c
    <3> QED
      BY ONLY <3>3, <3>4 DEF cells
  <2>2. o + ShmQueSize + 0 = o + ShmQueSize
    <3> HIDE DEF o
    <3> QED
      BY <1>3, SetupConstants
  <2> QED
    BY <2>1, <2>2 DEF ListAt
<1>6. \A i : MessageAt(cs, q, i) = [from |-> b + m * i, size |-> m]
  BY <1>2 DEF MessageAt, DataOffset
<1>7. m * n = DataSize(c) /\ m * n \in Nat
  <2> HIDE DEF m, n, c
  <2> QED
    BY <1>2
<1>8. ASSUME NEW i \in 0..(n - 1)
      PROVE  m * i \in Nat /\ m * i + m <= m * n
  <2>1. i \in Nat /\ i < n
    BY <1>2, <1>8
  <2> HIDE DEF m, n
  <2> QED
    BY <1>2, <2>1, Product
<1>9. ASSUME NEW i \in 0..(n - 1), NEW j \in 0..(n - 1), i < j
      PROVE  m * i + m <= m * j /\ m * i \in Nat /\ m * j \in Nat
  <2>1. i \in Nat /\ j \in Nat
    BY <1>9
  <2> HIDE DEF m, n
  <2> QED
    BY <1>2, <1>9, <2>1, Product
<1> HIDE DEF c, o, cells, m, n
<1>10. ASSUME NEW i \in 0..(n - 1)
       PROVE  LET r == [from |-> b + m * i, size |-> m]
              IN  Within(r, b, f[q])
  <2> DEFINE x == m * i
             y == m * n
  <2>1. x \in Nat /\ y \in Nat /\ x + m <= y /\ DataSize(c) = y
    BY <1>7, <1>8, <1>10
  <2> HIDE DEF x, y
  <2>2. b + x \in Nat /\ b <= b + x /\ b + x + m <= f[q]
    BY <1>2, <1>3, <2>1, SetupConstants
  <2>3. [from |-> b + x, size |-> m].from = b + x /\ [from |-> b + x, size |-> m].size = m
    OBVIOUS
  <2> HIDE DEF b
  <2>4. Within([from |-> b + x, size |-> m], b, f[q])
    BY <1>2, <2>2, <2>3 DEF Within
  <2> QED
    BY <2>4 DEF x
<1>11. /\ b \in Nat /\ o + ShmQueSize + cells + cells <= b /\ b <= f[q]
  <2>1. DataSize(c) \in Nat
    BY <1>7
  <2> QED
    BY <1>2, <1>3, <2>1, SetupConstants
<1> HIDE DEF b
<1> DEFINE Fixed == {HeaderAt(cs, q), ListAt(cs, q, 0), ListAt(cs, q, 1)}
           Messages == {MessageAt(cs, q, i) : i \in 0..(n - 1)}
<1>12. QueRegions(cs, q) = Fixed \cup Messages
  BY DEF QueRegions, c, n
<1>13. \A r \in Fixed : Within(r, o, b)
  <2>1. /\ o + ShmQueSize \in Nat /\ o + ShmQueSize + cells \in Nat
        /\ o + ShmQueSize <= b /\ o + ShmQueSize + cells + cells <= b /\ o + ShmQueSize + cells <= b
        /\ o <= o + ShmQueSize /\ o <= o + ShmQueSize + cells /\ o <= o
    BY <1>2, <1>3, <1>11, SetupConstants
  <2>2. Within([from |-> o, size |-> ShmQueSize], o, b)
    BY <1>3, <2>1, SetupConstants DEF Within
  <2>3. Within([from |-> o + ShmQueSize, size |-> cells], o, b)
    BY <1>2, <2>1 DEF Within
  <2>4. Within([from |-> o + ShmQueSize + cells, size |-> cells], o, b)
    BY <1>2, <2>1 DEF Within
  <2> QED
    BY <1>4, <1>5, <2>2, <2>3, <2>4
<1>14. \A r, s \in Fixed : r # s => Apart(r, s)
  BY <1>2, <1>3, <1>4, <1>5, SetupConstants DEF Apart
<1>15. \A r \in Messages : Within(r, b, f[q])
  BY <1>6, <1>10
<1>16. ASSUME NEW r \in Messages, NEW s \in Messages, r # s
       PROVE  Apart(r, s)
  <2>1. PICK i \in 0..(n - 1) : r = [from |-> b + m * i, size |-> m]
    BY <1>6
  <2>2. PICK j \in 0..(n - 1) : s = [from |-> b + m * j, size |-> m]
    BY <1>6
  <2>3. i < j \/ j < i
    <3>1. i # j
      BY <1>16, <2>1, <2>2
    <3>2. i \in Nat /\ j \in Nat
      BY <1>2
    <3> QED
      BY ONLY <3>1, <3>2
  <2> DEFINE x == m * i
             y == m * j
  <2>4. x \in Nat /\ y \in Nat /\ (x + m <= y \/ y + m <= x)
    BY <1>9, <2>3
  <2> HIDE DEF x, y
  <2>5. b + x + m <= b + y \/ b + y + m <= b + x
    BY <1>2, <1>11, <2>4
  <2>6. r = [from |-> b + x, size |-> m] /\ s = [from |-> b + y, size |-> m]
    BY <2>1, <2>2 DEF x, y
  <2> QED
    BY <2>5, <2>6 DEF Apart
<1>17. f[q] \in Nat
  BY DEF OffsetsOf
<1> HIDE DEF Fixed, Messages
<1>18. \A r \in Fixed \cup Messages : Within(r, o, f[q])
  <2>1. o <= b /\ b <= f[q]
    BY <1>2, <1>3, <1>11, SetupConstants
  <2> QED
    BY <1>3, <1>11, <1>13, <1>15, <1>17, <2>1 DEF Within
<1>19. \A r \in Fixed, s \in Messages : Apart(r, s)
  BY <1>11, <1>13, <1>15 DEF Within, Apart
<1>20. \A r, s \in Fixed \cup Messages : r # s => Apart(r, s)
  BY <1>14, <1>16, <1>19 DEF Apart
<1> QED
  BY <1>12, <1>18, <1>20 DEF o

LEMMA LayoutIsSound ==
    ASSUME NEW cs \in Seq(Config)
    PROVE  /\ Offset(cs, Len(cs) + 1) = CalcShmSize(cs)
           /\ \A r \in Regions(cs) : r.from + r.size <= CalcShmSize(cs)
           /\ \A r, s \in Regions(cs) : r # s => Apart(r, s)
<1> DEFINE n == Len(cs)
<1>1. PICK f : OffsetsOf(cs, f) /\ \A q \in 1..(n + 1) : Offset(cs, q) = f[q - 1]
  BY OffsetsExist
<1>2. n \in Nat /\ f[n] = CalcShmSize(cs) /\ f[n] \in Nat /\ f[0] = ShmemSize
  BY <1>1, SizesAgree DEF OffsetsOf
<1>3. Offset(cs, n + 1) = CalcShmSize(cs)
  BY <1>1, <1>2
<1> DEFINE head == [from |-> 0, size |-> ShmemSize]
<1>4. ASSUME NEW q \in 1..n
      PROVE  /\ \A r \in QueRegions(cs, q) : Within(r, f[q - 1], f[q])
             /\ \A r, s \in QueRegions(cs, q) : r # s => Apart(r, s)
             /\ q - 1 \in 0..n /\ f[q - 1] \in Nat /\ f[q] \in Nat /\ ShmemSize <= f[q - 1] /\ f[q] <= f[n]
  <2>1. q \in 1..(n + 1) /\ q - 1 \in 0..n /\ q \in 0..n /\ n \in 0..n /\ q <= n
    BY <1>2, <1>4
  <2>2. Offset(cs, q) = f[q - 1]
    BY <1>1, <2>1
  <2>3. f[q - 1] \in Nat /\ f[q] \in Nat /\ ShmemSize <= f[q - 1] /\ f[q] <= f[n]
    BY <1>1, <2>1, OffsetsGrow DEF OffsetsOf
  <2>4. /\ \A r \in QueRegions(cs, q) : Within(r, f[q - 1], f[q])
        /\ \A r, s \in QueRegions(cs, q) : r # s => Apart(r, s)
    BY <1>1, <1>4, <2>2, QueRegionsFit
  <2> QED
    BY <2>1, <2>3, <2>4
<1>5. Within(head, 0, ShmemSize) /\ ShmemSize <= f[n]
  <2>1. 0 \in 0..n /\ n \in 0..n
    BY <1>2
  <2> QED
    BY <1>1, <2>1, SetupConstants DEF Within, OffsetsOf
<1>6. Regions(cs) = {head} \cup UNION {QueRegions(cs, q) : q \in 1..n}
  BY DEF Regions, QueRegions
<1> HIDE DEF head, n
<1>7. ASSUME NEW r \in Regions(cs)
      PROVE  r.from + r.size <= CalcShmSize(cs)
  <2>1. CASE r = head
    <3>1. r.from \in Nat /\ r.size \in Nat /\ r.from + r.size <= ShmemSize
      BY <1>5, <2>1 DEF Within
    <3>2. ShmemSize <= f[n] /\ ShmemSize \in Nat /\ f[n] \in Nat
      BY <1>2, <1>5, SetupConstants
    <3>3. r.from + r.size <= f[n]
      BY ONLY <3>1, <3>2
    <3> QED
      BY <1>2, <3>3
  <2>2. ASSUME NEW q \in 1..n, r \in QueRegions(cs, q)
        PROVE  r.from + r.size <= CalcShmSize(cs)
    <3>1. Within(r, f[q - 1], f[q]) /\ f[q] \in Nat /\ f[q] <= f[n]
      BY <1>4, <2>2
    <3>2. r.from + r.size <= f[n]
      <4>1. r.from \in Nat /\ r.size \in Nat /\ r.from + r.size <= f[q]
        BY <3>1 DEF Within
      <4> QED
        BY ONLY <1>2, <3>1, <4>1
    <3> QED
      BY <1>2, <3>2
  <2> QED
    BY <1>6, <1>7, <2>1, <2>2
<1>8. ASSUME NEW p \in 1..n, NEW q \in 1..n, p < q, NEW r \in QueRegions(cs, p), NEW s \in QueRegions(cs, q)
      PROVE  Apart(r, s)
  <2>1. Within(r, f[p - 1], f[p]) /\ Within(s, f[q - 1], f[q]) /\ f[p] \in Nat /\ f[q - 1] \in Nat
    BY <1>4
  <2>2. f[p] <= f[q - 1]
    <3>1. p \in 0..n /\ q - 1 \in 0..n /\ p <= q - 1
      BY <1>2, <1>8
    <3> QED
      BY <1>1, <3>1, OffsetsGrow DEF n
  <2>3. /\ r.from \in Nat /\ r.size \in Nat /\ r.from + r.size <= f[p]
        /\ s.from \in Nat /\ f[q - 1] <= s.from
    BY <2>1 DEF Within
  <2>4. r.from + r.size <= s.from
    BY ONLY <2>1, <2>2, <2>3
  <2> QED
    BY <2>4 DEF Apart
<1>9. ASSUME NEW q \in 1..n, NEW s \in QueRegions(cs, q)
      PROVE  Apart(head, s) /\ Apart(s, head)
  <2>1. Within(s, f[q - 1], f[q]) /\ ShmemSize <= f[q - 1] /\ f[q - 1] \in Nat
    BY <1>4
  <2> QED
    BY <1>5, <2>1, SetupConstants DEF Within, Apart
<1>10. ASSUME NEW r \in Regions(cs), NEW s \in Regions(cs), r # s
       PROVE  Apart(r, s)
  <2>1. CASE r = head \/ s = head
    BY <1>6, <1>9, <1>10, <2>1
  <2>2. ASSUME NEW p \in 1..n, NEW q \in 1..n, r \in QueRegions(cs, p), s \in QueRegions(cs, q)
        PROVE  Apart(r, s)
    <3>1. CASE p = q
      BY <1>4, <1>10, <2>2, <3>1
    <3>2. CASE p < q
      BY <1>8, <2>2, <3>2
    <3>3. CASE q < p
      <4>1. Apart(s, r)
        BY <1>8, <2>2, <3>3
      <4> QED
        BY <4>1 DEF Apart
    <3> QED
      BY <1>2, <3>1, <3>2, <3>3
  <2> QED
    BY <1>6, <1>10, <2>1, <2>2
<1> QED
  BY <1>3, <1>7, <1>10 DEF n

-----------------------------------------------------------------------------
(* The invariant. *)

Process == [at : {"idle", "find", "que", "lst", "attached", "astray"}, shm : Nat, want : Nat, que : Nat,
            sem : [Kinds -> Nat], late : BOOLEAN]

SetupTyped ==
    /\ daemon \in {"down", "step", "up"}
    /\ step \in [que : Nat, field : 1..9]
    /\ starts \in 0..MaxStarts
    /\ shm \in 0..starts
    /\ conf \in Seq(Configs) /\ Len(conf) = starts
    /\ written \in [Starts -> [1..MaxQues -> SUBSET Fields]]
    /\ sem \in [1..MaxQues -> [Kinds -> Nat]]
    /\ created \subseteq 1..starts
    /\ proc \in [Attachers -> Process]

(* What the j-th step of shm_queue_init leaves behind in a header w and    *)
(* the semaphores m of start g: the field, or a semaphore of this start,   *)
(* which an attacher may destroy.                                          *)
DoneIn(w, m, g, j) ==
    /\ \A f \in Fields : SetupOrder[j] = <<"write", f>> => f \in w
    /\ \A k \in Kinds : SetupOrder[j] = <<"create", k>> => m[k] \in {0, g}
WholeIn(w, m, g) == w = Fields /\ \A k \in Kinds : m[k] \in {0, g}

StepDone(q, j) == DoneIn(written[starts][q], sem[q], starts, j)
Whole(q)       == WholeIn(written[starts][q], sem[q], starts)

(* A finished creation wrote every header, and until the next start there  *)
(* are no semaphores but its own.                                          *)
Finished ==
    /\ \A g \in created : \A q \in 1..Len(conf[g]) : written[g][q] = Fields
    /\ starts \in created => \A q \in 1..Len(conf[starts]) : Whole(q)

(* An unfinished one has done the queues before the present one, and of    *)
(* that one the steps before the present one.                              *)
Progress ==
    daemon = "step" =>
        /\ starts >= 1 /\ starts \notin created
        /\ step.que \in 0..Len(conf[starts])
        /\ step.que = 0 => step.field = 1
        /\ \A q \in 1..(step.que - 1) : Whole(q)
        /\ step.que > 0 => \A j \in 1..(step.field - 1) : StepDone(step.que, j)

(* Where a process is: at a queue of the memory that it mapped, at the one *)
(* it looked for once it opens semaphores; and if it mapped a finished one *)
(* it is not astray and has that start's semaphores.                       *)
Following(r) ==
    /\ r.at \in {"find", "que", "lst", "attached"} =>
          r.shm \in 1..starts /\ r.que \in 1..Len(conf[r.shm])
    /\ r.at \in {"que", "lst", "attached"} => r.que = r.want
    /\ r.late =>
          /\ r.shm \in created
          /\ r.at # "astray"
          /\ r.shm = starts => /\ r.at \in {"lst", "attached"} => r.sem["que"] = starts
                               /\ r.at = "attached" => r.sem["lst"] = starts

AllFollowing == \A p \in Attachers : Following(proc[p])

SetupInv == SetupTyped /\ Finished /\ Progress /\ AllFollowing

LEMMA SetupOrderIs ==
    /\ Len(SetupOrder) = 9
    /\ SetupOrder[1] = <<"write", "quename">>
    /\ SetupOrder[2] = <<"write", "semname_que">>
    /\ SetupOrder[3] = <<"write", "semname_lst">>
    /\ SetupOrder[4] = <<"write", "lists">>
    /\ SetupOrder[5] = <<"write", "next_offset">>
    /\ SetupOrder[7] = <<"create", "que">>
    /\ SetupOrder[9] = <<"create", "lst">>
  BY DEF SetupOrder

(* All the steps of a queue make it whole. *)
LEMMA StepsMakeWhole ==
    ASSUME NEW w \in SUBSET Fields, NEW m, NEW g, \A j \in 1..9 : DoneIn(w, m, g, j)
    PROVE  WholeIn(w, m, g)
<1>1. \A f \in Fields, j \in 1..9 : SetupOrder[j] = <<"write", f>> => f \in w
  BY DEF DoneIn
<1>2. \A k \in Kinds, j \in 1..9 : SetupOrder[j] = <<"create", k>> => m[k] \in {0, g}
  BY DEF DoneIn
<1>3. Fields \subseteq w
  <2>1. "quename" \in w
    <3>1. "quename" \in Fields /\ 1 \in 1..9
      BY DEF Fields
    <3> QED
      BY <1>1, <3>1, SetupOrderIs
  <2>2. "semname_que" \in w
    <3>1. "semname_que" \in Fields /\ 2 \in 1..9
      BY DEF Fields
    <3> QED
      BY <1>1, <3>1, SetupOrderIs
  <2>3. "semname_lst" \in w
    <3>1. "semname_lst" \in Fields /\ 3 \in 1..9
      BY DEF Fields
    <3> QED
      BY <1>1, <3>1, SetupOrderIs
  <2>4. "lists" \in w
    <3>1. "lists" \in Fields /\ 4 \in 1..9
      BY DEF Fields
    <3> QED
      BY <1>1, <3>1, SetupOrderIs
  <2>5. "next_offset" \in w
    <3>1. "next_offset" \in Fields /\ 5 \in 1..9
      BY DEF Fields
    <3> QED
      BY <1>1, <3>1, SetupOrderIs
  <2> QED
    BY <2>1, <2>2, <2>3, <2>4, <2>5 DEF Fields
<1>4. \A k \in Kinds : m[k] \in {0, g}
  <2>1. m["que"] \in {0, g}
    <3>1. "que" \in Kinds /\ 7 \in 1..9
      BY DEF Kinds
    <3> QED
      BY <1>2, <3>1, SetupOrderIs
  <2>2. m["lst"] \in {0, g}
    <3>1. "lst" \in Kinds /\ 9 \in 1..9
      BY DEF Kinds
    <3> QED
      BY <1>2, <3>1, SetupOrderIs
  <2> QED
    BY <2>1, <2>2 DEF Kinds
<1> QED
  BY <1>3, <1>4 DEF WholeIn

(* A semaphore's name goes or gets the present start's semaphore. *)
SemChanges ==
    \/ sem' = sem
    \/ \E q \in 1..MaxQues, k \in Kinds, v \in {0, starts} : sem' = [sem EXCEPT ![q][k] = v]

LEMMA SemFacts ==
    ASSUME SetupTyped, SemChanges
    PROVE  /\ sem' \in [1..MaxQues -> [Kinds -> Nat]]
           /\ \A q \in 1..MaxQues, k \in Kinds : sem[q][k] \in {0, starts} => sem'[q][k] \in {0, starts}
<1>1. CASE sem' = sem
  BY <1>1 DEF SetupTyped
<1>2. ASSUME NEW q \in 1..MaxQues, NEW k \in Kinds, NEW v \in {0, starts}, sem' = [sem EXCEPT ![q][k] = v]
      PROVE  /\ sem' \in [1..MaxQues -> [Kinds -> Nat]]
             /\ \A x \in 1..MaxQues, y \in Kinds : sem[x][y] \in {0, starts} => sem'[x][y] \in {0, starts}
  <2>1. sem \in [1..MaxQues -> [Kinds -> Nat]] /\ v \in Nat
    BY SetupConstants DEF SetupTyped
  <2>2. \A x \in 1..MaxQues : sem[x] \in [Kinds -> Nat]
    BY <2>1
  <2>3. \A x \in 1..MaxQues : sem'[x] = IF x = q THEN [sem[x] EXCEPT ![k] = v] ELSE sem[x]
    BY <1>2, <2>1
  <2>4. \A x \in 1..MaxQues : sem'[x] \in [Kinds -> Nat]
    BY <2>1, <2>2, <2>3
  <2>5. sem' \in [1..MaxQues -> [Kinds -> Nat]]
    <3>1. DOMAIN sem' = 1..MaxQues /\ sem' = [x \in 1..MaxQues |-> sem'[x]]
      BY <1>2, <2>1
    <3> QED
      BY <2>4, <3>1
  <2>6. \A x \in 1..MaxQues, y \in Kinds : sem'[x][y] = sem[x][y] \/ sem'[x][y] = v
    BY <2>2, <2>3
  <2> QED
    BY <2>5, <2>6
<1> QED
  BY <1>1, <1>2 DEF SemChanges

(* A field is written in the header of a queue of the present start. *)
WrittenChanges ==
    \/ written' = written
    \/ \E q \in 1..MaxQues, f \in Fields : written' = [written EXCEPT ![starts][q] = @ \cup {f}]

LEMMA WrittenFacts ==
    ASSUME SetupTyped, WrittenChanges
    PROVE  /\ written' \in [Starts -> [1..MaxQues -> SUBSET Fields]]
           /\ \A g \in Starts, q \in 1..MaxQues : written[g][q] \subseteq written'[g][q]
<1>1. CASE written' = written
  BY <1>1 DEF SetupTyped
<1>2. ASSUME NEW q \in 1..MaxQues, NEW f \in Fields, written' = [written EXCEPT ![starts][q] = @ \cup {f}]
      PROVE  /\ written' \in [Starts -> [1..MaxQues -> SUBSET Fields]]
             /\ \A g \in Starts, x \in 1..MaxQues : written[g][x] \subseteq written'[g][x]
  <2>1. written \in [Starts -> [1..MaxQues -> SUBSET Fields]]
    BY DEF SetupTyped
  <2>2. \A g \in Starts : written[g] \in [1..MaxQues -> SUBSET Fields]
    BY <2>1
  <2>3. \A g \in Starts : written'[g] = IF g = starts THEN [written[g] EXCEPT ![q] = @ \cup {f}] ELSE written[g]
    BY <1>2, <2>1
  <2>4. ASSUME NEW g \in Starts
        PROVE  written'[g] \in [1..MaxQues -> SUBSET Fields]
    <3>1. written[g][q] \cup {f} \in SUBSET Fields
      BY <2>2
    <3>2. [written[g] EXCEPT ![q] = written[g][q] \cup {f}] \in [1..MaxQues -> SUBSET Fields]
      BY <2>2, <3>1
    <3> QED
      BY <2>2, <2>3, <3>2
  <2>5. written' \in [Starts -> [1..MaxQues -> SUBSET Fields]]
    <3>1. written' = [g \in Starts |-> written'[g]]
      BY <1>2, <2>1
    <3> QED
      BY <2>4, <3>1
  <2>6. \A g \in Starts, x \in 1..MaxQues : written'[g][x] = written[g][x] \/ written'[g][x] = written[g][x] \cup {f}
    BY <2>2, <2>3
  <2> QED
    BY <2>5, <2>6
<1> QED
  BY <1>1, <1>2 DEF WrittenChanges

(* Neither undoes what is whole, or a step that is done. *)
LEMMA NothingUndone ==
    ASSUME SetupTyped, starts' = starts, starts \in Starts, SemChanges, WrittenChanges, NEW q \in 1..MaxQues
    PROVE  /\ Whole(q) => Whole(q)'
           /\ \A j \in 1..9 : StepDone(q, j) => StepDone(q, j)'
<1>1. /\ \A k \in Kinds : sem[q][k] \in {0, starts} => sem'[q][k] \in {0, starts'}
      /\ written[starts][q] \subseteq written'[starts'][q] /\ written'[starts'][q] \subseteq Fields
  <2>1. \A k \in Kinds : sem[q][k] \in {0, starts} => sem'[q][k] \in {0, starts'}
    BY SemFacts
  <2>2. written[starts][q] \subseteq written'[starts][q] /\ written'[starts][q] \subseteq Fields
    <3>1. written' \in [Starts -> [1..MaxQues -> SUBSET Fields]]
      BY WrittenFacts
    <3>2. written'[starts] \in [1..MaxQues -> SUBSET Fields]
      BY <3>1
    <3> QED
      BY <3>2, WrittenFacts
  <2> QED
    BY <2>1, <2>2
<1>2. Whole(q) => Whole(q)'
  BY <1>1 DEF Whole, WholeIn
<1>3. ASSUME NEW j \in 1..9, StepDone(q, j)
      PROVE  StepDone(q, j)'
  BY <1>1, <1>3 DEF StepDone, DoneIn
<1> QED
  BY <1>2, <1>3

(* The configuration of a generation. *)
LEMMA ConfOf ==
    ASSUME SetupTyped, NEW g \in 1..starts
    PROVE  /\ conf[g] \in Configs /\ conf[g] \in Seq(Config) /\ Len(conf[g]) \in 1..MaxQues
           /\ g \in Starts /\ DOMAIN conf[g] = 1..Len(conf[g])
           /\ \A q \in 1..Len(conf[g]) : q \in 1..MaxQues
<1>1. conf[g] \in Configs
  BY DEF SetupTyped
<1>2. g \in Starts
  BY SetupConstants DEF SetupTyped, Starts
<1>3. Len(conf[g]) \in 1..MaxQues /\ conf[g] \in Seq(Config)
  BY <1>1, SetupConstants
<1> QED
  BY <1>1, <1>2, <1>3, SetupConstants

LEMMA SetupInitial == Init => SetupInv
<1> SUFFICES ASSUME Init PROVE SetupInv
  OBVIOUS
<1> USE DEF Init
<1>1. [k \in Kinds |-> 0] \in [Kinds -> Nat]
  OBVIOUS
<1>2. Idle \in Process
  BY <1>1 DEF Idle, Process
<1>3. conf \in Seq(Configs) /\ Len(conf) = starts /\ created = {} /\ starts \in 0..MaxStarts /\ shm \in 0..starts
  BY SetupConstants
<1>4. written \in [Starts -> [1..MaxQues -> SUBSET Fields]] /\ sem \in [1..MaxQues -> [Kinds -> Nat]]
  BY <1>1
<1>5. proc \in [Attachers -> Process]
  BY <1>2
<1>6. SetupTyped
  BY <1>3, <1>4, <1>5 DEF SetupTyped
<1>7. Finished /\ Progress
  BY <1>3 DEF Finished, Progress
<1>8. AllFollowing
  BY DEF AllFollowing, Following, Idle
<1> QED
  BY <1>6, <1>7, <1>8 DEF SetupInv

LEMMA FinishedKept ==
    ASSUME SetupTyped, Finished, SemChanges, WrittenChanges, starts' = starts, conf' = conf, created' = created
    PROVE  Finished'
<1>1. \A g \in created : g \in 1..starts /\ starts \in 1..starts
  BY DEF SetupTyped
<1>2. ASSUME NEW g \in created, NEW q \in 1..Len(conf[g])
      PROVE  written'[g][q] = Fields
  <2>1. g \in Starts /\ q \in 1..MaxQues
    BY <1>1, ConfOf
  <2>2. written[g][q] = Fields
    BY DEF Finished
  <2>3. Fields \subseteq written'[g][q]
    BY <2>1, <2>2, WrittenFacts
  <2>4. written'[g] \in [1..MaxQues -> SUBSET Fields]
    BY <2>1, WrittenFacts
  <2> QED
    BY <2>1, <2>3, <2>4
<1>3. ASSUME starts \in created, NEW q \in 1..Len(conf[starts])
      PROVE  Whole(q)'
  <2>1. starts \in Starts /\ q \in 1..MaxQues
    BY <1>1, <1>3, ConfOf
  <2> QED
    BY <1>3, <2>1, NothingUndone DEF Finished
<1> QED
  BY <1>2, <1>3 DEF Finished

LEMMA ProgressKept ==
    ASSUME SetupTyped, Progress, SemChanges, WrittenChanges, UNCHANGED <<daemon, step, starts, conf, created>>
    PROVE  Progress'
<1> SUFFICES ASSUME daemon = "step" PROVE Progress'
  BY DEF Progress
<1>1. starts \in 1..starts
  BY DEF SetupTyped, Progress
<1>2. starts \in Starts /\ \A q \in 1..Len(conf[starts]) : q \in 1..MaxQues
  BY <1>1, ConfOf
<1>3. Len(conf[starts]) \in Nat /\ step.que \in Nat /\ step.field \in 1..9
  BY <1>1, ConfOf, SetupConstants DEF SetupTyped
<1>4. \A q \in 1..Len(conf[starts]) : (Whole(q) => Whole(q)') /\ \A j \in 1..9 : StepDone(q, j) => StepDone(q, j)'
  BY <1>2, NothingUndone
<1>5. ASSUME NEW q \in 1..(step.que - 1)
      PROVE  Whole(q)'
  <2>1. q \in 1..Len(conf[starts])
    BY <1>3 DEF Progress
  <2> QED
    BY <1>4, <2>1 DEF Progress
<1>6. ASSUME step.que > 0, NEW j \in 1..(step.field - 1)
      PROVE  StepDone(step.que, j)'
  <2>1. step.que \in 1..Len(conf[starts]) /\ j \in 1..9
    BY <1>3, <1>6 DEF Progress
  <2> QED
    BY <1>4, <1>6, <2>1 DEF Progress
<1> QED
  BY <1>5, <1>6 DEF Progress

(* As long as no daemon starts, a process stays where it is. *)
LEMMA FollowingKept ==
    ASSUME SetupTyped, starts' = starts, conf' = conf, created \subseteq created'
    PROVE  \A r : Following(r) => Following(r)'
BY DEF Following

LEMMA StartKeeps == ASSUME SetupInv, NEW cs \in Configs, StartsUp(cs) PROVE SetupInv'
<1> USE DEF StartsUp, SetupInv
<1>1. starts \in Nat /\ starts' \in 0..MaxStarts /\ shm' \in 0..starts' /\ starts' = starts + 1
  BY SetupConstants DEF SetupTyped
<1>2. conf' \in Seq(Configs) /\ Len(conf') = starts' /\ \A g \in 1..starts : conf'[g] = conf[g]
  BY <1>1 DEF SetupTyped
<1>3. created' \subseteq 1..starts'
  BY <1>1 DEF SetupTyped
<1>4. step' \in [que : Nat, field : 1..9]
  OBVIOUS
<1>5. SetupTyped'
  BY <1>1, <1>2, <1>3, <1>4 DEF SetupTyped
<1>6. starts' \notin created
  BY <1>1 DEF SetupTyped
<1>7. Finished'
  <2>1. \A g \in created' : g \in 1..starts /\ g \in created
    BY DEF SetupTyped
  <2> QED
    BY <1>2, <1>6, <2>1 DEF Finished
<1>8. Progress'
  <2>1. conf'[starts'] \in Configs
    BY <1>1, <1>2
  <2>2. Len(conf'[starts']) \in Nat
    BY <2>1, SetupConstants
  <2>3. step'.que = 0 /\ step'.field = 1
    OBVIOUS
  <2> QED
    BY <1>1, <1>6, <2>2, <2>3 DEF Progress
<1>9. ASSUME NEW r, Following(r)
      PROVE  Following(r)'
  <2>1. r.late => r.shm \in 1..starts
    BY <1>9 DEF Following, SetupTyped
  <2>2. r.at \in {"find", "que", "lst", "attached"} => r.shm \in 1..starts
    BY <1>9 DEF Following
  <2>3. \A x \in 1..starts : x \in 1..starts' /\ x # starts' /\ conf'[x] = conf[x]
    BY <1>1, <1>2
  <2> QED
    BY <1>9, <2>1, <2>2, <2>3 DEF Following
<1>10. AllFollowing'
  BY <1>9 DEF AllFollowing
<1> QED
  BY <1>5, <1>7, <1>8, <1>10

LEMMA AdvanceKeeps ==
    ASSUME SetupInv, daemon = "step", step.que > 0, SemChanges, WrittenChanges, Advance,
           DoneIn(written'[starts][step.que], sem'[step.que], starts, step.field),
           UNCHANGED <<starts, shm, conf, proc>>
    PROVE  SetupInv'
<1> USE DEF SetupInv
<1> DEFINE cs == conf[starts]
           n == Len(cs)
<1>1. starts \in 1..starts /\ starts \notin created
  BY DEF SetupTyped, Progress
<1>2. /\ starts \in Starts /\ n \in 1..MaxQues /\ n \in Nat /\ cs \in Seq(Config)
      /\ \A q \in 1..n : q \in 1..MaxQues
  BY <1>1, ConfOf, SetupConstants
<1>3. step.que \in 1..n /\ step.que \in Nat /\ step.field \in 1..9
  BY <1>1, <1>2 DEF SetupTyped, Progress
<1>4. \A q \in 1..n : (Whole(q) => Whole(q)') /\ \A j \in 1..9 : StepDone(q, j) => StepDone(q, j)'
  BY <1>2, NothingUndone
<1>5. ASSUME NEW q \in 1..(step.que - 1)
      PROVE  Whole(q)'
  <2>1. q \in 1..n
    BY <1>2, <1>3
  <2>2. Whole(q)
    BY DEF Progress
  <2> QED
    BY <1>4, <2>1, <2>2
<1> DEFINE w == written'[starts][step.que]
           m == sem'[step.que]
<1>6. ASSUME NEW j \in 1..step.field
      PROVE  DoneIn(w, m, starts, j)
  <2>1. CASE j = step.field
    BY <2>1
  <2>2. CASE j # step.field
    <3>1. j \in 1..(step.field - 1) /\ j \in 1..9
      BY <1>3, <2>2
    <3>2. StepDone(step.que, j)
      BY <3>1 DEF Progress
    <3>3. \A q \in 1..n : StepDone(q, j) => DoneIn(written'[starts][q], sem'[q], starts, j)
      BY <1>4, <3>1 DEF StepDone
    <3> QED
      BY <1>3, <3>2, <3>3
  <2> QED
    BY <2>1, <2>2
<1>7. written' \in [Starts -> [1..MaxQues -> SUBSET Fields]] /\ sem' \in [1..MaxQues -> [Kinds -> Nat]]
  BY SemFacts, WrittenFacts
<1>8. AllFollowing /\ created \subseteq created' => AllFollowing'
  BY FollowingKept DEF AllFollowing
<1>9. CASE step.field < 9
  <2>1. step' = [step EXCEPT !.field = @ + 1] /\ UNCHANGED <<daemon, created>>
    BY <1>9, SetupOrderIs DEF Advance
  <2>2. step \in [que : Nat, field : 1..9]
    BY DEF SetupTyped
  <2>3. step' \in [que : Nat, field : 1..9] /\ step'.que = step.que /\ step'.field = step.field + 1
    <3>1. step.field + 1 \in 1..9
      BY <1>3, <1>9
    <3> QED
      BY <2>1, <2>2, <3>1
  <2>4. SetupTyped'
    BY <1>7, <2>1, <2>3 DEF SetupTyped
  <2>5. Finished'
    BY <2>1, FinishedKept
  <2>6. Progress'
    <3>1. ASSUME NEW j \in 1..(step'.field - 1)
          PROVE  StepDone(step.que, j)' /\ DoneIn(written'[starts'][step'.que], sem'[step'.que], starts', j)
      <4>1. j \in 1..step.field
        BY <1>3, <2>3, <3>1
      <4> QED
        BY <1>6, <2>3, <4>1 DEF StepDone
    <3>2. step'.que \in 0..Len(conf'[starts']) /\ step'.que # 0 /\ starts' >= 1 /\ starts' \notin created'
      BY <1>1, <1>2, <1>3, <2>1, <2>3
    <3>3. \A q \in 1..(step'.que - 1) : Whole(q)'
      BY <1>5, <2>3
    <3> QED
      BY <3>1, <3>2, <3>3 DEF Progress, StepDone
  <2> QED
    BY <1>8, <2>1, <2>4, <2>5, <2>6
<1>10. CASE step.field = 9
  <2>1. WholeIn(w, m, starts)
    <3>1. w \in SUBSET Fields
      <4>1. written'[starts] \in [1..MaxQues -> SUBSET Fields]
        BY <1>2, <1>7
      <4> QED
        BY <1>2, <1>3, <4>1
    <3>2. \A j \in 1..9 : DoneIn(w, m, starts, j)
      BY <1>6, <1>10
    <3> HIDE DEF w, m
    <3> QED
      BY ONLY <3>1, <3>2, StepsMakeWhole
  <2>2. ASSUME NEW q \in 1..step.que
        PROVE  WholeIn(written'[starts'][q], sem'[q], starts')
    <3>1. CASE q = step.que
      BY <2>1, <3>1
    <3>2. CASE q # step.que
      <4>1. q \in 1..(step.que - 1)
        BY <1>3, <3>2
      <4> QED
        BY <1>5, <4>1 DEF Whole
    <3> QED
      BY <3>1, <3>2
  <2>3. CASE step.que < n
    <3>1. step' = [que |-> step.que + 1, field |-> 1] /\ UNCHANGED <<daemon, created>>
      BY <1>10, <2>3, SetupOrderIs DEF Advance
    <3>2. SetupTyped'
      <4>1. step' \in [que : Nat, field : 1..9]
        BY <1>3, <3>1
      <4> QED
        BY <1>7, <3>1, <4>1 DEF SetupTyped
    <3>3. Finished'
      BY <3>1, FinishedKept
    <3>4. Progress'
      <4>1. step'.que = step.que + 1 /\ step'.field = 1
        BY <3>1
      <4>2. step'.que \in 0..Len(conf'[starts']) /\ step'.que # 0 /\ starts' >= 1 /\ starts' \notin created'
        BY <1>1, <1>2, <1>3, <2>3, <3>1, <4>1
      <4>3. \A q \in 1..(step'.que - 1) : q \in 1..step.que
        BY <1>3, <4>1
      <4>4. \A q \in 1..(step'.que - 1) : Whole(q)'
        BY <2>2, <4>3 DEF Whole
      <4>5. \A j \in 1..(step'.field - 1) : FALSE
        BY <4>1
      <4> QED
        BY <4>1, <4>2, <4>4, <4>5 DEF Progress
    <3> QED
      BY <1>8, <3>1, <3>2, <3>3, <3>4
  <2>4. CASE ~(step.que < n)
    <3>1. step.que = n
      BY <1>2, <1>3, <2>4
    <3>2. Offset(cs, Len(cs) + 1) = CalcShmSize(cs)
      BY <1>2, LayoutIsSound
    <3>3. /\ step' = [step EXCEPT !.que = @ + 1]
          /\ daemon' = "up" /\ created' = created \cup {starts}
      BY <1>10, <2>4, <3>2, SetupOrderIs DEF Advance
    <3>4. SetupTyped'
      <4>1. step' \in [que : Nat, field : 1..9]
        <5>1. step \in [que : Nat, field : 1..9] /\ step.que + 1 \in Nat
          BY <1>3 DEF SetupTyped
        <5> QED
          BY <3>3, <5>1
      <4>2. created' \subseteq 1..starts'
        BY <1>1, <3>3 DEF SetupTyped
      <4> QED
        BY <1>7, <3>3, <4>1, <4>2 DEF SetupTyped
    <3>5. Finished'
      <4>1. \A q \in 1..Len(conf'[starts']) : Whole(q)' /\ written'[starts'][q] = Fields
        BY <2>2, <3>1 DEF Whole, WholeIn
      <4>2. ASSUME NEW g \in created, NEW q \in 1..Len(conf[g])
            PROVE  written'[g][q] = Fields
        <5>1. g \in 1..starts
          BY DEF SetupTyped
        <5>2. g \in Starts /\ q \in 1..MaxQues
          BY <5>1, ConfOf
        <5>3. written[g][q] = Fields
          BY DEF Finished
        <5>4. Fields \subseteq written'[g][q]
          BY <5>2, <5>3, WrittenFacts
        <5>5. written'[g] \in [1..MaxQues -> SUBSET Fields]
          BY <1>7, <5>2
        <5> QED
          BY <5>2, <5>4, <5>5
      <4> QED
        BY <3>3, <4>1, <4>2 DEF Finished
    <3>6. Progress'
      BY <3>3 DEF Progress
    <3> QED
      BY <1>8, <3>3, <3>4, <3>5, <3>6
  <2> QED
    BY <2>3, <2>4
<1> QED
  BY <1>3, <1>9, <1>10

LEMMA WriteKeeps == ASSUME SetupInv, Writes PROVE SetupInv'
<1> USE DEF Writes
<1>1. PICK f \in Fields : Doing("write", f) /\ written' = [written EXCEPT ![starts][step.que] = @ \cup {f}]
  OBVIOUS
<1>2. daemon = "step" /\ step.que > 0 /\ SetupOrder[step.field] = <<"write", f>>
  BY <1>1 DEF Doing
<1>3. starts \in 1..starts /\ step.que \in 1..Len(conf[starts])
  BY <1>2 DEF SetupInv, SetupTyped, Progress
<1>4. step.que \in 1..MaxQues /\ starts \in Starts
  BY <1>3, ConfOf DEF SetupInv
<1>5. SemChanges /\ WrittenChanges
  BY <1>1, <1>4 DEF SemChanges, WrittenChanges
<1>6. f \in written'[starts][step.que]
  <2>1. written \in [Starts -> [1..MaxQues -> SUBSET Fields]]
    BY DEF SetupInv, SetupTyped
  <2>2. written[starts] \in [1..MaxQues -> SUBSET Fields]
    BY <1>4, <2>1
  <2>3. written'[starts] = [written[starts] EXCEPT ![step.que] = @ \cup {f}]
    BY <1>1, <1>4, <2>1
  <2>4. written'[starts][step.que] = written[starts][step.que] \cup {f}
    BY <1>4, <2>2, <2>3
  <2> QED
    BY <2>4
<1>7. DoneIn(written'[starts][step.que], sem'[step.que], starts, step.field)
  <2>1. \A x : <<"write", x>> = <<"write", f>> => x = f
    OBVIOUS
  <2>2. \A k : <<"create", k>> # <<"write", f>>
    OBVIOUS
  <2> QED
    BY <1>2, <1>6, <2>1, <2>2 DEF DoneIn
<1> QED
  BY <1>2, <1>5, <1>7, AdvanceKeeps

LEMMA MakeSemKeeps == ASSUME SetupInv, MakesSem PROVE SetupInv'
<1>1. PICK act \in {"unlink", "create"}, k \in Kinds, v \in {0, starts} :
          /\ daemon = "step" /\ step.que > 0 /\ SetupOrder[step.field] = <<act, k>>
          /\ sem' = [sem EXCEPT ![step.que][k] = v]
  BY DEF MakesSem, SemUnlink, SemCreate, Doing
<1>2. Advance /\ UNCHANGED <<starts, shm, sized, conf, written, proc>>
  BY DEF MakesSem
<1>3. starts \in 1..starts /\ step.que \in 1..Len(conf[starts])
  BY <1>1 DEF SetupInv, SetupTyped, Progress
<1>4. step.que \in 1..MaxQues
  BY <1>3, ConfOf DEF SetupInv
<1>5. SemChanges /\ WrittenChanges
  BY <1>1, <1>2, <1>4 DEF SemChanges, WrittenChanges
<1>6. sem'[step.que][k] = v
  <2>1. sem \in [1..MaxQues -> [Kinds -> Nat]]
    BY DEF SetupInv, SetupTyped
  <2>2. sem[step.que] \in [Kinds -> Nat]
    BY <1>4, <2>1
  <2>3. sem'[step.que] = [sem[step.que] EXCEPT ![k] = v]
    BY <1>1, <1>4, <2>1
  <2> QED
    BY <2>2, <2>3
<1>7. DoneIn(written'[starts][step.que], sem'[step.que], starts, step.field)
  <2>1. \A x : <<"create", x>> = <<act, k>> => x = k
    OBVIOUS
  <2>2. \A f : <<"write", f>> # <<act, k>>
    OBVIOUS
  <2> QED
    BY <1>1, <1>6, <2>1, <2>2 DEF DoneIn
<1> QED
  BY <1>1, <1>2, <1>5, <1>7, AdvanceKeeps

(* Sizing the memory, destroying it and dying touch neither headers nor    *)
(* semaphores.                                                             *)
LEMMA SizesKeeps == ASSUME SetupInv, Sizes PROVE SetupInv'
<1> USE DEF SetupInv, Sizes
<1>1. SemChanges /\ WrittenChanges
  BY DEF SemChanges, WrittenChanges
<1>2. SetupTyped'
  BY DEF SetupTyped
<1>3. Finished'
  BY <1>1, FinishedKept
<1>4. Progress'
  <2>1. starts \in 1..starts
    BY DEF SetupTyped, Progress
  <2>2. Len(conf[starts]) \in 1..MaxQues
    BY <2>1, ConfOf
  <2>3. step'.que = 1 /\ step'.field = 1 /\ step'.que \in 0..Len(conf'[starts'])
    BY <2>2, SetupConstants
  <2>4. /\ \A q \in 1..(step'.que - 1) : FALSE
        /\ \A j \in 1..(step'.field - 1) : FALSE
    BY <2>3
  <2> QED
    BY <2>3, <2>4 DEF Progress
<1>5. AllFollowing'
  BY FollowingKept DEF AllFollowing
<1> QED
  BY <1>2, <1>3, <1>4, <1>5

LEMMA EndKeeps == ASSUME SetupInv, Destroys \/ Dies PROVE SetupInv'
<1> USE DEF SetupInv, Destroys, Dies
<1>1. SemChanges /\ WrittenChanges /\ UNCHANGED <<step, starts, conf, created, proc, written, sem>> /\ daemon' = "down"
  BY DEF SemChanges, WrittenChanges
<1>2. SetupTyped'
  <2>1. shm' \in 0..starts
    BY DEF SetupTyped
  <2> QED
    BY <1>1, <2>1 DEF SetupTyped
<1>3. Finished'
  BY <1>1, FinishedKept
<1>4. Progress'
  BY <1>1 DEF Progress
<1>5. AllFollowing'
  BY <1>1, FollowingKept DEF AllFollowing
<1> QED
  BY <1>2, <1>3, <1>4, <1>5

LEMMA AttacherKeeps ==
    ASSUME SetupInv, NEW p \in Attachers, NEW r \in Process, Becomes(p, r), Following(r), SemChanges,
           UNCHANGED <<daemonVars, shm>>
    PROVE  SetupInv'
<1> USE DEF SetupInv, daemonVars
<1>1. WrittenChanges
  BY DEF WrittenChanges
<1>2. \A a \in Attachers : proc'[a] = IF a = p THEN r ELSE proc[a]
  BY DEF Becomes, SetupTyped
<1>3. SetupTyped'
  <2>1. sem' \in [1..MaxQues -> [Kinds -> Nat]]
    BY SemFacts
  <2>2. proc' \in [Attachers -> Process]
    BY DEF Becomes, SetupTyped
  <2> QED
    BY <2>1, <2>2 DEF SetupTyped
<1>4. Finished'
  BY <1>1, FinishedKept
<1>5. Progress'
  BY <1>1, ProgressKept
<1>6. AllFollowing'
  <2>1. \A a \in Attachers : Following(proc'[a])
    BY <1>2 DEF AllFollowing
  <2>2. \A x : Following(x) => Following(x)'
    BY FollowingKept
  <2>3. \A a \in Attachers : Following(proc[a])'
    BY <2>1, <2>2 DEF Following
  <2> QED
    BY <2>3 DEF AllFollowing
<1> QED
  BY <1>3, <1>4, <1>5, <1>6

LEMMA IdleFollows == Idle \in Process /\ (SetupTyped => Following(Idle))
<1>1. [k \in Kinds |-> 0] \in [Kinds -> Nat]
  OBVIOUS
<1>2. Idle \in Process
  BY <1>1 DEF Idle, Process
<1> QED
  BY <1>2 DEF Following, Idle

LEMMA OpensShmKeeps ==
    ASSUME SetupInv, NEW p \in Attachers, NEW q \in 1..MaxQues, OpensShm(p, q)
    PROVE  SetupInv'
<1> DEFINE r == [Idle EXCEPT !.at = "find", !.shm = shm, !.want = q, !.que = 1, !.late = shm \in created]
<1>1. shm \in 1..starts /\ shm \in Nat
  BY DEF OpensShm, SetupInv, SetupTyped
<1>2. Idle \in Process /\ q \in Nat /\ (shm \in created) \in BOOLEAN
  BY IdleFollows
<1>3. r \in Process
  BY <1>1, <1>2 DEF Process
<1>4. r.at = "find" /\ r.shm = shm /\ r.que = 1 /\ r.late = (shm \in created)
  BY <1>2 DEF Process
<1>5. 1 \in 1..Len(conf[shm])
  BY <1>1, ConfOf, SetupConstants DEF SetupInv
<1> HIDE DEF r
<1>6. Following(r)
  BY <1>1, <1>4, <1>5 DEF Following
<1>7. Becomes(p, r) /\ SemChanges /\ UNCHANGED <<daemonVars, shm>>
  BY DEF OpensShm, SemChanges, r
<1> QED
  BY <1>3, <1>6, <1>7, AttacherKeeps

LEMMA ComparesKeeps ==
    ASSUME SetupInv, NEW p \in Attachers, Compares(p)
    PROVE  SetupInv'
<1> DEFINE r == proc[p]
           header == written[r.shm][r.que]
           n == Len(conf[r.shm])
<1>1. r \in Process /\ Following(r) /\ r.at = "find" /\ SetupTyped
  BY DEF SetupInv, SetupTyped, AllFollowing, Compares
<1>2. r.shm \in 1..starts /\ r.que \in 1..n /\ r.que \in Nat
  BY <1>1 DEF Following, Process
<1>3. n \in 1..MaxQues
  BY <1>1, <1>2, ConfOf
<1>4. SemChanges /\ UNCHANGED <<daemonVars, shm>>
  BY DEF Compares, SemChanges
<1>5. r.late => header = Fields
  BY <1>1, <1>2 DEF Following, SetupInv, Finished
<1>6. CASE r.que = r.want /\ "quename" \in header
  <2> DEFINE s == [r EXCEPT !.at = "que"]
  <2>1. Becomes(p, s)
    BY <1>6 DEF Compares
  <2>2. s \in Process /\ s.at = "que" /\ s.shm = r.shm /\ s.que = r.que /\ s.want = r.want /\ s.late = r.late
    BY <1>1 DEF Process
  <2> HIDE DEF s
  <2>3. Following(s)
    BY <1>1, <1>2, <1>6, <2>2 DEF Following
  <2> QED
    BY <1>4, <2>1, <2>2, <2>3, AttacherKeeps
<1>7. CASE ~(r.que = r.want /\ "quename" \in header) /\ "next_offset" \notin header
  <2> DEFINE s == [r EXCEPT !.at = "astray"]
  <2>1. Becomes(p, s)
    BY <1>7 DEF Compares
  <2>2. s \in Process /\ s.at = "astray" /\ s.late = r.late
    BY <1>1 DEF Process
  <2>3. ~r.late
    BY <1>5, <1>7 DEF Fields
  <2> HIDE DEF s
  <2>4. Following(s)
    BY <2>2, <2>3 DEF Following
  <2> QED
    BY <1>4, <2>1, <2>2, <2>4, AttacherKeeps
<1>8. CASE ~(r.que = r.want /\ "quename" \in header) /\ "next_offset" \in header /\ r.que = n
  <2>1. Becomes(p, Idle)
    BY <1>8 DEF Compares
  <2> QED
    BY <1>1, <1>4, <2>1, IdleFollows, AttacherKeeps
<1>9. CASE ~(r.que = r.want /\ "quename" \in header) /\ "next_offset" \in header /\ r.que # n
  <2> DEFINE s == [r EXCEPT !.que = @ + 1]
  <2>1. Becomes(p, s)
    BY <1>9 DEF Compares
  <2>2. s \in Process /\ s.at = "find" /\ s.shm = r.shm /\ s.que = r.que + 1 /\ s.late = r.late
    BY <1>1, <1>2 DEF Process
  <2>3. s.que \in 1..n
    <3>1. n \in Nat /\ r.que \in 1..n /\ r.que # n /\ s.que = r.que + 1
      BY <1>2, <1>3, <1>9, <2>2, SetupConstants
    <3> HIDE DEF n, s
    <3> QED
      BY ONLY <3>1
  <2> HIDE DEF s
  <2>4. Following(s)
    BY <1>1, <1>2, <2>2, <2>3 DEF Following
  <2> QED
    BY <1>4, <2>1, <2>2, <2>4, AttacherKeeps
<1> QED
  BY <1>6, <1>7, <1>8, <1>9

(* The semaphores that a process finds under the names of its queue are the*)
(* latest start's, if it mapped that start's finished memory.              *)
LEMMA FindsSem ==
    ASSUME SetupInv, NEW r \in Process, Following(r), r.at \in {"que", "lst"}, NEW k \in Kinds,
           sem[r.que][k] # 0
    PROVE  /\ r.que \in 1..MaxQues /\ sem[r.que][k] \in Nat
           /\ r.late /\ r.shm = starts => sem[r.que][k] = starts
<1>1. SetupTyped /\ r.shm \in 1..starts /\ r.que \in 1..Len(conf[r.shm])
  BY DEF SetupInv, Following
<1>2. r.que \in 1..MaxQues
  BY <1>1, ConfOf
<1>3. sem[r.que] \in [Kinds -> Nat]
  BY <1>1, <1>2 DEF SetupTyped
<1>4. r.late /\ r.shm = starts => Whole(r.que)
  BY <1>1 DEF SetupInv, Finished, Following
<1> QED
  BY <1>2, <1>3, <1>4 DEF Whole, WholeIn

LEMMA OpensQueKeeps ==
    ASSUME SetupInv, NEW p \in Attachers, OpensQue(p)
    PROVE  SetupInv'
<1> DEFINE r == proc[p]
           x == sem[r.que]["que"]
<1>1. r \in Process /\ Following(r) /\ r.at = "que" /\ SetupTyped /\ "que" \in Kinds
  BY DEF SetupInv, SetupTyped, AllFollowing, OpensQue, Kinds
<1>2. SemChanges /\ UNCHANGED <<daemonVars, shm>>
  BY DEF OpensQue, SemChanges
<1>3. CASE "semname_que" \in written[r.shm][r.que] /\ x # 0
  <2> DEFINE s == [r EXCEPT !.at = "lst", !.sem["que"] = x]
  <2>1. Becomes(p, s)
    BY <1>3 DEF OpensQue
  <2>2. x \in Nat /\ (r.late /\ r.shm = starts => x = starts)
    BY <1>1, <1>3, FindsSem
  <2>3. r.sem \in [Kinds -> Nat]
    BY <1>1 DEF Process
  <2>4. [r.sem EXCEPT !["que"] = x] \in [Kinds -> Nat]
    BY <2>2, <2>3
  <2>5. /\ s \in Process /\ s.at = "lst" /\ s.shm = r.shm /\ s.que = r.que /\ s.want = r.want /\ s.late = r.late
        /\ s.sem["que"] = x
    BY <1>1, <2>3, <2>4 DEF Process
  <2> HIDE DEF s, x
  <2>6. Following(s)
    BY <1>1, <2>2, <2>5 DEF Following
  <2> QED
    BY <1>2, <2>1, <2>5, <2>6, AttacherKeeps
<1>4. CASE ~("semname_que" \in written[r.shm][r.que] /\ x # 0)
  <2>1. Becomes(p, Idle)
    BY <1>4 DEF OpensQue
  <2> QED
    BY <1>1, <1>2, <2>1, IdleFollows, AttacherKeeps
<1> QED
  BY <1>3, <1>4

LEMMA OpensLstKeeps ==
    ASSUME SetupInv, NEW p \in Attachers, OpensLst(p)
    PROVE  SetupInv'
<1> DEFINE r == proc[p]
           x == sem[r.que]["lst"]
           opened == "semname_lst" \in written[r.shm][r.que] /\ x # 0
<1>1. r \in Process /\ Following(r) /\ r.at = "lst" /\ SetupTyped /\ "que" \in Kinds /\ "lst" \in Kinds
  BY DEF SetupInv, SetupTyped, AllFollowing, OpensLst, Kinds
<1>2. UNCHANGED <<daemonVars, shm>>
  BY DEF OpensLst
<1>3. CASE opened
  <2> DEFINE s == [r EXCEPT !.at = "attached", !.sem["lst"] = x]
  <2>1. Becomes(p, s) /\ SemChanges
    BY <1>3 DEF OpensLst, SemChanges
  <2>2. x \in Nat /\ (r.late /\ r.shm = starts => x = starts)
    BY <1>1, <1>3, FindsSem
  <2>3. r.sem \in [Kinds -> Nat]
    BY <1>1 DEF Process
  <2>4. [r.sem EXCEPT !["lst"] = x] \in [Kinds -> Nat]
    BY <2>2, <2>3
  <2>5. /\ s \in Process /\ s.at = "attached" /\ s.shm = r.shm /\ s.que = r.que /\ s.want = r.want
        /\ s.late = r.late /\ s.sem["lst"] = x /\ s.sem["que"] = r.sem["que"]
    BY <1>1, <2>3, <2>4 DEF Process
  <2> HIDE DEF s, x
  <2>6. Following(s)
    BY <1>1, <2>2, <2>5 DEF Following
  <2> QED
    BY <1>2, <2>1, <2>5, <2>6, AttacherKeeps
<1>4. CASE ~opened
  <2>1. Becomes(p, Idle) /\ sem' = [sem EXCEPT ![r.que]["que"] = 0]
    BY <1>4 DEF OpensLst
  <2>2. r.que \in 1..MaxQues
    BY <1>1, ConfOf DEF Following
  <2>3. SemChanges
    BY <1>1, <2>1, <2>2 DEF SemChanges
  <2> QED
    BY <1>1, <1>2, <2>1, <2>3, IdleFollows, AttacherKeeps
<1> QED
  BY <1>3, <1>4

LEMMA DetachesKeeps ==
    ASSUME SetupInv, NEW p \in Attachers, Detaches(p)
    PROVE  SetupInv'
  BY IdleFollows, AttacherKeeps DEF Detaches, SemChanges, SetupInv

(* The invariant holds throughout.                                         *)
THEOREM SetupInvariant == Spec => []SetupInv
<1>1. SetupInv /\ [Next]_vars => SetupInv'
  <2> SUFFICES ASSUME SetupInv, [Next]_vars PROVE SetupInv'
    OBVIOUS
  <2>1. CASE UNCHANGED vars
    <3>1. SemChanges /\ WrittenChanges /\ UNCHANGED <<daemon, step, starts, shm, conf, created, written, sem, proc>>
      BY <2>1 DEF vars, daemonVars, SemChanges, WrittenChanges
    <3>2. SetupTyped'
      BY <3>1 DEF SetupInv, SetupTyped
    <3>3. Finished' /\ Progress' /\ AllFollowing'
      BY <3>1, FinishedKept, ProgressKept, FollowingKept DEF SetupInv, AllFollowing
    <3> QED
      BY <3>2, <3>3 DEF SetupInv
  <2>2. CASE DaemonNext
    <3>1. ASSUME NEW cs \in Configs, StartsUp(cs) PROVE SetupInv'
      BY <3>1, StartKeeps
    <3>2. CASE Sizes
      BY <3>2, SizesKeeps
    <3>3. CASE Writes
      BY <3>3, WriteKeeps
    <3>4. CASE MakesSem
      BY <3>4, MakeSemKeeps
    <3>5. CASE Destroys \/ Dies
      BY <3>5, EndKeeps
    <3> QED
      BY <2>2, <3>1, <3>2, <3>3, <3>4, <3>5 DEF DaemonNext
  <2>3. ASSUME NEW p \in Attachers, AttacherNext(p)
        PROVE  SetupInv'
    <3>1. ASSUME NEW q \in 1..MaxQues, OpensShm(p, q) PROVE SetupInv'
      BY <3>1, OpensShmKeeps
    <3>2. CASE Compares(p)
      BY <3>2, ComparesKeeps
    <3>3. CASE OpensQue(p)
      BY <3>3, OpensQueKeeps
    <3>4. CASE OpensLst(p)
      BY <3>4, OpensLstKeeps
    <3>5. CASE Detaches(p)
      BY <3>5, DetachesKeeps
    <3> QED
      BY <2>3, <3>1, <3>2, <3>3, <3>4, <3>5 DEF AttacherNext
  <2> QED
    BY <2>1, <2>2, <2>3 DEF Next
<1> QED
  BY SetupInitial, <1>1, PTL DEF Spec

-----------------------------------------------------------------------------
(* What is laid out in a memory fits into it, and no two of the headers,   *)
(* lists and messages that processes address overlap, whatever queues the  *)
(* daemon is started with (calc_shmsize against shm_queue_init).           *)
THEOREM LayoutAlwaysFits == Spec => []LayoutFits
<1>1. SetupInv => LayoutFits
  <2> SUFFICES ASSUME SetupInv, NEW g \in DOMAIN conf
               PROVE  LET cs == conf[g]
                      IN  /\ Offset(cs, Len(cs) + 1) = CalcShmSize(cs)
                          /\ \A r \in Regions(cs) : r.from + r.size <= CalcShmSize(cs)
                          /\ \A r, s \in Regions(cs) :
                                r # s => r.from + r.size <= s.from \/ s.from + s.size <= r.from
    BY DEF LayoutFits
  <2>1. SetupTyped /\ g \in 1..starts
    BY DEF SetupInv, SetupTyped
  <2>2. conf[g] \in Seq(Config)
    BY <2>1, ConfOf
  <2> QED
    BY <2>2, LayoutIsSound DEF Apart
<1> QED
  BY SetupInvariant, <1>1, PTL

(* Who attaches to a memory whose creation was finished finds its queue and*)
(* holds that memory's two semaphores, unless the daemon was started again *)
(* (shm_queue_find and qc_shqueue_attach against qc_shqmem_create).        *)
THEOREM AttachersMatch == Spec => []AttachMatches
<1>1. SetupInv => AttachMatches
  <2> SUFFICES ASSUME SetupInv, NEW p \in Attachers, proc[p].late
               PROVE  LET r == proc[p]
                      IN  /\ r.at # "astray"
                          /\ r.at \in {"que", "lst", "attached"} => r.want <= Len(conf[r.shm])
                          /\ (r.at = "attached" /\ r.shm = starts) => \A k \in Kinds : r.sem[k] = r.shm
    BY DEF AttachMatches
  <2> DEFINE r == proc[p]
  <2>1. Following(r) /\ SetupTyped
    BY DEF SetupInv, AllFollowing
  <2>2. r.at # "astray"
    BY <2>1 DEF Following
  <2>3. r.at \in {"que", "lst", "attached"} => r.want <= Len(conf[r.shm])
    <3> SUFFICES ASSUME r.at \in {"que", "lst", "attached"} PROVE r.want <= Len(conf[r.shm])
      OBVIOUS
    <3>1. r.want \in 1..Len(conf[r.shm])
      BY <2>1 DEF Following
    <3> QED
      BY <3>1
  <2>4. (r.at = "attached" /\ r.shm = starts) => \A k \in Kinds : r.sem[k] = r.shm
    BY <2>1 DEF Following, Kinds
  <2> QED
    BY <2>2, <2>3, <2>4
<1> QED
  BY SetupInvariant, <1>1, PTL
=============================================================================
