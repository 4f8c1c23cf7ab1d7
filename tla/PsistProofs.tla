----------------------------- MODULE PsistProofs -----------------------------
(***************************************************************************)
(* Proofs about Psist, for any messages, number of records and queue limit:*)
(* the file holds the stored messages, whole and once each, whatever was   *)
(* interrupted, lost or overwritten before; ids lead to the right records; *)
(* appends overwrite records of earlier sessions only, in order; and a load*)
(* that succeeds misses the last record only.                              *)
(*                                                                         *)
(* IInv relates three things that the code never compares: the flags in    *)
(* the file, the pool of ids in memory, and the ids that messages carry.   *)
(* Two facts are known of the pool, which begins every session with the ids*)
(* of used records in it.  In any session, what it gives out are first the *)
(* ids takes, takes + 1, ... up to some last one, and then ids that hold no*)
(* message of an earlier session: putting back an id that is still in the  *)
(* pool cuts it off there.  In a session that has not strayed, moreover, it*)
(* lists no id twice and none of the session's own messages.               *)
(***************************************************************************)
EXTENDS Psist, ListProofs

Used(i) == file[i].flag = 1
Old(i)  == Used(i) /\ fate[file[i].info] = "old"

(* Used records are of messages that are in the file, whole if they are    *)
(* claimed to be, one record each.                                         *)
RecordsNamed == \A i \in Ids :
    IF Used(i)
    THEN /\ file[i].info \in Messages
         /\ fate[file[i].info] # "out"
         /\ fate[file[i].info] \in {"new", "old"} => file[i].body = file[i].info
    ELSE file[i].info = None
OneRecordEach == \A i, j \in Ids : Used(i) /\ Used(j) /\ file[i].info = file[j].info => i = j
EveryStored == \A m \in Messages : fate[m] # "out" => \E i \in Ids : Used(i) /\ file[i].info = m
NoneNew == strayed => \A m \in Messages : fate[m] # "new"
FilePart == RecordsNamed /\ OneRecordEach /\ EveryStored /\ NoneNew

(* Messages in memory know their records, and are there once.              *)
Known(m) == /\ persistId[m] \in Ids
            /\ IF fate[m] # "out"
               THEN Used(persistId[m]) /\ file[persistId[m]].info = m
               ELSE ~Old(persistId[m])
HeldKnown    == \A m \in held : Known(m)
QueuedKnown  == \A i \in DOMAIN queue : Known(queue[i]) /\ queue[i] \notin held
QueueInOrder ==
    \A i, j \in DOMAIN queue : i < j => persistId[queue[i]] < persistId[queue[j]]
NotOfLast == \A m \in InMemory :
    ~strayed /\ fate[m] \in {"old", "hit"} => persistId[m] # CountLimit - 1
MemoryPart == HeldKnown /\ QueuedKnown /\ QueueInOrder /\ NotOfLast

(* The message being appended has a record to itself, or one that it took  *)
(* from an older message.                                                  *)
AppendApart == pc = "append" =>
    /\ msg \in Messages /\ msg \notin InMemory
    /\ fate[msg] = "out"
    /\ persistId[msg] \in Ids /\ file[persistId[msg]].body = msg
    /\ Used(persistId[msg]) => /\ fate[file[persistId[msg]].info] = "hit"
                               /\ strayed \/ persistId[msg] = takes - 1

(* Of the ids to be given out.  In l the cells t, t + 1, ..., last come    *)
(* first, and what follows them is in rest.                                *)
FirstRound(l, t, last, rest) ==
    /\ \A c \in rest : l.next[c] \in rest \cup {Invalid}
    /\ \A c \in rest : c < t \/ c >= last
    /\ \/ /\ t <= last
          /\ l.head = t
          /\ \A c \in t..(last - 1) : l.next[c] = c + 1
          /\ l.next[last] \in rest \cup {Invalid}
          /\ l.tail \in rest \/ (l.tail = last /\ l.next[last] = Invalid)
       \/ /\ t > last
          /\ l.head \in rest \cup {Invalid}
          /\ l.head # Invalid => l.tail \in rest
OldInFirstRound == \E last \in Ids : \E rest \in SUBSET Ids :
    /\ FirstRound(idPool, takes, last, rest)
    /\ \A c \in rest : ~Old(c)

MayGive(i, place) ==
    /\ Used(i) => i = takes + place - 1 /\ fate[file[i].info] # "new"
    /\ pc = "append" => persistId[msg] # i
GivenOnce == ~strayed => \E s \in Seq(Ids) :
    PoolOrder(idPool, s) /\ \A j \in DOMAIN s : MayGive(s[j], j)
TailUnused == ~strayed /\ idPool.tail \in Ids /\ Used(idPool.tail) => idPool.tail = CountLimit - 1
PoolPart == OldInFirstRound /\ GivenOnce /\ TailUnused

(* The records that the load has passed are queued.                        *)
QueuedStored == \A i \in DOMAIN queue : fate[queue[i]] # "out"
LoadSoFar == pc = "load" =>
    /\ held = {} /\ QueuedStored
    /\ \A i \in DOMAIN queue : persistId[queue[i]] < offset
    /\ \A i \in Ids : i < offset /\ Used(i) => file[i].info \in Queued
LoadedAll == loaded = "completed" =>
    /\ QueuedStored
    /\ \A i \in Ids : i # CountLimit - 1 /\ Used(i) => file[i].info \in Queued
Idle == /\ pc # "ready" => loaded = "none"
        /\ pc # "load" => offset = 0
        /\ pc = "closed" => held = {} /\ queue = <<>>
LoadPart == LoadSoFar /\ LoadedAll /\ Idle

IInv == TypeOK /\ FilePart /\ MemoryPart /\ AppendApart /\ PoolPart /\ LoadPart

-----------------------------------------------------------------------------
(* The pool's list.  What a list gives out one after another stays so when *)
(* its head is taken, and when a cell is put to its tail that is not the   *)
(* tail already; a cell in the middle becomes the end of the list.         *)

LEMMA FullPool ==
    LET s == [j \in 1..CountLimit |-> j - 1]
    IN  /\ FullList(CountLimit) \in StaticLists(CountLimit)
        /\ FirstRound(FullList(CountLimit), 0, CountLimit - 1, {})
        /\ s \in Seq(Ids) /\ PoolOrder(FullList(CountLimit), s)
<1> DEFINE n == CountLimit
           s == [j \in 1..n |-> j - 1]
<1>1. n \in Nat \ {0} /\ Ids = 0..(n - 1)
  BY PsistAssumption DEF Ids, CellsOf
<1>2. FullList(n) \in StaticLists(n)
  BY <1>1, FullListOrder
<1>3. s \in Seq(Ids) /\ Len(s) = n /\ DOMAIN s = 1..n
  BY <1>1
<1>4. /\ FullList(n).head = 0 /\ FullList(n).tail = n - 1
      /\ \A c \in Ids : FullList(n).next[c] = IF c = n - 1 THEN Invalid ELSE c + 1
  BY <1>1 DEF FullList, CellsOf
<1>5. FirstRound(FullList(n), 0, n - 1, {})
  BY <1>1, <1>4 DEF FirstRound
<1>6. PoolOrder(FullList(n), s)
  <2>1. s # <<>> /\ s[1] = 0 /\ s[Len(s)] = n - 1
    BY <1>1, <1>3
  <2>2. \A j \in DOMAIN s :
           FullList(n).next[s[j]] = IF j = Len(s) THEN Invalid ELSE s[j + 1]
    BY <1>1, <1>3, <1>4
  <2>3. \A j, k \in DOMAIN s : s[j] = s[k] => j = k
    BY <1>1, <1>3
  <2> QED
    BY <1>4, <2>1, <2>2, <2>3 DEF PoolOrder
<1> QED
  BY <1>2, <1>3, <1>5, <1>6

LEMMA HeadTyped ==
    ASSUME NEW l \in StaticLists(CountLimit)
    PROVE  WithoutHead(l) \in StaticLists(CountLimit)
<1>1. CountLimit \in Nat
  BY PsistAssumption
<1>2. CASE l.head = Invalid
  BY <1>2 DEF WithoutHead
<1>3. CASE l.head # Invalid
  <2> DEFINE second == l.next[l.head]
             prev == [c \in DOMAIN l.prev |-> IF c \in {l.head, second} THEN Invalid ELSE l.prev[c]]
             next == [l.next EXCEPT ![l.head] = Invalid]
  <2>1. /\ l.head \in CellsOf(CountLimit) /\ l.tail \in Links(CountLimit) /\ l.num \in Int
        /\ l.prev \in [CellsOf(CountLimit) -> Links(CountLimit)]
        /\ l.next \in [CellsOf(CountLimit) -> Links(CountLimit)]
        /\ Invalid \in Links(CountLimit)
    BY <1>3 DEF StaticLists, Links
  <2>2. /\ second \in Links(CountLimit)
        /\ prev \in [CellsOf(CountLimit) -> Links(CountLimit)]
        /\ next \in [CellsOf(CountLimit) -> Links(CountLimit)]
    BY <2>1
  <2>3. WithoutHead(l) = [head |-> second, tail |-> IF second = Invalid THEN Invalid ELSE l.tail,
                          num |-> l.num - 1, prev |-> prev, next |-> next]
    BY <1>3 DEF WithoutHead
  <2> HIDE DEF second, prev, next
  <2> QED
    BY <2>1, <2>2, <2>3 DEF StaticLists
<1> QED
  BY <1>2, <1>3

(* The links of what is left, and of what was put back.                    *)
LEMMA HeadLinks ==
    ASSUME NEW l \in StaticLists(CountLimit), l.head # Invalid
    PROVE  LET r == WithoutHead(l)
           IN  /\ l.head \in Ids
               /\ r.head = l.next[l.head]
               /\ r.tail = IF l.next[l.head] = Invalid THEN Invalid ELSE l.tail
               /\ \A c \in Ids : r.next[c] = IF c = l.head THEN Invalid ELSE l.next[c]
BY DEF WithoutHead, StaticLists, Links, Ids

LEMMA TailLinks ==
    ASSUME NEW l \in StaticLists(CountLimit), NEW c \in Ids, l.head # Invalid => l.tail \in Ids
    PROVE  LET r == WithTail(l, c)
           IN  /\ r.tail = c
               /\ r.head = IF l.head = Invalid THEN c ELSE l.head
               /\ \A d \in Ids : r.next[d] = IF d = l.tail /\ l.head # Invalid THEN c
                                             ELSE IF d = c THEN Invalid ELSE l.next[d]
<1>1. CASE l.head = Invalid
  BY <1>1 DEF WithTail, StaticLists, Ids
<1>2. CASE l.head # Invalid
  BY <1>2 DEF WithTail, StaticLists, Ids
<1> QED
  BY <1>1, <1>2

LEMMA RoundTaken ==
    ASSUME NEW l \in StaticLists(CountLimit), NEW t \in 0..(CountLimit + 1),
           NEW last \in Ids, NEW rest \in SUBSET Ids,
           FirstRound(l, t, last, rest), l.head # Invalid
    PROVE  /\ l.head \in rest \/ l.head = t
           /\ FirstRound(WithoutHead(l), IF t <= CountLimit THEN t + 1 ELSE t, last, rest)
<1> DEFINE r == WithoutHead(l)
           u == IF t <= CountLimit THEN t + 1 ELSE t
<1>1. CountLimit \in Nat \ {0} /\ Ids = 0..(CountLimit - 1) /\ Invalid = -99
  BY PsistAssumption DEF Ids, CellsOf, Invalid
<1>2. /\ l.head \in Ids
      /\ r.head = l.next[l.head]
      /\ r.tail = IF l.next[l.head] = Invalid THEN Invalid ELSE l.tail
      /\ \A c \in Ids : r.next[c] = IF c = l.head THEN Invalid ELSE l.next[c]
  BY HeadLinks
<1>3. l.head \in rest \/ l.head = t
  BY DEF FirstRound
<1>4. /\ \A c \in rest : r.next[c] \in rest \cup {Invalid}
      /\ \A c \in rest : c < u \/ c >= last
  BY <1>1, <1>2 DEF FirstRound
<1>5. CASE t < last
  <2>1. /\ l.head = t /\ u = t + 1 /\ u <= last
        /\ \A c \in t..(last - 1) : l.next[c] = c + 1
        /\ l.next[last] \in rest \cup {Invalid}
        /\ l.tail \in rest \/ (l.tail = last /\ l.next[last] = Invalid)
    BY <1>1, <1>5 DEF FirstRound
  <2>2. /\ r.head = u
        /\ \A c \in u..(last - 1) : r.next[c] = c + 1
        /\ r.next[last] = l.next[last]
        /\ r.tail = l.tail
    BY <1>1, <1>2, <1>5, <2>1
  <2> HIDE DEF r, u
  <2> QED
    BY <1>3, <1>4, <2>1, <2>2 DEF FirstRound, r, u
<1>6. CASE t = last
  <2>1. /\ l.head = t /\ u = t + 1 /\ u > last
        /\ l.next[last] \in rest \cup {Invalid}
        /\ l.tail \in rest \/ (l.tail = last /\ l.next[last] = Invalid)
    BY <1>1, <1>6 DEF FirstRound
  <2>2. r.head \in rest \cup {Invalid} /\ (r.head # Invalid => r.tail \in rest)
    BY <1>2, <1>6, <2>1
  <2> HIDE DEF r, u
  <2> QED
    BY <1>3, <1>4, <2>1, <2>2 DEF FirstRound, r, u
<1>7. CASE t > last
  <2>1. l.head \in rest /\ l.tail \in rest /\ u > last
    BY <1>1, <1>7 DEF FirstRound
  <2>2. r.head \in rest \cup {Invalid} /\ (r.head # Invalid => r.tail \in rest)
    BY <1>2, <2>1 DEF FirstRound
  <2> HIDE DEF r, u
  <2> QED
    BY <1>3, <1>4, <2>1, <2>2 DEF FirstRound, r, u
<1> QED
  BY <1>1, <1>5, <1>6, <1>7

LEMMA RoundPut ==
    ASSUME NEW l \in StaticLists(CountLimit), NEW t \in 0..(CountLimit + 1), NEW c \in Ids,
           NEW last \in Ids, NEW rest \in SUBSET Ids, FirstRound(l, t, last, rest)
    PROVE  \E end \in Ids : \E tl \in SUBSET (rest \cup {c}) :
              FirstRound(WithTail(l, c), t, end, tl)
<1> DEFINE r == WithTail(l, c)
<1>1. CountLimit \in Nat \ {0} /\ Ids = 0..(CountLimit - 1) /\ Invalid = -99
  BY PsistAssumption DEF Ids, CellsOf, Invalid
<1>2. l.head # Invalid => l.tail \in Ids
  BY DEF FirstRound
<1>3. /\ r.tail = c
      /\ r.head = IF l.head = Invalid THEN c ELSE l.head
      /\ \A d \in Ids : r.next[d] = IF d = l.tail /\ l.head # Invalid THEN c
                                    ELSE IF d = c THEN Invalid ELSE l.next[d]
  BY <1>2, TailLinks
<1> HIDE DEF r
<1>4. CASE t <= c /\ c <= last /\ l.tail # c
  <2>1. /\ t <= last /\ l.head = t /\ l.head # Invalid
        /\ \A d \in t..(last - 1) : l.next[d] = d + 1
        /\ l.tail \in rest \cup {last}
    BY <1>1, <1>4 DEF FirstRound
  <2>2. \A d \in t..(c - 1) : d # l.tail /\ d \in Ids /\ d \in t..(last - 1)
    BY <1>1, <1>4, <2>1 DEF FirstRound
  <2>3. /\ r.head = t /\ r.tail = c /\ r.next[c] = Invalid
        /\ \A d \in t..(c - 1) : r.next[d] = d + 1
    BY <1>1, <1>3, <1>4, <2>1, <2>2
  <2>4. FirstRound(r, t, c, {})
    BY <1>4, <2>3 DEF FirstRound
  <2> QED
    BY <2>4 DEF r
<1>5. CASE t <= c /\ c <= last /\ l.tail = c
  <2>1. /\ t <= last /\ l.head = t /\ l.head # Invalid
        /\ \A d \in t..(last - 1) : l.next[d] = d + 1
        /\ c = last
    BY <1>1, <1>5 DEF FirstRound
  <2>2. \A d \in t..(c - 1) : d # l.tail /\ d \in Ids /\ d \in t..(last - 1)
    BY <1>1, <1>5, <2>1
  <2>3. /\ r.head = t /\ r.tail = c /\ r.next[c] = c
        /\ \A d \in t..(c - 1) : r.next[d] = d + 1
    BY <1>1, <1>3, <1>5, <2>1, <2>2
  <2>4. /\ \A d \in {c} : r.next[d] \in {c} \cup {Invalid}
        /\ \A d \in {c} : d < t \/ d >= c
        /\ r.next[c] \in {c} \cup {Invalid} /\ r.tail \in {c}
    BY <1>1, <2>3
  <2>5. FirstRound(r, t, c, {c})
    BY <1>5, <2>3, <2>4 DEF FirstRound
  <2> QED
    BY <2>5 DEF r
<1>6. CASE (c < t \/ c > last) /\ l.head = Invalid
  <2>1. t > last
    BY <1>1, <1>6 DEF FirstRound
  <2>2. r.head = c /\ r.tail = c /\ r.next[c] = Invalid
    BY <1>3, <1>6
  <2>3. FirstRound(r, t, last, {c})
    BY <1>1, <1>6, <2>1, <2>2 DEF FirstRound
  <2> QED
    BY <2>3 DEF r
<1>7. CASE (c < t \/ c > last) /\ l.head # Invalid
  <2> DEFINE tl == rest \cup {c}
  <2>1. l.tail \in rest \/ (t <= last /\ l.tail = last)
    BY <1>7 DEF FirstRound
  <2>2. /\ \A d \in tl : d < t \/ d >= last
        /\ \A d \in tl : r.next[d] \in tl \cup {Invalid}
        /\ tl \in SUBSET (rest \cup {c})
    BY <1>1, <1>3, <1>7 DEF FirstRound
  <2>3. CASE t <= last
    <3>1. /\ l.head = t
          /\ \A d \in t..(last - 1) : l.next[d] = d + 1
          /\ l.next[last] \in rest \cup {Invalid}
      BY <1>1, <2>3 DEF FirstRound
    <3>2. \A d \in t..(last - 1) : d # c /\ d # l.tail /\ d \in Ids
      BY <1>1, <1>7, <2>1 DEF FirstRound
    <3>3. r.head = t /\ \A d \in t..(last - 1) : r.next[d] = d + 1
      BY <1>3, <1>7, <3>1, <3>2
    <3>4. r.next[last] \in tl \cup {Invalid} /\ r.tail \in tl
      BY <1>3, <1>7, <3>1
    <3> HIDE DEF tl
    <3>5. FirstRound(r, t, last, tl)
      BY <2>2, <2>3, <3>3, <3>4 DEF FirstRound
    <3> QED
      BY <2>2, <3>5 DEF r
  <2>4. CASE t > last
    <3>1. l.head \in rest
      BY <1>1, <1>7, <2>4 DEF FirstRound
    <3>2. r.head \in tl /\ r.tail \in tl
      BY <1>3, <1>7, <3>1
    <3> HIDE DEF tl
    <3>3. FirstRound(r, t, last, tl)
      BY <2>2, <2>4, <3>2 DEF FirstRound
    <3> QED
      BY <2>2, <3>3 DEF r
  <2> QED
    BY <1>1, <2>3, <2>4
<1> QED
  BY <1>1, <1>4, <1>5, <1>6, <1>7

LEMMA OrderTaken ==
    ASSUME NEW l \in StaticLists(CountLimit), NEW s \in Seq(Ids),
           PoolOrder(l, s), l.head # Invalid
    PROVE  /\ s # <<>> /\ l.head = s[1] /\ Tail(s) \in Seq(Ids)
           /\ PoolOrder(WithoutHead(l), Tail(s))
<1> DEFINE r == WithoutHead(l)
           u == Tail(s)
<1>1. s # <<>> /\ l.head = s[1] /\ Len(s) \in Nat \ {0} /\ DOMAIN s = 1..Len(s)
  BY DEF PoolOrder
<1>2. /\ u \in Seq(Ids) /\ Len(u) = Len(s) - 1 /\ DOMAIN u = 1..Len(u)
      /\ \A j \in DOMAIN u : u[j] = s[j + 1] /\ j + 1 \in DOMAIN s
  BY <1>1
<1>3. /\ r.head = l.next[l.head]
      /\ r.tail = IF l.next[l.head] = Invalid THEN Invalid ELSE l.tail
      /\ \A c \in Ids : r.next[c] = IF c = l.head THEN Invalid ELSE l.next[c]
  BY HeadLinks
<1> HIDE DEF r, u
<1>4. \A j, k \in DOMAIN u : u[j] = u[k] => j = k
  <2> SUFFICES ASSUME NEW j \in DOMAIN u, NEW k \in DOMAIN u, u[j] = u[k] PROVE j = k
    OBVIOUS
  <2>1. s[j + 1] = s[k + 1] /\ j + 1 \in DOMAIN s /\ k + 1 \in DOMAIN s
    BY <1>2
  <2>2. j + 1 = k + 1
    BY ONLY <2>1, PoolOrder(l, s) DEF PoolOrder
  <2> QED
    BY <1>2, <2>2
<1>5. \A j \in DOMAIN u : r.next[u[j]] = IF j = Len(u) THEN Invalid ELSE u[j + 1]
  <2> SUFFICES ASSUME NEW j \in DOMAIN u
               PROVE  r.next[u[j]] = IF j = Len(u) THEN Invalid ELSE u[j + 1]
    OBVIOUS
  <2>1. u[j] = s[j + 1] /\ j + 1 \in DOMAIN s /\ 1 \in DOMAIN s /\ j + 1 # 1 /\ u[j] \in Ids
    BY <1>1, <1>2
  <2>2. s[j + 1] # s[1]
    BY <2>1 DEF PoolOrder
  <2>3. r.next[u[j]] = l.next[s[j + 1]]
    BY <1>1, <1>3, <2>1, <2>2
  <2>4. l.next[s[j + 1]] = IF j + 1 = Len(s) THEN Invalid ELSE s[j + 1 + 1]
    BY <2>1 DEF PoolOrder
  <2>5. j # Len(u) => u[j + 1] = s[j + 1 + 1]
    BY <1>2
  <2> QED
    BY <1>1, <1>2, <2>3, <2>4, <2>5
<1>6. /\ r.head = IF u = <<>> THEN Invalid ELSE u[1]
      /\ r.tail = IF u = <<>> THEN Invalid ELSE u[Len(u)]
  <2>1. l.next[s[1]] = IF 1 = Len(s) THEN Invalid ELSE s[2]
    BY <1>1 DEF PoolOrder
  <2>2. CASE Len(s) = 1
    <3>1. u = <<>>
      BY <1>2, <2>2
    <3> QED
      BY <1>1, <1>3, <2>1, <2>2, <3>1
  <2>3. CASE Len(s) # 1
    <3>1. u # <<>> /\ u[1] = s[2] /\ u[Len(u)] = s[Len(s)] /\ s[2] \in Ids
      BY <1>1, <1>2, <2>3
    <3>2. s[2] # Invalid
      BY <3>1 DEF Ids, CellsOf, Invalid
    <3>3. l.tail = s[Len(s)]
      BY <1>1 DEF PoolOrder
    <3> QED
      BY <1>1, <1>3, <2>1, <2>3, <3>1, <3>2, <3>3
  <2> QED
    BY <2>2, <2>3
<1>7. PoolOrder(r, u)
  BY <1>4, <1>5, <1>6 DEF PoolOrder
<1> QED
  BY <1>1, <1>2, <1>7 DEF r, u

LEMMA OrderPut ==
    ASSUME NEW l \in StaticLists(CountLimit), NEW s \in Seq(Ids), NEW c \in Ids,
           PoolOrder(l, s), c # l.tail
    PROVE  \E u \in Seq(Ids) :
              /\ PoolOrder(WithTail(l, c), u)
              /\ \A j \in DOMAIN u : u[j] = c \/ (j \in DOMAIN s /\ u[j] = s[j])
<1> DEFINE r == WithTail(l, c)
<1>1. Len(s) \in Nat /\ DOMAIN s = 1..Len(s) /\ c # Invalid
  BY DEF Ids, CellsOf, Invalid
<1>2. /\ s = <<>> <=> l.head = Invalid
      /\ s # <<>> => Len(s) # 0 /\ l.head = s[1] /\ l.tail = s[Len(s)]
                     /\ l.tail \in Ids /\ s[1] \in Ids
  <2>1. CASE s = <<>>
    BY <2>1 DEF PoolOrder
  <2>2. CASE s # <<>>
    <3>1. Len(s) # 0 /\ s[1] \in Ids /\ s[Len(s)] \in Ids
      BY <1>1, <2>2
    <3>2. l.head = s[1] /\ l.tail = s[Len(s)]
      BY <2>2 DEF PoolOrder
    <3>3. s[1] # Invalid
      BY <3>1 DEF Ids, CellsOf, Invalid
    <3> QED
      BY <2>2, <3>1, <3>2, <3>3
  <2> QED
    BY <2>1, <2>2
<1>3. /\ r.tail = c
      /\ r.head = IF l.head = Invalid THEN c ELSE l.head
      /\ \A d \in Ids : r.next[d] = IF d = l.tail /\ l.head # Invalid THEN c
                                    ELSE IF d = c THEN Invalid ELSE l.next[d]
  BY <1>2, TailLinks
<1>4. \A j \in DOMAIN s : l.next[s[j]] = IF j = Len(s) THEN Invalid ELSE s[j + 1]
  BY DEF PoolOrder
<1>5. \A j, k \in DOMAIN s : s[j] = s[k] => j = k
  BY DEF PoolOrder
<1> HIDE DEF r
<1>6. CASE \A j \in DOMAIN s : s[j] # c
  <2> DEFINE u == Append(s, c)
  <2>1. /\ u \in Seq(Ids) /\ u # <<>> /\ Len(u) = Len(s) + 1 /\ DOMAIN u = 1..(Len(s) + 1)
        /\ \A j \in DOMAIN s : u[j] = s[j]
        /\ u[Len(s) + 1] = c
    BY <1>1
  <2> HIDE DEF u
  <2>2. \A j, k \in DOMAIN u : u[j] = u[k] => j = k
    BY <1>1, <1>5, <1>6, <2>1
  <2>3. r.head = u[1] /\ r.tail = u[Len(u)]
    <3>1. CASE s = <<>>
      BY <1>2, <1>3, <2>1, <3>1
    <3>2. CASE s # <<>>
      BY <1>1, <1>2, <1>3, <2>1, <3>2
    <3> QED
      BY <3>1, <3>2
  <2>4. \A j \in DOMAIN u : r.next[u[j]] = IF j = Len(u) THEN Invalid ELSE u[j + 1]
    <3> SUFFICES ASSUME NEW j \in DOMAIN u
                 PROVE  r.next[u[j]] = IF j = Len(u) THEN Invalid ELSE u[j + 1]
      OBVIOUS
    <3>1. CASE j = Len(u)
      <4>1. u[j] = c
        BY <2>1, <3>1
      <4> QED
        BY <1>3, <3>1, <4>1
    <3>2. CASE j = Len(s)
      <4>1. j \in 1..(Len(s) + 1) /\ Len(u) = Len(s) + 1 /\ j >= 1
        BY <1>1, <2>1
      <4>2. j \in DOMAIN s /\ j # Len(u)
        <5>1. j \in 1..Len(s) /\ j # Len(u)
          BY ONLY Len(s) \in Nat, <3>2, <4>1
        <5> QED
          BY <1>1, <5>1
      <4>3. u[j] = s[Len(s)] /\ u[j + 1] = c
        BY <2>1, <3>2, <4>2
      <4>4. s # <<>>
        BY <1>1, <4>2
      <4>5. u[j] = l.tail /\ l.tail \in Ids /\ l.head # Invalid
        BY <1>2, <4>3, <4>4
      <4> QED
        BY <1>3, <4>2, <4>3, <4>5
    <3>3. CASE j < Len(s)
      <4>1. /\ j \in DOMAIN s /\ j + 1 \in DOMAIN s /\ Len(s) \in DOMAIN s /\ s # <<>>
            /\ u[j] = s[j] /\ u[j + 1] = s[j + 1]
            /\ j # Len(u) /\ j # Len(s) /\ s[j] \in Ids
        BY <1>1, <2>1, <3>3
      <4>2. s[j] # c /\ s[j] # l.tail
        BY <1>2, <1>5, <1>6, <4>1
      <4>3. r.next[s[j]] = l.next[s[j]] /\ l.next[s[j]] = s[j + 1]
        BY <1>3, <1>4, <4>1, <4>2
      <4> QED
        BY <4>1, <4>3
    <3> QED
      BY <1>1, <2>1, <3>1, <3>2, <3>3
  <2>5. PoolOrder(r, u)
    BY <2>1, <2>2, <2>3, <2>4 DEF PoolOrder
  <2>6. \A j \in DOMAIN u : u[j] = c \/ (j \in DOMAIN s /\ u[j] = s[j])
    BY <1>1, <2>1
  <2> QED
    BY <2>1, <2>5, <2>6 DEF r
<1>7. ASSUME NEW k \in DOMAIN s, s[k] = c
      PROVE  \E u \in Seq(Ids) :
                /\ PoolOrder(r, u)
                /\ \A j \in DOMAIN u : u[j] = c \/ (j \in DOMAIN s /\ u[j] = s[j])
  <2> DEFINE u == [j \in 1..k |-> s[j]]
  <2>1. s # <<>> /\ k # Len(s) /\ k < Len(s)
    BY <1>1, <1>2, <1>7
  <2>2. /\ u \in Seq(Ids) /\ u # <<>> /\ Len(u) = k /\ DOMAIN u = 1..k
        /\ \A j \in DOMAIN u : u[j] = s[j] /\ j \in DOMAIN s
        /\ u[1] = s[1] /\ u[Len(u)] = c
    BY <1>1, <1>7, <2>1
  <2> HIDE DEF u
  <2>3. \A i, j \in DOMAIN u : u[i] = u[j] => i = j
    BY <1>5, <2>2
  <2>4. r.head = u[1] /\ r.tail = u[Len(u)]
    BY <1>2, <1>3, <2>1, <2>2
  <2>5. \A j \in DOMAIN u : r.next[u[j]] = IF j = Len(u) THEN Invalid ELSE u[j + 1]
    <3> SUFFICES ASSUME NEW j \in DOMAIN u
                 PROVE  r.next[u[j]] = IF j = Len(u) THEN Invalid ELSE u[j + 1]
      OBVIOUS
    <3>1. j \in DOMAIN s /\ Len(s) \in DOMAIN s /\ j # Len(s) /\ u[j] = s[j] /\ s[j] \in Ids
      BY <1>1, <2>1, <2>2
    <3>2. s[j] # l.tail
      BY <1>2, <1>5, <2>1, <3>1
    <3>3. CASE j = k
      <4>1. u[j] = c /\ j = Len(u)
        BY <1>7, <2>2, <3>3
      <4> QED
        BY <1>3, <3>1, <3>2, <4>1
    <3>4. CASE j # k
      <4>1. s[j] # c /\ j + 1 \in DOMAIN u /\ u[j + 1] = s[j + 1]
        BY <1>1, <1>5, <1>7, <2>2, <3>1, <3>4
      <4>2. r.next[s[j]] = l.next[s[j]] /\ l.next[s[j]] = s[j + 1]
        BY <1>3, <1>4, <3>1, <3>2, <4>1
      <4> QED
        BY <2>2, <3>1, <3>4, <4>1, <4>2
    <3> QED
      BY <3>3, <3>4
  <2>6. PoolOrder(r, u)
    BY <2>2, <2>3, <2>4, <2>5 DEF PoolOrder
  <2> QED
    BY <2>2, <2>6
<1> QED
  BY <1>6, <1>7 DEF r

(* A list of ids without a repetition has at most as many as there are.    *)
LEMMA AtMostAllIds ==
    ASSUME NEW l, NEW s \in Seq(Ids), PoolOrder(l, s)
    PROVE  Len(s) \in 0..CountLimit /\ s \in [1..Len(s) -> Ids]
<1> DEFINE S == 1..Len(s)
           T == {s[j] : j \in S}
<1>1. CountLimit \in Nat /\ Ids = 0..(CountLimit - 1) /\ Len(s) \in Nat /\ DOMAIN s = S
      /\ s \in [S -> Ids]
  BY PsistAssumption DEF Ids, CellsOf
<1>2. IsFiniteSet(S) /\ Cardinality(S) = Len(s)
  <2>1. 1 \in Int /\ Len(s) \in Int
    BY <1>1
  <2>2. /\ IsFiniteSet(1..Len(s))
        /\ Cardinality(1..Len(s)) = IF 1 > Len(s) THEN 0 ELSE Len(s) - 1 + 1
    BY ONLY <2>1, FS_Interval
  <2> QED
    BY <1>1, <2>2
<1>3. IsFiniteSet(Ids) /\ Cardinality(Ids) = CountLimit
  BY <1>1, FS_Interval
<1>4. \A j, k \in S : s[j] = s[k] => j = k
  BY <1>1 DEF PoolOrder
<1>5. Cardinality(T) = Len(s)
  <2>1. IsFiniteSet(S) /\ DOMAIN s = S /\ \A j, k \in S : s[j] = s[k] => j = k
    BY <1>1, <1>2, <1>4
  <2>2. Cardinality(T) = Cardinality(S)
    BY <2>1, OneToOneCounted
  <2> QED
    BY <1>2, <2>2
<1>6. T \subseteq Ids
  BY <1>1
<1>7. Cardinality(T) <= Cardinality(Ids)
  BY <1>3, <1>6, FS_Subset
<1> HIDE DEF T
<1>8. Len(s) <= CountLimit
  BY ONLY <1>3, <1>5, <1>7
<1> QED
  BY <1>1, <1>8

-----------------------------------------------------------------------------
LEMMA InitInv == Init => IInv
<1> SUFFICES ASSUME Init PROVE IInv
  OBVIOUS
<1>1. CountLimit \in Nat \ {0} /\ Ids = 0..(CountLimit - 1) /\ None \notin Messages
  BY PsistAssumption DEF Ids, CellsOf
<1>2. /\ \A i \in Ids : ~Used(i) /\ file[i].info = None
      /\ idPool = FullList(CountLimit) /\ idPool.tail = CountLimit - 1
      /\ held = {} /\ queue = <<>> /\ pc = "ready" /\ offset = 0 /\ loaded = "none"
      /\ \A m \in Messages : fate[m] = "out"
      /\ takes = 0 /\ strayed = FALSE
  BY DEF Init, Used, Unused, FullList
<1>3. TypeOK
  <2>1. file \in [Ids -> Records] /\ persistId \in [Messages -> Links(CountLimit)]
    BY DEF Init, Unused, Records, Links
  <2>2. idPool \in StaticLists(CountLimit)
    BY <1>2, FullPool
  <2>3. fate \in [Messages -> Fates] /\ msg = None /\ queue \in Seq(Messages)
    BY DEF Init, Fates
  <2>4. offset \in Ids /\ takes \in 0..(CountLimit + 1)
    BY <1>1, <1>2
  <2> QED
    BY <1>2, <2>1, <2>2, <2>3, <2>4 DEF TypeOK
<1>4. FilePart
  BY <1>2 DEF FilePart, RecordsNamed, OneRecordEach, EveryStored, NoneNew
<1>5. MemoryPart /\ AppendApart
  BY <1>2 DEF MemoryPart, HeldKnown, QueuedKnown, QueueInOrder, NotOfLast, InMemory, Queued,
              AppendApart
<1>6. PoolPart
  <2>1. OldInFirstRound
    <3>1. FirstRound(idPool, takes, CountLimit - 1, {}) /\ CountLimit - 1 \in Ids
      BY <1>1, <1>2, FullPool
    <3> QED
      BY <3>1 DEF OldInFirstRound
  <2>2. GivenOnce
    <3> DEFINE s == [j \in 1..CountLimit |-> j - 1]
    <3>1. s \in Seq(Ids) /\ PoolOrder(idPool, s) /\ DOMAIN s = 1..CountLimit
      BY <1>2, FullPool
    <3>2. \A j \in DOMAIN s : MayGive(s[j], j)
      BY <1>1, <1>2, <3>1 DEF MayGive
    <3> HIDE DEF s
    <3> QED
      BY <3>1, <3>2 DEF GivenOnce
  <2> QED
    BY <1>2, <2>1, <2>2 DEF PoolPart, TailUnused
<1>7. LoadPart
  BY <1>2 DEF LoadPart, LoadSoFar, LoadedAll, Idle
<1> QED
  BY <1>3, <1>4, <1>5, <1>6, <1>7 DEF IInv

-----------------------------------------------------------------------------
(* What steps leave alone. *)

LEMMA FileKept ==
    ASSUME FilePart, UNCHANGED <<file, fate, strayed>>
    PROVE  FilePart'
BY DEF FilePart, RecordsNamed, OneRecordEach, EveryStored, NoneNew, Used

LEMMA PoolKept ==
    ASSUME PoolPart, UNCHANGED <<file, idPool, fate, takes, strayed>>, pc' # "append"
    PROVE  PoolPart'
<1>1. OldInFirstRound' /\ TailUnused'
  BY DEF PoolPart, OldInFirstRound, TailUnused, Old, Used
<1>2. ASSUME ~strayed PROVE GivenOnce'
  <2>1. PICK s \in Seq(Ids) : PoolOrder(idPool, s) /\ \A j \in DOMAIN s : MayGive(s[j], j)
    BY <1>2 DEF PoolPart, GivenOnce
  <2>2. PoolOrder(idPool', s)
    BY <2>1
  <2>3. \A j \in DOMAIN s : MayGive(s[j], j)'
    BY <2>1 DEF MayGive, Used
  <2> QED
    BY <2>2, <2>3 DEF GivenOnce
<1> QED
  BY <1>1, <1>2 DEF PoolPart, GivenOnce

LEMMA MemoryKept ==
    ASSUME MemoryPart, UNCHANGED <<file, fate, strayed, held, queue>>,
           \A x \in InMemory : persistId'[x] = persistId[x]
    PROVE  MemoryPart'
<1>1. \A x \in InMemory : Known(x) => Known(x)'
  BY DEF Known, Used, Old
<1>2. (\A x \in held : x \in InMemory) /\ (\A i \in DOMAIN queue : queue[i] \in InMemory)
  BY DEF InMemory, Queued
<1>3. HeldKnown' /\ QueuedKnown'
  BY <1>1, <1>2 DEF MemoryPart, HeldKnown, QueuedKnown
<1>4. QueueInOrder' /\ NotOfLast'
  BY <1>2 DEF MemoryPart, QueueInOrder, NotOfLast, InMemory, Queued
<1> QED
  BY <1>3, <1>4 DEF MemoryPart

(* What has nothing in memory has nothing to know. *)
LEMMA NothingInMemory ==
    ASSUME held = {}, queue = <<>>
    PROVE  MemoryPart
<1>1. DOMAIN queue = {} /\ InMemory = {}
  BY DEF InMemory, Queued
<1> QED
  BY <1>1 DEF MemoryPart, HeldKnown, QueuedKnown, QueueInOrder, NotOfLast

-----------------------------------------------------------------------------
(* The steps of an append. *)

(* The id that an append takes may be that of an older message's record,   *)
(* and then of the one whose turn it is, or its session has strayed.       *)
LEMMA IdTaken ==
    ASSUME IInv, NEW m \in Messages, TakesId(m)
    PROVE  /\ idPool.head \in Ids
           /\ idPool' \in StaticLists(CountLimit) /\ takes' \in 0..(CountLimit + 1)
           /\ Used(idPool.head) =>
                 \/ fate[file[idPool.head].info] = "hit" /\ strayed
                 \/ /\ idPool.head = takes /\ takes' = takes + 1
                    /\ fate[file[idPool.head].info] \in {"old", "hit"}
           /\ \E last \in Ids : \E rest \in SUBSET Ids :
                 FirstRound(idPool', takes', last, rest) /\ \A c \in rest : ~Old(c)
           /\ ~strayed => \E s \in Seq(Ids) :
                 /\ PoolOrder(idPool', s)
                 /\ \A j \in DOMAIN s :
                       /\ s[j] # idPool.head
                       /\ Used(s[j]) => s[j] = takes' + j - 1 /\ fate[file[s[j]].info] # "new"
           /\ idPool'.tail \in {Invalid, idPool.tail}
<1> DEFINE h == idPool.head
<1>1. /\ pc = "ready" /\ h >= 0 /\ idPool' = WithoutHead(idPool)
      /\ takes' = IF takes <= CountLimit THEN takes + 1 ELSE takes
  BY DEF TakesId, Taken, CountTake
<1>2. /\ CountLimit \in Nat \ {0} /\ Ids = 0..(CountLimit - 1) /\ Invalid = -99
      /\ idPool \in StaticLists(CountLimit) /\ takes \in 0..(CountLimit + 1)
  BY PsistAssumption DEF IInv, TypeOK, Ids, CellsOf, Invalid
<1>3. h # Invalid /\ h \in Ids /\ idPool' \in StaticLists(CountLimit)
  BY <1>1, <1>2, HeadLinks, HeadTyped
<1>4. takes' \in 0..(CountLimit + 1) /\ (takes \in Ids => takes' = takes + 1)
  BY <1>1, <1>2
<1>5. PICK last \in Ids : \E rest \in SUBSET Ids :
         FirstRound(idPool, takes, last, rest) /\ \A c \in rest : ~Old(c)
  BY DEF IInv, PoolPart, OldInFirstRound
<1>6. PICK rest \in SUBSET Ids :
         FirstRound(idPool, takes, last, rest) /\ \A c \in rest : ~Old(c)
  BY <1>5
<1>7. /\ h \in rest \/ h = takes
      /\ FirstRound(idPool', takes', last, rest)
  BY <1>1, <1>2, <1>3, <1>6, RoundTaken
<1>8. ASSUME ~strayed
      PROVE  /\ Used(h) => h = takes /\ fate[file[h].info] # "new"
             /\ \E s \in Seq(Ids) :
                 /\ PoolOrder(idPool', s)
                 /\ \A j \in DOMAIN s :
                       /\ s[j] # h
                       /\ Used(s[j]) => s[j] = takes' + j - 1 /\ fate[file[s[j]].info] # "new"
  <2>1. PICK s \in Seq(Ids) : PoolOrder(idPool, s) /\ \A j \in DOMAIN s : MayGive(s[j], j)
    BY <1>8 DEF IInv, PoolPart, GivenOnce
  <2>2. /\ s # <<>> /\ h = s[1] /\ Tail(s) \in Seq(Ids)
        /\ PoolOrder(idPool', Tail(s))
    BY <1>1, <1>2, <1>3, <2>1, OrderTaken
  <2>3. /\ Len(s) \in Nat \ {0} /\ DOMAIN s = 1..Len(s)
        /\ DOMAIN Tail(s) = 1..(Len(s) - 1)
        /\ \A j \in 1..(Len(s) - 1) : Tail(s)[j] = s[j + 1]
    BY <2>2
  <2>4. Used(h) => h = takes /\ fate[file[h].info] # "new"
    <3>1. MayGive(s[1], 1) /\ takes + 1 - 1 = takes
      BY <1>2, <2>1, <2>3
    <3> QED
      BY <2>2, <3>1 DEF MayGive
  <2>5. ASSUME NEW j \in DOMAIN Tail(s)
        PROVE  /\ Tail(s)[j] # h
               /\ Used(Tail(s)[j]) => /\ Tail(s)[j] = takes' + j - 1
                                      /\ fate[file[Tail(s)[j]].info] # "new"
    <3>1. j + 1 \in DOMAIN s /\ 1 \in DOMAIN s /\ j + 1 # 1 /\ Tail(s)[j] = s[j + 1] /\ j \in Nat
      BY <2>3
    <3>2. s[j + 1] # s[1]
      BY <2>1, <3>1 DEF PoolOrder
    <3>3. Used(s[j + 1]) => s[j + 1] = takes + (j + 1) - 1 /\ fate[file[s[j + 1]].info] # "new"
      BY <2>1, <3>1 DEF MayGive
    <3>4. s[j + 1] \in Ids
      BY <3>1
    <3>5. ASSUME s[j + 1] = takes + (j + 1) - 1 PROVE s[j + 1] = takes' + j - 1
      BY <1>1, <1>2, <3>1, <3>4, <3>5
    <3> QED
      BY <2>2, <3>1, <3>2, <3>3, <3>5
  <2> QED
    BY <2>2, <2>4, <2>5
<1>9. ASSUME Used(h)
      PROVE  \/ fate[file[h].info] = "hit" /\ strayed
             \/ /\ h = takes /\ takes' = takes + 1
                /\ fate[file[h].info] \in {"old", "hit"}
  <2>1. file[h].info \in Messages /\ fate[file[h].info] # "out" /\ fate[file[h].info] \in Fates
    BY <1>3, <1>9 DEF IInv, FilePart, RecordsNamed, TypeOK
  <2>2. fate[file[h].info] # "new"
    BY <1>8, <1>9, <2>1 DEF IInv, FilePart, NoneNew, TypeOK
  <2>3. fate[file[h].info] = "old" => h = takes
    BY <1>6, <1>7, <1>9 DEF Old
  <2> QED
    BY <1>3, <1>4, <1>8, <1>9, <2>1, <2>2, <2>3 DEF Fates
<1>10. idPool'.tail \in {Invalid, idPool.tail}
  BY <1>1, <1>2, <1>3, HeadLinks
<1> QED
  BY <1>3, <1>4, <1>6, <1>7, <1>8, <1>9, <1>10

(* The bytes go to the record of that id.  An older message in it is hit. *)
LEMMA AppendWritesBodyInv ==
    ASSUME IInv, NEW m \in Messages, AppendWritesBody(m)
    PROVE  IInv'
<1> DEFINE h == idPool.head
<1>1. /\ TakesId(m)
      /\ pc = "ready" /\ fate[m] = "out" /\ m \notin InMemory
      /\ persistId' = [persistId EXCEPT ![m] = h]
      /\ file' = [file EXCEPT ![h].body = m]
      /\ fate' = [x \in Messages |->
                     IF fate[x] = "old" /\ takes \in Ids /\ file[takes].info = x
                     THEN "hit" ELSE fate[x]]
      /\ msg' = m /\ pc' = "append" /\ loaded' = "none"
      /\ UNCHANGED <<held, queue, offset, strayed>>
  BY DEF AppendWritesBody, TakesId, BodyWritten
<1>2. /\ h \in Ids /\ takes' \in 0..(CountLimit + 1)
      /\ idPool' \in StaticLists(CountLimit)
      /\ Used(h) => \/ fate[file[h].info] = "hit" /\ strayed
                    \/ /\ h = takes /\ takes' = takes + 1
                       /\ fate[file[h].info] \in {"old", "hit"}
  BY <1>1, IdTaken
<1>3. /\ file \in [Ids -> Records] /\ fate \in [Messages -> Fates]
      /\ persistId \in [Messages -> Links(CountLimit)] /\ takes \in 0..(CountLimit + 1)
  BY DEF IInv, TypeOK
<1>4. TypeOK'
  <2>1. file' \in [Ids -> Records] /\ persistId' \in [Messages -> Links(CountLimit)]
    BY <1>1, <1>2, <1>3 DEF Records, Links, Ids
  <2>2. fate' \in [Messages -> Fates]
    BY <1>1, <1>3 DEF Fates
  <2> QED
    BY <1>1, <1>2, <2>1, <2>2 DEF IInv, TypeOK
<1>5. /\ \A i \in Ids : file'[i].flag = file[i].flag /\ file'[i].info = file[i].info
      /\ \A i \in Ids \ {h} : file'[i].body = file[i].body
      /\ file'[h].body = m
      /\ persistId'[m] = h
      /\ \A x \in Messages \ {m} : persistId'[x] = persistId[x]
  BY <1>1, <1>2, <1>3 DEF Records
<1>6. \A x \in Messages : /\ fate'[x] = "out" <=> fate[x] = "out"
                          /\ fate'[x] = "new" <=> fate[x] = "new"
                          /\ fate'[x] = "old" => fate[x] = "old"
                          /\ fate[x] = "hit" => fate'[x] = "hit"
                          /\ fate'[x] \in Fates
  BY <1>1, <1>3 DEF Fates
<1>7. \A i \in Ids : Used(i) => file[i].info \in Messages /\ fate[file[i].info] # "out"
  BY DEF IInv, FilePart, RecordsNamed
<1>8. \A i \in Ids : (Used(i)' <=> Used(i)) /\ (Old(i)' => Old(i))
  BY <1>5, <1>6, <1>7 DEF Used, Old
<1>9. Used(h) => /\ fate'[file[h].info] = "hit"
                 /\ strayed \/ h = takes' - 1
  BY <1>1, <1>2, <1>3, <1>6, <1>7
<1>10. FilePart'
  <2>1. RecordsNamed'
    <3> SUFFICES ASSUME NEW i \in Ids
                 PROVE  IF Used(i)'
                        THEN /\ file'[i].info \in Messages
                             /\ fate'[file'[i].info] # "out"
                             /\ fate'[file'[i].info] \in {"new", "old"} => file'[i].body = file'[i].info
                        ELSE file'[i].info = None
      BY DEF RecordsNamed
    <3>1. CASE Used(i)
      <4>1. fate'[file[i].info] \in {"new", "old"} => i # h /\ file[i].body = file[i].info
        BY <1>6, <1>7, <1>9, <3>1 DEF IInv, FilePart, RecordsNamed
      <4> QED
        BY <1>5, <1>6, <1>7, <1>8, <3>1, <4>1
    <3>2. CASE ~Used(i)
      BY <1>5, <1>8, <3>2 DEF IInv, FilePart, RecordsNamed
    <3> QED
      BY <3>1, <3>2
  <2>2. OneRecordEach'
    BY <1>5, <1>8 DEF IInv, FilePart, OneRecordEach
  <2>3. EveryStored' /\ NoneNew'
    BY <1>1, <1>5, <1>6, <1>8 DEF IInv, FilePart, EveryStored, NoneNew
  <2> QED
    BY <2>1, <2>2, <2>3 DEF FilePart
<1>11. MemoryPart'
  <2>1. /\ \A x \in InMemory : x \in Messages /\ x # m
        /\ \A x \in held : x \in InMemory
        /\ \A i \in DOMAIN queue : queue[i] \in InMemory
        /\ InMemory' = InMemory
    BY <1>1 DEF IInv, TypeOK, InMemory, Queued
  <2>2. \A x \in InMemory : Known(x) => Known(x)'
    BY <1>5, <1>6, <1>8, <2>1 DEF Known
  <2>3. HeldKnown' /\ QueuedKnown'
    BY <1>1, <2>1, <2>2 DEF IInv, MemoryPart, HeldKnown, QueuedKnown
  <2>4. QueueInOrder'
    BY <1>1, <1>5, <2>1 DEF IInv, MemoryPart, QueueInOrder
  <2>5. NotOfLast'
    BY <1>1, <1>3, <1>5, <1>6, <2>1 DEF IInv, MemoryPart, NotOfLast, Fates
  <2> QED
    BY <2>3, <2>4, <2>5 DEF MemoryPart
<1>12. AppendApart'
  BY <1>1, <1>2, <1>5, <1>6, <1>8, <1>9 DEF AppendApart, InMemory, Queued
<1>13. PoolPart'
  <2>1. OldInFirstRound'
    <3>1. PICK last \in Ids : \E rest \in SUBSET Ids :
             FirstRound(idPool', takes', last, rest) /\ \A c \in rest : ~Old(c)
      BY <1>1, IdTaken
    <3>2. PICK rest \in SUBSET Ids :
             FirstRound(idPool', takes', last, rest) /\ \A c \in rest : ~Old(c)
      BY <3>1
    <3>3. \A c \in rest : ~Old(c)'
      BY <1>8, <3>2
    <3> QED
      BY <3>2, <3>3 DEF OldInFirstRound
  <2>2. GivenOnce'
    <3> SUFFICES ASSUME ~strayed
                 PROVE  \E s \in Seq(Ids) :
                           PoolOrder(idPool', s) /\ \A j \in DOMAIN s : MayGive(s[j], j)'
      BY <1>1 DEF GivenOnce
    <3>1. PICK s \in Seq(Ids) :
             /\ PoolOrder(idPool', s)
             /\ \A j \in DOMAIN s :
                   /\ s[j] # h
                   /\ Used(s[j]) => s[j] = takes' + j - 1 /\ fate[file[s[j]].info] # "new"
      BY <1>1, IdTaken
    <3>2. ASSUME NEW j \in DOMAIN s PROVE MayGive(s[j], j)'
      <4>1. s[j] \in Ids
        OBVIOUS
      <4> QED
        BY <1>1, <1>5, <1>6, <1>7, <1>8, <3>1, <4>1 DEF MayGive
    <3> QED
      BY <3>1, <3>2
  <2>3. TailUnused'
    <3>1. idPool'.tail \in {Invalid, idPool.tail} /\ Invalid \notin Ids
      BY <1>1, IdTaken DEF Ids, CellsOf, Invalid
    <3> QED
      BY <1>1, <1>8, <3>1 DEF IInv, PoolPart, TailUnused
  <2> QED
    BY <2>1, <2>2, <2>3 DEF PoolPart
<1>14. LoadPart'
  BY <1>1 DEF IInv, LoadPart, LoadSoFar, LoadedAll, Idle
<1> QED
  BY <1>4, <1>10, <1>11, <1>12, <1>13, <1>14 DEF IInv

(* A failing first write only takes the id. *)
LEMMA AppendFailsAtOnceInv ==
    ASSUME IInv, NEW m \in Messages, AppendFailsAtOnce(m)
    PROVE  IInv'
<1>1. /\ TakesId(m) /\ pc = "ready" /\ loaded' = "none"
      /\ UNCHANGED <<file, persistId, held, queue, pc, msg, offset, fate, strayed>>
  BY DEF AppendFailsAtOnce, TakesId
<1>2. TypeOK'
  BY <1>1, IdTaken DEF IInv, TypeOK
<1>3. FilePart' /\ MemoryPart'
  BY <1>1, FileKept, MemoryKept DEF IInv
<1>4. AppendApart' /\ LoadPart'
  BY <1>1 DEF IInv, AppendApart, LoadPart, LoadSoFar, LoadedAll, Idle
<1>5. \A c \in Ids : (Used(c)' <=> Used(c)) /\ (Old(c)' <=> Old(c))
  BY <1>1 DEF Used, Old
<1>6. PoolPart'
  <2>1. OldInFirstRound'
    <3>1. PICK last \in Ids : \E rest \in SUBSET Ids :
             FirstRound(idPool', takes', last, rest) /\ \A c \in rest : ~Old(c)
      BY <1>1, IdTaken
    <3>2. PICK rest \in SUBSET Ids :
             FirstRound(idPool', takes', last, rest) /\ \A c \in rest : ~Old(c)
      BY <3>1
    <3> QED
      BY <1>5, <3>2 DEF OldInFirstRound
  <2>2. GivenOnce'
    <3> SUFFICES ASSUME ~strayed
                 PROVE  \E s \in Seq(Ids) :
                           PoolOrder(idPool', s) /\ \A j \in DOMAIN s : MayGive(s[j], j)'
      BY <1>1 DEF GivenOnce
    <3>1. PICK s \in Seq(Ids) :
             /\ PoolOrder(idPool', s)
             /\ \A j \in DOMAIN s :
                   Used(s[j]) => s[j] = takes' + j - 1 /\ fate[file[s[j]].info] # "new"
      BY <1>1, IdTaken
    <3>2. ASSUME NEW j \in DOMAIN s PROVE MayGive(s[j], j)'
      <4>1. s[j] \in Ids
        OBVIOUS
      <4> QED
        BY <1>1, <1>5, <3>1, <4>1 DEF MayGive
    <3> QED
      BY <3>1, <3>2
  <2>3. TailUnused'
    <3>1. idPool'.tail \in {Invalid, idPool.tail} /\ Invalid \notin Ids
      BY <1>1, IdTaken DEF Ids, CellsOf, Invalid
    <3> QED
      BY <1>1, <1>5, <3>1 DEF IInv, PoolPart, TailUnused
  <2> QED
    BY <2>1, <2>2, <2>3 DEF PoolPart
<1> QED
  BY <1>2, <1>3, <1>4, <1>6 DEF IInv

(* Its info makes it the message's record, and no longer the older one's.  *)
LEMMA AppendWritesInfoInv ==
    ASSUME IInv, AppendWritesInfo
    PROVE  IInv'
<1>m. PICK m : m = msg
  OBVIOUS
<1>a. PICK c : c = persistId[m]
  OBVIOUS
<1>b. PICK old : old = file[c].info
  OBVIOUS
<1>1. /\ pc = "append"
      /\ file' = [file EXCEPT ![c] = InfoWritten(file[c], m)]
      /\ fate' = [x \in Messages |->
                     IF x = m THEN IF strayed THEN "hit" ELSE "new"
                     ELSE IF x = old /\ fate[x] = "hit" THEN "out"
                     ELSE fate[x]]
      /\ held' = held \cup {m}
      /\ msg' = None /\ pc' = "ready"
      /\ UNCHANGED <<idPool, persistId, queue, offset, loaded, takes, strayed>>
  BY <1>m, <1>a, <1>b DEF AppendWritesInfo
<1>2. /\ m \in Messages /\ m \notin InMemory /\ fate[m] = "out"
      /\ c \in Ids /\ file[c].body = m
      /\ Used(c) => fate[old] = "hit"
      /\ loaded = "none" /\ offset = 0
  BY <1>m, <1>a, <1>b, <1>1 DEF IInv, AppendApart, LoadPart, Idle
<1>3. /\ file \in [Ids -> Records] /\ fate \in [Messages -> Fates] /\ None \notin Messages
  BY PsistAssumption DEF IInv, TypeOK
<1>4. /\ file' \in [Ids -> Records]
      /\ \A i \in Ids \ {c} : file'[i] = file[i]
      /\ file'[c].flag = 1 /\ file'[c].info = m /\ file'[c].body = m
  BY <1>1, <1>2, <1>3 DEF Records, InfoWritten
<1>5. TypeOK'
  <2>1. fate' \in [Messages -> Fates]
    BY <1>1, <1>3 DEF Fates
  <2> QED
    BY <1>1, <1>2, <1>4, <2>1 DEF IInv, TypeOK
<1>6. /\ Used(c) => old \in Messages /\ old # m
      /\ ~Used(c) => old = None
      /\ \A i \in Ids : Used(i) => file[i].info \in Messages /\ file[i].info # m
                                   /\ fate[file[i].info] # "out"
      /\ \A i \in Ids \ {c} : Used(i) /\ Used(c) => file[i].info # old
  BY <1>b, <1>2 DEF IInv, FilePart, RecordsNamed, OneRecordEach
<1>7. /\ fate'[m] \in {"hit", "new"} /\ (strayed => fate'[m] = "hit")
      /\ ~strayed => fate'[m] = "new"
      /\ Used(c) => fate'[old] = "out"
      /\ \A x \in Messages \ {m} : x # old => fate'[x] = fate[x]
      /\ \A x \in Messages \ {m} : fate'[x] # "out" => fate'[x] = fate[x] /\ (Used(c) => x # old)
      /\ \A x \in Messages : fate[x] = "out" /\ x # m => fate'[x] = "out"
      /\ \A x \in Messages : fate'[x] = "old" => fate[x] = "old"
  BY <1>1, <1>2, <1>3, <1>6
<1>8. /\ Used(c)' /\ ~Old(c)'
      /\ \A i \in Ids \ {c} : Used(i)' <=> Used(i)
      /\ \A i \in Ids : Old(i)' => Old(i)
      /\ \A i \in Ids \ {c} : Used(i) => fate'[file[i].info] = fate[file[i].info]
  <2>1. Used(c)' /\ ~Old(c)' /\ \A i \in Ids \ {c} : Used(i)' <=> Used(i)
    BY <1>2, <1>4, <1>7 DEF Used, Old
  <2>2. ASSUME NEW i \in Ids \ {c}, Used(i) PROVE fate'[file[i].info] = fate[file[i].info]
    <3>1. CASE Used(c)
      BY <1>6, <1>7, <2>2, <3>1
    <3>2. CASE ~Used(c)
      <4>1. file[i].info # old
        BY <1>3, <1>6, <2>2, <3>2
      <4> QED
        BY <1>6, <1>7, <2>2, <4>1
    <3> QED
      BY <3>1, <3>2
  <2>3. ASSUME NEW i \in Ids, Old(i)' PROVE Old(i)
    <3>1. i # c
      BY <2>1, <2>3
    <3> QED
      BY <1>4, <2>1, <2>2, <2>3, <3>1 DEF Old
  <2> QED
    BY <2>1, <2>2, <2>3
<1>9. FilePart'
  <2>1. RecordsNamed'
    <3> SUFFICES ASSUME NEW i \in Ids
                 PROVE  IF Used(i)'
                        THEN /\ file'[i].info \in Messages
                             /\ fate'[file'[i].info] # "out"
                             /\ fate'[file'[i].info] \in {"new", "old"} => file'[i].body = file'[i].info
                        ELSE file'[i].info = None
      BY DEF RecordsNamed
    <3>1. CASE i = c
      BY <1>2, <1>4, <1>7, <1>8, <3>1
    <3>2. CASE i # c
      BY <1>4, <1>8, <3>2 DEF IInv, FilePart, RecordsNamed
    <3> QED
      BY <3>1, <3>2
  <2>2. OneRecordEach'
    <3> SUFFICES ASSUME NEW i \in Ids, NEW j \in Ids, Used(i)', Used(j)',
                        file'[i].info = file'[j].info
                 PROVE  i = j
      BY DEF OneRecordEach
    <3>1. CASE i # c /\ j # c
      BY <1>4, <1>8, <3>1 DEF IInv, FilePart, OneRecordEach
    <3>2. CASE i = c \/ j = c
      BY <1>4, <1>6, <1>8, <3>2
    <3> QED
      BY <3>1, <3>2
  <2>3. EveryStored'
    <3> SUFFICES ASSUME NEW x \in Messages, fate'[x] # "out"
                 PROVE  \E i \in Ids : Used(i)' /\ file'[i].info = x
      BY DEF EveryStored
    <3>1. CASE x = m
      BY <1>2, <1>4, <1>8, <3>1
    <3>2. CASE x # m
      <4>1. fate[x] # "out" /\ (Used(c) => x # old)
        BY <1>7, <3>2
      <4>2. PICK i \in Ids : Used(i) /\ file[i].info = x
        BY <4>1 DEF IInv, FilePart, EveryStored
      <4>3. i # c
        BY <1>b, <4>1, <4>2
      <4> QED
        BY <1>4, <1>8, <4>2, <4>3
    <3> QED
      BY <3>1, <3>2
  <2>4. NoneNew'
    BY <1>1, <1>7 DEF IInv, FilePart, NoneNew
  <2> QED
    BY <2>1, <2>2, <2>3, <2>4 DEF FilePart
<1>10. MemoryPart'
  <2>1. /\ \A x \in InMemory : x \in Messages /\ x # m
        /\ \A x \in held : x \in InMemory
        /\ \A i \in DOMAIN queue : queue[i] \in InMemory
        /\ InMemory' = InMemory \cup {m}
    BY <1>1, <1>2 DEF IInv, TypeOK, InMemory, Queued
  <2>2. ASSUME NEW x \in InMemory, Known(x) PROVE Known(x)'
    <3>1. x \in Messages /\ x # m /\ persistId[x] \in Ids /\ persistId'[x] = persistId[x]
      BY <1>1, <2>1, <2>2 DEF Known
    <3>2. CASE fate'[x] # "out"
      <4>1. fate[x] # "out" /\ (Used(c) => x # old)
        BY <1>7, <3>1, <3>2
      <4>2. Used(persistId[x]) /\ file[persistId[x]].info = x
        BY <2>2, <4>1 DEF Known
      <4>3. persistId[x] # c
        BY <1>b, <4>1, <4>2
      <4>4. Used(persistId[x])' /\ file'[persistId[x]].info = x
        BY <1>4, <1>8, <3>1, <4>2, <4>3
      <4> QED
        BY <3>1, <3>2, <4>4 DEF Known, Used
    <3>3. CASE fate'[x] = "out"
      <4>1. ~Old(persistId[x])'
        <5>1. CASE fate[x] = "out"
          BY <1>8, <2>2, <3>1, <5>1 DEF Known
        <5>2. CASE fate[x] # "out"
          <6>1. Used(persistId[x]) /\ file[persistId[x]].info = x
            BY <2>2, <5>2 DEF Known
          <6>2. CASE persistId[x] = c
            BY <1>8, <3>1, <6>2 DEF Old, Used
          <6>3. CASE persistId[x] # c
            <7>1. fate'[x] = fate[x]
              BY <1>8, <3>1, <6>1, <6>3
            <7> QED
              BY <3>3, <5>2, <7>1
          <6> QED
            BY <6>2, <6>3
        <5> QED
          BY <5>1, <5>2
      <4> QED
        BY <3>1, <3>3, <4>1 DEF Known, Old, Used
    <3> QED
      BY <3>2, <3>3
  <2>3. Known(m)'
    <3>1. persistId'[m] = c
      BY <1>a, <1>1
    <3> QED
      BY <1>2, <1>4, <1>7, <1>8, <3>1 DEF Known, Used
  <2>4. \A x \in held' : Known(x)'
    BY <1>1, <2>1, <2>2, <2>3 DEF IInv, MemoryPart, HeldKnown
  <2>5. \A i \in DOMAIN queue : Known(queue[i])' /\ queue[i] \notin held'
    BY <1>1, <2>1, <2>2 DEF IInv, MemoryPart, QueuedKnown
  <2>6. HeldKnown' /\ QueuedKnown'
    <3>1. HeldKnown'
      BY <2>4 DEF HeldKnown, Known, Old, Used
    <3>2. QueuedKnown'
      BY <1>1, <2>5 DEF QueuedKnown, Known, Old, Used
    <3> QED
      BY <3>1, <3>2
  <2>7. QueueInOrder'
    BY <1>1 DEF IInv, MemoryPart, QueueInOrder
  <2>8. NotOfLast'
    <3> SUFFICES ASSUME NEW x \in InMemory', ~strayed, fate'[x] \in {"old", "hit"}
                 PROVE  persistId[x] # CountLimit - 1
      BY <1>1 DEF NotOfLast
    <3>1. x # m /\ x \in InMemory /\ x \in Messages
      BY <1>7, <2>1
    <3>2. fate'[x] = fate[x]
      BY <1>7, <3>1
    <3> QED
      BY <3>1, <3>2 DEF IInv, MemoryPart, NotOfLast
  <2> QED
    BY <2>6, <2>7, <2>8 DEF MemoryPart
<1>11. AppendApart' /\ LoadPart'
  BY <1>1, <1>2 DEF AppendApart, LoadPart, LoadSoFar, LoadedAll, Idle
<1>12. PoolPart'
  <2>1. OldInFirstRound'
    <3>1. PICK last \in Ids : \E rest \in SUBSET Ids :
             FirstRound(idPool, takes, last, rest) /\ \A i \in rest : ~Old(i)
      BY DEF IInv, PoolPart, OldInFirstRound
    <3>2. PICK rest \in SUBSET Ids :
             FirstRound(idPool, takes, last, rest) /\ \A i \in rest : ~Old(i)
      BY <3>1
    <3>3. \A i \in rest : ~Old(i)'
      BY <1>8, <3>2
    <3>4. FirstRound(idPool', takes', last, rest)
      BY <1>1, <3>2
    <3> QED
      BY <3>3, <3>4 DEF OldInFirstRound
  <2>2. ASSUME ~strayed
        PROVE  GivenOnce' /\ idPool.tail # c
    <3>1. PICK s \in Seq(Ids) : PoolOrder(idPool, s) /\ \A j \in DOMAIN s : MayGive(s[j], j)
      BY <2>2 DEF IInv, PoolPart, GivenOnce
    <3>2. PoolOrder(idPool', s)
      BY <1>1, <3>1
    <3>3. \A j \in DOMAIN s : s[j] \in Ids /\ s[j] # c
      BY <1>m, <1>a, <1>1, <3>1 DEF MayGive
    <3>4. ASSUME NEW j \in DOMAIN s PROVE MayGive(s[j], j)'
      <4>1. Used(s[j])' => /\ Used(s[j]) /\ file'[s[j]].info = file[s[j]].info
                           /\ fate'[file[s[j]].info] = fate[file[s[j]].info]
        BY <1>4, <1>8, <3>3
      <4> QED
        BY <1>1, <3>1, <4>1 DEF MayGive
    <3>5. idPool.tail # c
      <4>1. s = <<>> => idPool.tail = Invalid
        BY <3>1 DEF PoolOrder
      <4>2. s # <<>> => idPool.tail = s[Len(s)] /\ Len(s) \in DOMAIN s
        BY <3>1 DEF PoolOrder
      <4> QED
        BY <1>2, <3>3, <4>1, <4>2 DEF Ids, CellsOf, Invalid
    <3> QED
      BY <3>2, <3>4, <3>5 DEF GivenOnce
  <2>3. TailUnused'
    BY <1>1, <1>8, <2>2 DEF IInv, PoolPart, TailUnused
  <2>4. GivenOnce'
    BY <1>1, <2>2 DEF GivenOnce
  <2> QED
    BY <2>1, <2>3, <2>4 DEF PoolPart
<1> QED
  BY <1>5, <1>9, <1>10, <1>11, <1>12 DEF IInv

(* A failing second write leaves the bytes and loses the id. *)
LEMMA AppendFailsInv ==
    ASSUME IInv, AppendFails
    PROVE  IInv'
<1>1. /\ pc = "append" /\ pc' = "ready" /\ msg' = None
      /\ persistId' = [persistId EXCEPT ![msg] = Invalid]
      /\ UNCHANGED <<file, idPool, held, queue, offset, loaded, fate, takes, strayed>>
  BY DEF AppendFails
<1>2. msg \in Messages /\ msg \notin InMemory
  BY <1>1 DEF IInv, AppendApart
<1>3. TypeOK'
  BY <1>1 DEF IInv, TypeOK, Links
<1>4. \A x \in InMemory : persistId'[x] = persistId[x]
  BY <1>1, <1>2 DEF IInv, TypeOK, InMemory, Queued
<1>5. FilePart' /\ MemoryPart' /\ PoolPart'
  BY <1>1, <1>4, FileKept, MemoryKept, PoolKept DEF IInv
<1>6. AppendApart' /\ LoadPart'
  BY <1>1 DEF IInv, AppendApart, LoadPart, LoadSoFar, LoadedAll, Idle
<1> QED
  BY <1>3, <1>5, <1>6 DEF IInv

-----------------------------------------------------------------------------
(* Removing a message marks the record of its id unused and puts that id   *)
(* to the tail of the pool.  A record that an earlier session wrote is not *)
(* another's; and the id of a message that is still stored is not the tail *)
(* of the pool, unless the session strayed: the last cell of the first     *)
(* round is the last record, which no load reaches.                        *)
LEMMA RemoveInv ==
    ASSUME IInv, NEW m \in Messages, Remove(m)
    PROVE  IInv'
<1>a. PICK c : c = persistId[m]
  OBVIOUS
<1>b. PICK v : v = file[c].info
  OBVIOUS
<1>1. /\ pc = "ready" /\ m \in held
      /\ file' = [file EXCEPT ![c] = InfoCleared(file[c])]
      /\ idPool' = WithTail(idPool, c)
      /\ strayed' = (strayed \/ v # m)
      /\ fate' = [x \in Messages |->
                     IF x = m THEN "out"
                     ELSE IF v # m /\ x = v /\ fate[x] # "old" THEN "out"
                     ELSE IF v # m /\ fate[x] = "new" THEN "hit"
                     ELSE fate[x]]
      /\ persistId' = [persistId EXCEPT ![m] = Invalid]
      /\ held' = held \ {m} /\ loaded' = "none"
      /\ UNCHANGED <<queue, pc, msg, offset, takes>>
  BY <1>a, <1>b DEF Remove, PutBack
<1>2. /\ file \in [Ids -> Records] /\ fate \in [Messages -> Fates] /\ None \notin Messages
      /\ persistId \in [Messages -> Links(CountLimit)] /\ strayed \in BOOLEAN
      /\ idPool \in StaticLists(CountLimit) /\ takes \in 0..(CountLimit + 1)
  BY PsistAssumption DEF IInv, TypeOK
<1>3. /\ c \in Ids
      /\ IF fate[m] # "out" THEN Used(c) /\ v = m ELSE ~Old(c)
  BY <1>a, <1>b, <1>1 DEF IInv, MemoryPart, HeldKnown, Known
<1>4. /\ file' \in [Ids -> Records]
      /\ \A i \in Ids \ {c} : file'[i] = file[i]
      /\ file'[c].flag = 0 /\ file'[c].info = None
  BY <1>1, <1>2, <1>3 DEF Records, InfoCleared
<1>5. /\ Used(c) => v \in Messages /\ fate[v] # "out"
      /\ ~Used(c) => v = None
  BY <1>b, <1>3 DEF IInv, FilePart, RecordsNamed
<1>6. /\ ~Used(c)' /\ ~Old(c)'
      /\ \A i \in Ids \ {c} : Used(i)' <=> Used(i)
  BY <1>3, <1>4 DEF Used, Old
<1>7. /\ Used(c) => fate'[v] = "out"
      /\ \A x \in Messages : fate'[x] = "out" => fate[x] = "out" \/ (Used(c) /\ x = v)
      /\ \A x \in Messages : fate[x] = "out" => fate'[x] = "out"
      /\ \A x \in Messages : fate'[x] \in {"new", "old"} => fate'[x] = fate[x] /\ x # m
      /\ v # m => \A x \in Messages : fate'[x] # "new"
      /\ v = m => \A x \in Messages \ {m} : fate'[x] = fate[x]
  <2>1. Used(c) => fate'[v] = "out"
    <3>1. Used(c) /\ v # m => fate[v] # "old"
      BY <1>b, <1>3 DEF Old
    <3> QED
      BY <1>1, <1>5, <3>1
  <2>2. ASSUME NEW x \in Messages, fate'[x] = "out"
        PROVE  fate[x] = "out" \/ (Used(c) /\ x = v)
    BY <1>1, <1>2, <1>3, <1>5, <2>2
  <2>3. \A x \in Messages : fate[x] = "out" => fate'[x] = "out"
    BY <1>1
  <2>4. \A x \in Messages : fate'[x] \in {"new", "old"} => fate'[x] = fate[x] /\ x # m
    BY <1>1
  <2>5. v # m => \A x \in Messages : fate'[x] # "new"
    BY <1>1
  <2>6. v = m => \A x \in Messages \ {m} : fate'[x] = fate[x]
    BY <1>1
  <2> QED
    BY <2>1, <2>2, <2>3, <2>4, <2>5, <2>6
<1>8. TypeOK'
  <2>1. fate' \in [Messages -> Fates] /\ persistId' \in [Messages -> Links(CountLimit)]
    BY <1>1, <1>2 DEF Fates, Links
  <2>2. idPool' \in StaticLists(CountLimit)
    BY <1>1, <1>2, <1>3, PsistAssumption, TailTyped DEF Ids
  <2> QED
    BY <1>1, <1>4, <2>1, <2>2 DEF IInv, TypeOK
<1>9. FilePart'
  <2>1. RecordsNamed'
    <3> SUFFICES ASSUME NEW i \in Ids
                 PROVE  IF Used(i)'
                        THEN /\ file'[i].info \in Messages
                             /\ fate'[file'[i].info] # "out"
                             /\ fate'[file'[i].info] \in {"new", "old"} => file'[i].body = file'[i].info
                        ELSE file'[i].info = None
      BY DEF RecordsNamed
    <3>1. CASE i = c
      BY <1>4, <1>6, <3>1
    <3>2. CASE i # c /\ Used(i)
      <4>1. /\ file[i].info \in Messages /\ fate[file[i].info] # "out"
            /\ fate[file[i].info] \in {"new", "old"} => file[i].body = file[i].info
        BY <3>2 DEF IInv, FilePart, RecordsNamed
      <4>2. Used(c) => file[i].info # v
        BY <1>b, <1>3, <3>2 DEF IInv, FilePart, OneRecordEach
      <4>3. fate'[file[i].info] # "out"
        BY <1>7, <4>1, <4>2
      <4> QED
        BY <1>4, <1>6, <1>7, <3>2, <4>1, <4>3
    <3>3. CASE i # c /\ ~Used(i)
      BY <1>4, <1>6, <3>3 DEF IInv, FilePart, RecordsNamed
    <3> QED
      BY <3>1, <3>2, <3>3
  <2>2. OneRecordEach'
    BY <1>4, <1>6 DEF IInv, FilePart, OneRecordEach
  <2>3. EveryStored'
    <3> SUFFICES ASSUME NEW x \in Messages, fate'[x] # "out"
                 PROVE  \E i \in Ids : Used(i)' /\ file'[i].info = x
      BY DEF EveryStored
    <3>1. fate[x] # "out" /\ (Used(c) => x # v)
      BY <1>7
    <3>2. PICK i \in Ids : Used(i) /\ file[i].info = x
      BY <3>1 DEF IInv, FilePart, EveryStored
    <3>3. i # c
      BY <1>b, <3>1, <3>2
    <3> QED
      BY <1>4, <1>6, <3>2, <3>3
  <2>4. NoneNew'
    BY <1>1, <1>7 DEF IInv, FilePart, NoneNew
  <2> QED
    BY <2>1, <2>2, <2>3, <2>4 DEF FilePart
<1>10. \A i \in Ids : Old(i)' => Old(i)
  <2> SUFFICES ASSUME NEW i \in Ids, Old(i)' PROVE Old(i)
    OBVIOUS
  <2>1. i # c
    BY <1>6
  <2>2. Used(i) /\ file'[i] = file[i] /\ file[i].info \in Messages
    BY <1>4, <1>6, <2>1 DEF Old, IInv, FilePart, RecordsNamed
  <2> QED
    BY <1>7, <2>2 DEF Old
<1>11. MemoryPart'
  <2>1. /\ \A x \in held' : x \in held /\ x # m /\ x \in Messages
        /\ \A i \in DOMAIN queue : /\ queue[i] \in Messages /\ queue[i] # m
                                   /\ Known(queue[i]) /\ queue[i] \notin held
        /\ \A x \in InMemory' : x \in InMemory /\ x # m /\ x \in Messages
    BY <1>1 DEF IInv, TypeOK, MemoryPart, QueuedKnown, InMemory, Queued
  <2>2. ASSUME NEW x \in Messages \ {m}, Known(x) PROVE Known(x)'
    <3>1. persistId[x] \in Ids /\ persistId'[x] = persistId[x]
      BY <1>1, <1>2, <2>2 DEF Known
    <3>2. CASE fate'[x] # "out"
      <4>1. fate[x] # "out" /\ (Used(c) => x # v)
        BY <1>7, <3>2
      <4>2. Used(persistId[x]) /\ file[persistId[x]].info = x
        BY <2>2, <4>1 DEF Known
      <4>3. persistId[x] # c
        BY <1>b, <4>1, <4>2
      <4>4. Used(persistId[x])' /\ file'[persistId[x]].info = x
        BY <1>4, <1>6, <3>1, <4>2, <4>3
      <4> QED
        BY <3>1, <3>2, <4>4 DEF Known, Used
    <3>3. CASE fate'[x] = "out"
      <4>1. ~Old(persistId[x])'
        <5>1. CASE fate[x] = "out"
          BY <1>10, <2>2, <3>1, <5>1 DEF Known
        <5>2. CASE fate[x] # "out"
          <6>1. Used(persistId[x]) /\ file[persistId[x]].info = x /\ Used(c) /\ x = v
            BY <1>7, <2>2, <3>3, <5>2 DEF Known
          <6>2. persistId[x] = c
            BY <1>b, <1>3, <3>1, <6>1 DEF IInv, FilePart, OneRecordEach
          <6> QED
            BY <1>6, <3>1, <6>2 DEF Old, Used
        <5> QED
          BY <5>1, <5>2
      <4> QED
        BY <3>1, <3>3, <4>1 DEF Known, Old, Used
    <3> QED
      BY <3>2, <3>3
  <2>3. HeldKnown'
    BY <2>1, <2>2 DEF IInv, MemoryPart, HeldKnown
  <2>4. QueuedKnown'
    BY <1>1, <2>1, <2>2 DEF QueuedKnown
  <2>5. QueueInOrder'
    BY <1>1, <1>2, <2>1 DEF IInv, MemoryPart, QueueInOrder
  <2>6. NotOfLast'
    <3> SUFFICES ASSUME NEW x \in InMemory', ~strayed', fate'[x] \in {"old", "hit"}
                 PROVE  persistId'[x] # CountLimit - 1
      BY DEF NotOfLast
    <3>1. ~strayed /\ v = m /\ x \in InMemory /\ x # m /\ x \in Messages
      BY <1>1, <2>1
    <3>2. fate'[x] = fate[x] /\ persistId'[x] = persistId[x]
      BY <1>1, <1>2, <1>7, <3>1
    <3> QED
      BY <3>1, <3>2 DEF IInv, MemoryPart, NotOfLast
  <2> QED
    BY <2>3, <2>4, <2>5, <2>6 DEF MemoryPart
<1>12. AppendApart' /\ LoadPart'
  BY <1>1 DEF IInv, AppendApart, LoadPart, LoadSoFar, LoadedAll, Idle
<1>13. PoolPart'
  <2>1. PICK last \in Ids : \E rest \in SUBSET Ids :
           FirstRound(idPool, takes, last, rest) /\ \A i \in rest : ~Old(i)
    BY DEF IInv, PoolPart, OldInFirstRound
  <2>2. PICK rest \in SUBSET Ids :
           FirstRound(idPool, takes, last, rest) /\ \A i \in rest : ~Old(i)
    BY <2>1
  <2>3. OldInFirstRound'
    <3>1. PICK end \in Ids : \E tl \in SUBSET (rest \cup {c}) : FirstRound(idPool', takes, end, tl)
      BY <1>1, <1>2, <1>3, <2>2, RoundPut
    <3>2. PICK tl \in SUBSET (rest \cup {c}) : FirstRound(idPool', takes, end, tl)
      BY <3>1
    <3>3. tl \in SUBSET Ids /\ \A i \in tl : ~Old(i)'
      BY <1>3, <1>6, <1>10, <2>2, <3>2
    <3>4. FirstRound(idPool', takes', end, tl)
      BY <1>1, <3>2
    <3> QED
      BY <3>3, <3>4 DEF OldInFirstRound
  <2>4. TailUnused'
    <3>1. idPool.head # Invalid => idPool.tail \in Ids
      BY <2>2 DEF FirstRound
    <3>2. idPool'.tail = c
      BY <1>1, <1>2, <1>3, <3>1, TailLinks
    <3> QED
      BY <1>6, <3>2 DEF TailUnused
  <2>5. ASSUME ~strayed' PROVE GivenOnce'
    <3>1. ~strayed /\ v = m /\ Used(c) /\ fate[m] # "out"
      BY <1>1, <1>2, <1>5, <2>5
    <3>2. PICK s \in Seq(Ids) : PoolOrder(idPool, s) /\ \A j \in DOMAIN s : MayGive(s[j], j)
      BY <3>1 DEF IInv, PoolPart, GivenOnce
    <3>3. c # idPool.tail
      <4> SUFFICES ASSUME c = idPool.tail PROVE FALSE
        OBVIOUS
      <4>1. c # Invalid
        BY <1>3 DEF Ids, CellsOf, Invalid
      <4>2. s # <<>> /\ c = s[Len(s)]
        BY <3>2, <4>1 DEF PoolOrder
      <4>3. MayGive(c, Len(s))
        BY <3>2, <4>2
      <4>4. fate[m] # "new"
        BY <1>b, <3>1, <4>3 DEF MayGive
      <4>5. fate[m] \in {"old", "hit"}
        BY <1>2, <3>1, <4>4 DEF Fates
      <4>6. c = CountLimit - 1
        BY <1>3, <3>1 DEF IInv, PoolPart, TailUnused
      <4> QED
        BY <1>a, <1>1, <3>1, <4>5, <4>6 DEF IInv, MemoryPart, NotOfLast, InMemory
    <3>4. PICK u \in Seq(Ids) :
             /\ PoolOrder(WithTail(idPool, c), u)
             /\ \A j \in DOMAIN u : u[j] = c \/ (j \in DOMAIN s /\ u[j] = s[j])
      BY <1>2, <1>3, <3>2, <3>3, OrderPut
    <3>5. ASSUME NEW j \in DOMAIN u PROVE MayGive(u[j], j)'
      <4>1. CASE u[j] = c
        BY <1>1, <1>6, <4>1 DEF MayGive
      <4>2. CASE u[j] # c
        <5>1. u[j] \in Ids /\ MayGive(u[j], j)
          BY <3>2, <3>4, <4>2
        <5>2. Used(u[j])' => /\ Used(u[j]) /\ file'[u[j]].info = file[u[j]].info
                             /\ file[u[j]].info \in Messages
          BY <1>4, <1>6, <4>2, <5>1 DEF IInv, FilePart, RecordsNamed
        <5> QED
          BY <1>1, <1>7, <5>1, <5>2 DEF MayGive
      <4> QED
        BY <4>1, <4>2
    <3>6. PoolOrder(idPool', u)
      BY <1>1, <3>4
    <3> QED
      BY <3>5, <3>6 DEF GivenOnce
  <2>6. GivenOnce'
    BY <2>5 DEF GivenOnce
  <2> QED
    BY <2>3, <2>4, <2>6 DEF PoolPart
<1> QED
  BY <1>8, <1>9, <1>11, <1>12, <1>13 DEF IInv

-----------------------------------------------------------------------------
(* The steps of a load.  It starts with nothing of the store in memory.    *)
LEMMA LoadStartsInv ==
    ASSUME IInv, LoadStarts
    PROVE  IInv'
<1>1. /\ pc = "ready" /\ queue = <<>> /\ held' = {} /\ pc' = "load"
      /\ loaded' = "none" /\ persistId' = [m \in Messages |-> Invalid]
      /\ UNCHANGED <<file, idPool, queue, msg, offset, fate, takes, strayed>>
  BY DEF LoadStarts
<1>2. offset = 0 /\ DOMAIN queue = {} /\ \A i \in Ids : ~(i < 0)
  BY <1>1, PsistAssumption DEF IInv, LoadPart, Idle, Ids, CellsOf
<1>3. TypeOK'
  BY <1>1 DEF IInv, TypeOK, Links
<1>4. FilePart' /\ PoolPart'
  BY <1>1, FileKept, PoolKept DEF IInv
<1>5. MemoryPart'
  BY <1>1, <1>2 DEF MemoryPart, HeldKnown, QueuedKnown, QueueInOrder, NotOfLast, InMemory, Queued
<1>6. AppendApart' /\ LoadPart'
  BY <1>1, <1>2 DEF AppendApart, LoadPart, LoadSoFar, LoadedAll, Idle, QueuedStored
<1> QED
  BY <1>3, <1>4, <1>5, <1>6 DEF IInv

(* Unused records are passed over ... *)
LEMMA LoadSkipsInv ==
    ASSUME IInv, LoadSkips
    PROVE  IInv'
<1>1. /\ pc = "load" /\ offset # CountLimit - 1 /\ ~Used(offset) /\ offset' = offset + 1
      /\ UNCHANGED <<file, idPool, persistId, held, queue, pc, msg, loaded, fate, takes, strayed>>
  BY DEF LoadSkips, EndOfFetch, Used
<1>2. offset \in Ids /\ offset' \in Ids
  BY <1>1, PsistAssumption DEF IInv, TypeOK, Ids, CellsOf
<1>3. TypeOK'
  BY <1>1, <1>2 DEF IInv, TypeOK
<1>4. FilePart' /\ PoolPart' /\ MemoryPart'
  BY <1>1, FileKept, PoolKept, MemoryKept DEF IInv
<1>5. LoadSoFar'
  <2>1. /\ held = {} /\ QueuedStored
        /\ \A i \in DOMAIN queue : persistId[queue[i]] < offset /\ persistId[queue[i]] \in Ids
        /\ \A i \in Ids : i < offset /\ Used(i) => file[i].info \in Queued
    BY <1>1 DEF IInv, LoadPart, LoadSoFar, MemoryPart, QueuedKnown, Known
  <2>2. \A i \in Ids : i < offset' => i < offset \/ i = offset
    BY <1>1, <1>2 DEF Ids, CellsOf
  <2>3. \A i \in Ids : i < offset => i < offset'
    BY <1>1, <1>2 DEF Ids, CellsOf
  <2>4. Queued' = Queued /\ QueuedStored'
    BY <1>1, <2>1 DEF Queued, QueuedStored
  <2> QED
    BY <1>1, <2>1, <2>2, <2>3, <2>4 DEF LoadSoFar, Used
<1>6. AppendApart' /\ LoadedAll' /\ Idle'
  BY <1>1 DEF IInv, AppendApart, LoadPart, LoadedAll, Idle
<1> QED
  BY <1>3, <1>4, <1>5, <1>6 DEF IInv, LoadPart

(* ... and a used one becomes a message, unless the queue is full.         *)
LEMMA LoadPutsInv ==
    ASSUME IInv, LoadPuts
    PROVE  IInv'
<1>m. PICK m : m = file[offset].info
  OBVIOUS
<1>1. /\ pc = "load" /\ offset # CountLimit - 1 /\ Used(offset) /\ offset \in Ids
      /\ file[offset].info = m
      /\ UNCHANGED <<file, idPool, held, msg, fate, takes, strayed>>
  BY <1>m DEF LoadPuts, EndOfFetch, Used, IInv, TypeOK, Records
<1>2. m \in Messages /\ fate[m] # "out"
  BY <1>1 DEF IInv, FilePart, RecordsNamed
<1>3. /\ held = {} /\ loaded = "none" /\ QueuedStored
      /\ \A i \in DOMAIN queue : persistId[queue[i]] < offset /\ Known(queue[i])
      /\ \A i \in Ids : i < offset /\ Used(i) => file[i].info \in Queued
      /\ queue \in Seq(Messages) /\ persistId \in [Messages -> Links(CountLimit)]
  BY <1>1 DEF IInv, TypeOK, LoadPart, LoadSoFar, Idle, MemoryPart, QueuedKnown
<1>4. FilePart'
  BY <1>1, FileKept DEF IInv
<1>5. CASE /\ queue' = Append(queue, m)
           /\ persistId' = [persistId EXCEPT ![m] = offset]
           /\ offset' = offset + 1
           /\ UNCHANGED <<pc, loaded>>
  <2>1. offset \in Nat /\ offset' \in Ids
    BY <1>1, <1>5, PsistAssumption DEF Ids, CellsOf
  <2>2. TypeOK'
    BY <1>1, <1>2, <1>3, <1>5, <2>1 DEF IInv, TypeOK, Links, Ids
  <2>3. \A i \in DOMAIN queue : queue[i] # m /\ queue[i] \in Messages
    <3>1. ASSUME NEW i \in DOMAIN queue, queue[i] = m PROVE FALSE
      <4>1. /\ persistId[m] < offset /\ persistId[m] \in Ids /\ Used(persistId[m])
            /\ file[persistId[m]].info = m
        BY <1>2, <1>3, <3>1 DEF Known
      <4>2. persistId[m] = offset
        BY <1>1, <4>1 DEF IInv, FilePart, OneRecordEach
      <4> QED
        BY <2>1, <4>1, <4>2
    <3> QED
      BY <1>3, <3>1
  <2>4. /\ DOMAIN queue' = 1..(Len(queue) + 1) /\ DOMAIN queue = 1..Len(queue)
        /\ Len(queue) \in Nat
        /\ \A i \in DOMAIN queue : queue'[i] = queue[i]
        /\ queue'[Len(queue) + 1] = m
    BY <1>2, <1>3, <1>5
  <2>5. /\ \A i \in DOMAIN queue : persistId'[queue'[i]] = persistId[queue[i]]
        /\ persistId'[m] = offset
    BY <1>2, <1>3, <1>5, <2>3, <2>4
  <2>6. ASSUME NEW i \in DOMAIN queue'
        PROVE  i \in DOMAIN queue \/ (i = Len(queue) + 1 /\ queue'[i] = m)
    BY <2>4, <2>6
  <2>7. QueuedKnown'
    <3>1. ASSUME NEW x \in Messages \ {m}, Known(x) PROVE Known(x)'
      <4>1. persistId'[x] = persistId[x]
        BY <1>3, <1>5
      <4> QED
        BY <1>1, <3>1, <4>1 DEF Known, Used, Old
    <3>2. Known(m)'
      BY <1>1, <1>2, <2>5 DEF Known, Used
    <3>3. ASSUME NEW i \in DOMAIN queue', NEW x \in Messages, queue'[i] = x
          PROVE  Known(x)'
      <4>1. CASE i \in DOMAIN queue
        BY <1>3, <2>3, <2>4, <3>1, <3>3, <4>1
      <4>2. CASE queue'[i] = m
        BY <3>2, <3>3, <4>2
      <4> QED
        BY <2>6, <4>1, <4>2
    <3>4. \A i \in DOMAIN queue' : queue'[i] \in Messages /\ queue'[i] \notin held'
      BY <1>1, <1>2, <1>3, <2>3, <2>4, <2>6
    <3> QED
      BY <3>3, <3>4 DEF QueuedKnown, Known, Used, Old
  <2>8. \A i \in DOMAIN queue : persistId[queue[i]] \in Nat
    BY <1>3 DEF Known, Ids, CellsOf
  <2>9. QueueInOrder'
    <3>1. ASSUME NEW i \in DOMAIN queue', NEW j \in DOMAIN queue', i < j
          PROVE  persistId'[queue'[i]] < persistId'[queue'[j]]
      <4>1. i \in DOMAIN queue
        BY <2>4, <3>1
      <4>2. CASE j \in DOMAIN queue
        BY <2>5, <3>1, <4>1, <4>2 DEF IInv, MemoryPart, QueueInOrder
      <4>3. CASE j \notin DOMAIN queue
        BY <1>3, <2>5, <2>6, <4>1, <4>3
      <4> QED
        BY <4>2, <4>3
    <3> QED
      BY <3>1 DEF QueueInOrder
  <2>10. Queued' = Queued \cup {m}
    BY <2>4, <2>6 DEF Queued
  <2>11. MemoryPart'
    <3>1. HeldKnown'
      BY <1>1, <1>3 DEF HeldKnown
    <3>2. NotOfLast'
      <4>1. ASSUME NEW x \in InMemory', ~strayed, fate[x] \in {"old", "hit"}
            PROVE  persistId'[x] # CountLimit - 1
        <5>1. CASE x = m
          BY <1>1, <2>5, <5>1
        <5>2. CASE x # m
          <6>1. x \in Queued /\ x \in InMemory /\ x \in Messages
            BY <1>1, <1>3, <2>3, <2>10, <5>2 DEF InMemory, Queued
          <6>2. persistId'[x] = persistId[x]
            BY <1>3, <1>5, <5>2, <6>1
          <6> QED
            BY <4>1, <6>1, <6>2 DEF IInv, MemoryPart, NotOfLast
        <5> QED
          BY <5>1, <5>2
      <4> QED
        BY <1>1, <4>1 DEF NotOfLast
    <3> QED
      BY <2>7, <2>9, <3>1, <3>2 DEF MemoryPart
  <2>12. LoadSoFar'
    <3>1. \A i \in DOMAIN queue' : persistId'[queue'[i]] < offset'
      BY <1>3, <1>5, <2>1, <2>5, <2>6, <2>8
    <3>2. \A i \in Ids : i < offset' => i < offset \/ i = offset
      BY <1>5, <2>1 DEF Ids, CellsOf
    <3>3. QueuedStored'
      BY <1>1, <1>2, <1>3, <2>4, <2>6 DEF QueuedStored
    <3> QED
      BY <1>1, <1>3, <2>10, <3>1, <3>2, <3>3 DEF LoadSoFar, Used
  <2>13. PoolPart'
    BY <1>1, <1>5, PoolKept DEF IInv
  <2>14. AppendApart' /\ LoadedAll' /\ Idle'
    BY <1>1, <1>3, <1>5 DEF AppendApart, LoadedAll, Idle
  <2> QED
    BY <1>4, <2>2, <2>11, <2>12, <2>13, <2>14 DEF IInv, LoadPart
<1>6. CASE /\ pc' = "ready" /\ offset' = 0 /\ loaded' = "failed"
           /\ UNCHANGED <<queue, persistId>>
  <2>1. TypeOK'
    BY <1>1, <1>6, PsistAssumption DEF IInv, TypeOK, Ids, CellsOf
  <2>2. MemoryPart' /\ PoolPart'
    BY <1>1, <1>6, MemoryKept, PoolKept DEF IInv
  <2>3. AppendApart' /\ LoadPart'
    BY <1>6 DEF AppendApart, LoadPart, LoadSoFar, LoadedAll, Idle
  <2> QED
    BY <1>4, <2>1, <2>2, <2>3 DEF IInv
<1> QED
  BY <1>m, <1>5, <1>6 DEF LoadPuts, FetchedId

(* At the end every record but the last was passed. *)
LEMMA LoadEndsInv ==
    ASSUME IInv, LoadEnds
    PROVE  IInv'
<1>1. /\ pc = "load" /\ offset = CountLimit - 1 /\ pc' = "ready" /\ offset' = 0
      /\ loaded' = "completed"
      /\ UNCHANGED <<file, idPool, persistId, held, queue, msg, fate, takes, strayed>>
  BY DEF LoadEnds, EndOfFetch
<1>2. TypeOK'
  BY <1>1, PsistAssumption DEF IInv, TypeOK, Ids, CellsOf
<1>3. FilePart' /\ MemoryPart' /\ PoolPart'
  BY <1>1, FileKept, MemoryKept, PoolKept DEF IInv
<1>4. LoadedAll'
  <2>1. \A i \in Ids : i # CountLimit - 1 => i < offset
    BY <1>1, PsistAssumption DEF Ids, CellsOf
  <2> QED
    BY <1>1, <2>1 DEF IInv, LoadPart, LoadSoFar, LoadedAll, QueuedStored, Queued, Used
<1>5. AppendApart' /\ LoadSoFar' /\ Idle'
  BY <1>1 DEF AppendApart, LoadSoFar, Idle
<1> QED
  BY <1>2, <1>3, <1>4, <1>5 DEF IInv, LoadPart

(* A loaded message that is gotten takes its id with it. *)
LEMMA GetsLoadedInv ==
    ASSUME IInv, GetsLoaded
    PROVE  IInv'
<1>m. PICK m : m = Head(queue)
  OBVIOUS
<1>1. /\ pc = "ready" /\ queue # <<>>
      /\ held' = held \cup {m} /\ queue' = Tail(queue) /\ loaded' = "none"
      /\ UNCHANGED <<file, idPool, persistId, pc, msg, offset, fate, takes, strayed>>
  BY <1>m DEF GetsLoaded
<1>2. /\ queue \in Seq(Messages) /\ m \in Messages /\ m = queue[1]
      /\ DOMAIN queue = 1..Len(queue) /\ Len(queue) \in Nat \ {0}
      /\ queue' \in Seq(Messages) /\ DOMAIN queue' = 1..(Len(queue) - 1)
      /\ \A i \in DOMAIN queue' : queue'[i] = queue[i + 1]
  BY <1>m, <1>1 DEF IInv, TypeOK
<1>3. \A i \in DOMAIN queue' : i + 1 \in DOMAIN queue /\ 1 \in DOMAIN queue /\ 1 < i + 1
  BY <1>2
<1>4. TypeOK'
  BY <1>1, <1>2 DEF IInv, TypeOK
<1>5. FilePart' /\ PoolPart'
  BY <1>1, FileKept, PoolKept DEF IInv
<1>6. \A x \in Messages : Known(x) => Known(x)'
  BY <1>1 DEF Known, Used, Old
<1>7. HeldKnown'
  <2>1. Known(m)
    BY <1>2 DEF IInv, MemoryPart, QueuedKnown
  <2>2. \A x \in held' : x \in Messages /\ Known(x)
    BY <1>1, <1>2, <2>1 DEF IInv, TypeOK, MemoryPart, HeldKnown
  <2> QED
    BY <1>6, <2>2 DEF HeldKnown
<1>8. QueuedKnown'
  <2>1. ASSUME NEW i \in DOMAIN queue'
        PROVE  Known(queue[i + 1]) /\ queue[i + 1] \notin held /\ queue[i + 1] # m
    <3>1. Known(queue[i + 1]) /\ queue[i + 1] \notin held
      BY <1>3 DEF IInv, MemoryPart, QueuedKnown
    <3>2. persistId[queue[1]] < persistId[queue[i + 1]]
      BY <1>3 DEF IInv, MemoryPart, QueueInOrder
    <3>3. persistId[queue[1]] \in Int
      BY <1>3 DEF IInv, MemoryPart, QueuedKnown, Known, Ids, CellsOf
    <3> QED
      BY <1>2, <3>1, <3>2, <3>3
  <2>2. ASSUME NEW i \in DOMAIN queue', NEW x \in Messages, queue'[i] = x
        PROVE  Known(x)' /\ x \notin held'
    <3>1. queue[i + 1] = x
      BY <1>2, <2>2
    <3> QED
      BY <1>1, <1>6, <2>1, <3>1
  <2>3. \A i \in DOMAIN queue' : queue'[i] \in Messages
    BY <1>2
  <2> QED
    BY <2>2, <2>3 DEF QueuedKnown, Known, Used, Old
<1>9. QueueInOrder'
  <2>1. \A i, j \in DOMAIN queue' : i < j => i + 1 < j + 1
    BY <1>2
  <2> QED
    BY <1>1, <1>2, <1>3, <2>1 DEF IInv, MemoryPart, QueueInOrder
<1>10. NotOfLast'
  <2>1. \A x \in InMemory' : x \in InMemory
    BY <1>1, <1>2, <1>3 DEF InMemory, Queued
  <2> QED
    BY <1>1, <2>1 DEF IInv, MemoryPart, NotOfLast
<1>11. AppendApart' /\ LoadPart'
  BY <1>1 DEF IInv, AppendApart, LoadPart, LoadSoFar, LoadedAll, Idle
<1> QED
  BY <1>4, <1>5, <1>7, <1>8, <1>9, <1>10, <1>11 DEF IInv, MemoryPart

-----------------------------------------------------------------------------
(* Dying leaves the file as it is: a record whose info is not yet written  *)
(* is still unused, or the older message's that was hit already.           *)
LEMMA DiesInv ==
    ASSUME IInv, Dies
    PROVE  IInv'
<1>1. /\ pc' = "closed" /\ persistId' = [m \in Messages |-> Invalid]
      /\ held' = {} /\ queue' = <<>> /\ msg' = None /\ offset' = 0 /\ loaded' = "none"
      /\ UNCHANGED <<file, idPool, fate, takes, strayed>>
  BY DEF Dies
<1>2. TypeOK'
  BY <1>1, PsistAssumption DEF IInv, TypeOK, Links, Ids, CellsOf
<1>3. FilePart' /\ PoolPart'
  BY <1>1, FileKept, PoolKept DEF IInv
<1>4. MemoryPart'
  BY <1>1 DEF MemoryPart, HeldKnown, QueuedKnown, QueueInOrder, NotOfLast, InMemory, Queued
<1>5. AppendApart' /\ LoadPart'
  BY <1>1 DEF AppendApart, LoadPart, LoadSoFar, LoadedAll, Idle
<1> QED
  BY <1>2, <1>3, <1>4, <1>5 DEF IInv

(* Opening the file again makes a pool of all the ids, the first round of  *)
(* which has yet to come to every used record; what earlier sessions stored*)
(* is old now.                                                             *)
LEMMA ReopensInv ==
    ASSUME IInv, Reopens
    PROVE  IInv'
<1>1. /\ pc = "closed" /\ pc' = "ready" /\ idPool' = FullList(CountLimit)
      /\ fate' = [m \in Messages |-> IF fate[m] = "new" THEN "old" ELSE fate[m]]
      /\ takes' = 0 /\ strayed' = FALSE
      /\ UNCHANGED <<file, persistId, held, queue, msg, offset, loaded>>
  BY DEF Reopens
<1>2. /\ CountLimit \in Nat \ {0} /\ Ids = 0..(CountLimit - 1)
      /\ held = {} /\ queue = <<>> /\ offset = 0 /\ loaded = "none"
      /\ fate \in [Messages -> Fates]
  BY <1>1, PsistAssumption DEF IInv, TypeOK, LoadPart, Idle, Ids, CellsOf
<1>3. \A x \in Messages : /\ fate'[x] = "out" <=> fate[x] = "out"
                          /\ fate'[x] # "new" /\ fate'[x] \in Fates
                          /\ fate'[x] = "old" => fate[x] \in {"new", "old"}
  BY <1>1, <1>2 DEF Fates
<1>4. TypeOK'
  <2>1. fate' \in [Messages -> Fates]
    BY <1>1, <1>2 DEF Fates
  <2>2. idPool' \in StaticLists(CountLimit)
    BY <1>1, FullPool
  <2>3. offset' \in Ids /\ takes' \in 0..(CountLimit + 1)
    BY <1>1, <1>2
  <2> QED
    BY <1>1, <2>1, <2>2, <2>3 DEF IInv, TypeOK
<1>5. \A i \in Ids : Used(i) => file[i].info \in Messages
  BY DEF IInv, FilePart, RecordsNamed
<1>6. FilePart'
  BY <1>1, <1>3, <1>5 DEF IInv, FilePart, RecordsNamed, OneRecordEach, EveryStored, NoneNew, Used
<1>7. MemoryPart'
  BY <1>1, <1>2 DEF MemoryPart, HeldKnown, QueuedKnown, QueueInOrder, NotOfLast, InMemory, Queued
<1>8. AppendApart' /\ LoadPart'
  BY <1>1, <1>2 DEF AppendApart, LoadPart, LoadSoFar, LoadedAll, Idle
<1>9. PoolPart'
  <2>1. OldInFirstRound'
    <3>1. FirstRound(idPool', takes', CountLimit - 1, {}) /\ CountLimit - 1 \in Ids
      BY <1>1, <1>2, FullPool
    <3> QED
      BY <3>1 DEF OldInFirstRound
  <2>2. GivenOnce'
    <3> DEFINE s == [j \in 1..CountLimit |-> j - 1]
    <3>1. s \in Seq(Ids) /\ PoolOrder(idPool', s) /\ DOMAIN s = 1..CountLimit
      BY <1>1, FullPool
    <3>2. \A j \in DOMAIN s : s[j] \in Ids /\ s[j] = takes' + j - 1
      BY <1>1, <1>2, <3>1
    <3> HIDE DEF s
    <3>3. \A j \in DOMAIN s : MayGive(s[j], j)'
      BY <1>1, <1>3, <1>5, <3>2 DEF MayGive, Used
    <3> QED
      BY <3>1, <3>3 DEF GivenOnce
  <2>3. TailUnused'
    BY <1>1 DEF TailUnused, FullList
  <2> QED
    BY <2>1, <2>2, <2>3 DEF PoolPart
<1> QED
  BY <1>4, <1>6, <1>7, <1>8, <1>9 DEF IInv

-----------------------------------------------------------------------------
(* No step breaks the invariant. *)
LEMMA NextInv == IInv /\ [Next]_vars => IInv'
<1> SUFFICES ASSUME IInv, [Next]_vars PROVE IInv'
  OBVIOUS
<1>1. ASSUME NEW m \in Messages, AppendWritesBody(m) \/ AppendFailsAtOnce(m) \/ Remove(m)
      PROVE  IInv'
  BY <1>1, AppendWritesBodyInv, AppendFailsAtOnceInv, RemoveInv
<1>2. CASE AppendWritesInfo \/ AppendFails
  BY <1>2, AppendWritesInfoInv, AppendFailsInv
<1>3. CASE LoadStarts \/ LoadSkips \/ LoadPuts \/ LoadEnds \/ GetsLoaded
  BY <1>3, LoadStartsInv, LoadSkipsInv, LoadPutsInv, LoadEndsInv, GetsLoadedInv
<1>4. CASE Dies \/ Reopens
  BY <1>4, DiesInv, ReopensInv
<1>5. CASE UNCHANGED vars
  <2>1. /\ UNCHANGED <<file, idPool, persistId, held, queue, pc, msg, offset>>
        /\ UNCHANGED <<loaded, fate, takes, strayed>>
    BY <1>5 DEF vars, memory
  <2>2. TypeOK' /\ FilePart' /\ MemoryPart'
    BY <2>1, FileKept, MemoryKept DEF IInv, TypeOK
  <2>3. AppendApart' /\ LoadPart'
    BY <2>1 DEF IInv, AppendApart, InMemory, Queued, Used, LoadPart, LoadSoFar, LoadedAll, Idle,
                QueuedStored
  <2>4. OldInFirstRound' /\ TailUnused'
    BY <2>1 DEF IInv, PoolPart, OldInFirstRound, TailUnused, Old, Used
  <2>5. GivenOnce'
    <3>1. \A i, place : MayGive(i, place) <=> MayGive(i, place)'
      BY <2>1 DEF MayGive, Used
    <3> QED
      BY <2>1, <3>1 DEF IInv, PoolPart, GivenOnce
  <2> QED
    BY <2>2, <2>3, <2>4, <2>5 DEF IInv, PoolPart
<1> QED
  BY <1>1, <1>2, <1>3, <1>4, <1>5 DEF Next

(* Every reachable state satisfies the inductive invariant. *)
THEOREM Invariant == Spec => []IInv
BY InitInv, NextInv, PTL DEF Spec

(* A message in the file has one record in use, one that is out has none.  *)
LEMMA StoredRecords ==
    ASSUME IInv, NEW m \in Messages
    PROVE  /\ fate[m] # "out" => \E i \in Ids : RecordsOf(m) = {i}
           /\ fate[m] = "out" => RecordsOf(m) = {}
           /\ fate[m] \in {"new", "old"} => \A i \in RecordsOf(m) : file[i].body = m
<1>1. ASSUME fate[m] # "out" PROVE \E i \in Ids : RecordsOf(m) = {i}
  <2>1. PICK i \in Ids : Used(i) /\ file[i].info = m
    BY <1>1 DEF IInv, FilePart, EveryStored
  <2>2. RecordsOf(m) = {i}
    BY <2>1 DEF IInv, FilePart, OneRecordEach, RecordsOf, Used
  <2> QED
    BY <2>2
<1>2. ASSUME fate[m] = "out" PROVE RecordsOf(m) = {}
  BY <1>2 DEF IInv, FilePart, RecordsNamed, RecordsOf, Used
<1>3. fate[m] \in {"new", "old"} => \A i \in RecordsOf(m) : file[i].body = m
  BY DEF IInv, FilePart, RecordsNamed, RecordsOf, Used
<1> QED
  BY <1>1, <1>2, <1>3

(* Whenever the process dies (between the two writes of qc_psist_append    *)
(* too), the file holds every message whose append succeeded, once and     *)
(* whole, until it is removed; appends after a reopening hit messages of   *)
(* earlier sessions in the records of their own numbers only, and sessions *)
(* that removed by a stale id lose no other session's messages.            *)
THEOREM StoredInFile == Spec => []StoredDurably
<1>1. IInv => StoredDurably
  <2> SUFFICES ASSUME IInv, NEW m \in Messages
               PROVE  /\ Cardinality(RecordsOf(m)) = IF fate[m] = "out" THEN 0 ELSE 1
                      /\ fate[m] \in {"new", "old"} => \A i \in RecordsOf(m) : file[i].body = m
    BY DEF StoredDurably
  <2>1. CASE fate[m] # "out"
    BY <2>1, StoredRecords, FS_Singleton
  <2>2. CASE fate[m] = "out"
    BY <2>2, StoredRecords, FS_EmptySet
  <2> QED
    BY <2>1, <2>2
<1> QED
  BY <1>1, Invariant, PTL

(* The persist_id of a message in memory is that of its record, or else    *)
(* not that of an earlier session's message; the pool gives out every id   *)
(* once, none of a message of the same session, and those of other used    *)
(* records in its first round only.                                        *)
THEOREM IdsAreTrue == Spec => []IdsTrue
<1>1. IInv => IdsTrue
  <2> SUFFICES ASSUME IInv PROVE IdsTrue
    OBVIOUS
  <2>1. ASSUME NEW m \in InMemory
        PROVE  IF fate[m] # "out"
               THEN persistId[m] \in RecordsOf(m)
               ELSE /\ persistId[m] \in Ids
                    /\ \A x \in Messages : persistId[m] \in RecordsOf(x) => fate[x] # "old"
    <3>1. Known(m)
      BY DEF IInv, MemoryPart, HeldKnown, QueuedKnown, InMemory, Queued
    <3> QED
      BY <3>1 DEF Known, RecordsOf, Used, Old
  <2>2. ASSUME ~strayed
        PROVE  \E n \in 0..CountLimit : \E s \in [1..n -> Ids] :
                  /\ PoolOrder(idPool, s)
                  /\ \A j \in 1..n :
                        /\ file[s[j]].flag = 1 => s[j] = takes + j - 1
                                                  /\ fate[file[s[j]].info] # "new"
                        /\ pc = "append" => persistId[msg] # s[j]
    <3>1. PICK s \in Seq(Ids) : PoolOrder(idPool, s) /\ \A j \in DOMAIN s : MayGive(s[j], j)
      BY <2>2 DEF IInv, PoolPart, GivenOnce
    <3>2. Len(s) \in 0..CountLimit /\ s \in [1..Len(s) -> Ids] /\ DOMAIN s = 1..Len(s)
      BY <3>1, AtMostAllIds
    <3>3. \A j \in 1..Len(s) :
             /\ file[s[j]].flag = 1 => s[j] = takes + j - 1 /\ fate[file[s[j]].info] # "new"
             /\ pc = "append" => persistId[msg] # s[j]
      BY <3>1, <3>2 DEF MayGive, Used
    <3>4. PICK n : n = Len(s)
      OBVIOUS
    <3>5. n \in 0..CountLimit /\ s \in [1..n -> Ids]
      BY <3>2, <3>4
    <3>6. \A j \in 1..n :
             /\ file[s[j]].flag = 1 => s[j] = takes + j - 1 /\ fate[file[s[j]].info] # "new"
             /\ pc = "append" => persistId[msg] # s[j]
      BY <3>3, <3>4
    <3>7. PoolOrder(idPool, s)
      BY <3>1
    <3>8. \E t \in [1..n -> Ids] :
             /\ PoolOrder(idPool, t)
             /\ \A j \in 1..n :
                   /\ file[t[j]].flag = 1 => t[j] = takes + j - 1 /\ fate[file[t[j]].info] # "new"
                   /\ pc = "append" => persistId[msg] # t[j]
      <4>1. s \in [1..n -> Ids]
        BY <3>5
      <4> WITNESS s \in [1..n -> Ids]
      <4> QED
        BY ONLY <3>6, <3>7
    <3> QED
      BY <3>5, <3>8
  <2> QED
    BY <2>1, <2>2 DEF IInv, IdsTrue
<1> QED
  BY <1>1, Invariant, PTL

(* A load that reports success has queued every message in the file but    *)
(* perhaps that of the highest id, each once, in the order of the ids,     *)
(* whatever earlier sessions stored, lost or wrote over.                   *)
THEOREM LoadMissesNoOther == Spec => []LoadMissesLastOnly
<1>1. IInv => LoadMissesLastOnly
  <2> SUFFICES ASSUME IInv, loaded = "completed"
               PROVE  /\ \A m \in Messages : fate[m] # "out"
                            => RecordsOf(m) = {CountLimit - 1} \/ m \in Queued
                      /\ \A m \in Queued : fate[m] # "out"
                      /\ \A i, j \in DOMAIN queue : i < j => persistId[queue[i]] < persistId[queue[j]]
    BY DEF LoadMissesLastOnly
  <2>1. ASSUME NEW m \in Messages, fate[m] # "out", RecordsOf(m) # {CountLimit - 1}
        PROVE  m \in Queued
    <3>1. PICK i \in Ids : RecordsOf(m) = {i}
      BY <2>1, StoredRecords
    <3>2. Used(i) /\ file[i].info = m /\ i # CountLimit - 1
      BY <2>1, <3>1 DEF RecordsOf, Used
    <3> QED
      BY <3>2 DEF IInv, LoadPart, LoadedAll
  <2>2. \A m \in Queued : fate[m] # "out"
    BY DEF IInv, LoadPart, LoadedAll, QueuedStored, Queued
  <2> QED
    BY <2>1, <2>2 DEF IInv, MemoryPart, QueueInOrder
<1> QED
  BY <1>1, Invariant, PTL

(* Take number n of a session overwrites nothing but record n, and never a *)
(* message of the same session: after a reopening, whatever ids were taken,*)
(* put back or lost, qc_psist_append goes over the used records once, in   *)
(* ascending order.                                                        *)
THEOREM OverwritesAreInOrder == Spec => OverwritesInOrder
<1> DEFINE InOrder == \A i \in Ids :
       file[i].flag = 1 /\ file'[i] # file[i] /\ file'[i].flag = 1
           => /\ fate[file[i].info] # "new"
              /\ i = takes' - 1 \/ (strayed /\ fate[file[i].info] = "hit")
<1>1. IInv /\ [Next]_vars => [InOrder]_vars
  <2> SUFFICES ASSUME IInv, [Next]_vars, NEW i \in Ids,
                      file[i].flag = 1, file'[i] # file[i], file'[i].flag = 1
               PROVE  /\ fate[file[i].info] # "new"
                      /\ i = takes' - 1 \/ (strayed /\ fate[file[i].info] = "hit")
    OBVIOUS
  <2>1. file \in [Ids -> Records]
    BY DEF IInv, TypeOK
  <2>2. ASSUME NEW m \in Messages, AppendWritesBody(m)
        PROVE  /\ fate[file[i].info] # "new"
               /\ i = takes' - 1 \/ (strayed /\ fate[file[i].info] = "hit")
    <3>1. TakesId(m) /\ file' = [file EXCEPT ![idPool.head] = BodyWritten(@, m)]
      BY <2>2 DEF AppendWritesBody
    <3>2. i = idPool.head /\ Used(i)
      BY <2>1, <3>1 DEF Used
    <3>3. \/ fate[file[i].info] = "hit" /\ strayed
          \/ i = takes /\ takes' = takes + 1 /\ fate[file[i].info] \in {"old", "hit"}
      BY <3>1, <3>2, IdTaken
    <3>4. takes \in Int
      BY DEF IInv, TypeOK
    <3> QED
      BY <3>3, <3>4
  <2>3. ASSUME AppendWritesInfo
        PROVE  /\ fate[file[i].info] # "new"
               /\ i = takes' - 1 \/ (strayed /\ fate[file[i].info] = "hit")
    <3>1. /\ pc = "append" /\ takes' = takes
          /\ file' = [file EXCEPT ![persistId[msg]] = InfoWritten(@, msg)]
      BY <2>3 DEF AppendWritesInfo
    <3>2. i = persistId[msg] /\ Used(i)
      BY <2>1, <3>1 DEF Used
    <3> QED
      BY <3>1, <3>2 DEF IInv, AppendApart
  <2>4. ASSUME NEW m \in Messages, Remove(m) PROVE FALSE
    <3>1. file' = [file EXCEPT ![persistId[m]] = InfoCleared(@)]
      BY <2>4 DEF Remove
    <3> QED
      BY <2>1, <3>1 DEF InfoCleared, Records
  <2>5. ASSUME NEW m \in Messages, AppendFailsAtOnce(m) PROVE FALSE
    BY <2>5 DEF AppendFailsAtOnce
  <2>6. CASE \/ AppendFails \/ LoadStarts \/ LoadSkips \/ LoadPuts \/ LoadEnds
             \/ GetsLoaded \/ Dies \/ Reopens \/ UNCHANGED vars
    BY <2>6 DEF AppendFails, LoadStarts, LoadSkips, LoadPuts, LoadEnds, GetsLoaded, Dies,
                Reopens, vars
  <2> QED
    BY <2>2, <2>3, <2>4, <2>5, <2>6 DEF Next
<1> QED
  BY <1>1, Invariant, PTL DEF Spec, OverwritesInOrder
=============================================================================
