---------------------------- MODULE QcQueueProofs ----------------------------
(***************************************************************************)
(* Proofs about QcQueue, for any threads, messages, limit and number of    *)
(* priorities, with every kind of wait and with spurious wakeups.          *)
(*                                                                         *)
(* The invariants of the runs are not inductive.  IInv adds what the code  *)
(* relies on implicitly: where quelock is held, what a thread holds at each*)
(* point of its call, and that a putter object carries a message as long as*)
(* anybody can reach it -- which rests on the reference counts.            *)
(***************************************************************************)
EXTENDS QcQueue, ListProofs, FiniteSetTheorems, Functions

(* The points of a call at which a thread works on a waiter object. *)
WaiterLocations ==
    {"lock_getter", "hand_over", "drop_getter", "skip_getter",
     "put_sleep", "put_wait", "put_expired",
     "get_sleep", "get_wait", "get_expired",
     "lock_putter", "skip_putter", "drop_putter"}

(* ... and that waiter is a QcPutter. *)
PutterLocations == {"put_sleep", "put_wait", "put_expired",
                    "lock_putter", "skip_putter", "drop_putter"}

LockedLocations == RefillLocations \cup {"lock_getter"}

Locations == {"idle"} \cup PutLocations \cup GetLocations

Control ==
    /\ \A t \in Threads : pc[t] \in LockedLocations <=> quelock = t
    /\ \A t \in Threads : pc[t] \in PutLocations \cup RefillLocations => msg[t] \in Messages
    /\ \A t \in Threads : IF pc[t] \in WaiterLocations THEN obj[t] \in Waiters
                                                      ELSE obj[t] = None

PuttersCarryMessages ==
    /\ \A t \in Threads : pc[t] \in PutterLocations => waiter[obj[t]].message \in Messages
    /\ \A w \in Members(putters) : waiter[w].ref > 0 => waiter[w].message \in Messages

(* A get that has to refill the chain finds exactly one place free when a  *)
(* putter is waiting, and none once it has admitted one.                   *)
RefillAdmitsOne == \A t \in Threads :
    /\ pc[t] \in {"lock_putter", "skip_putter"} => chain.count = Limit - 1
    /\ pc[t] = "refill" /\ putters.count > 0 => chain.count = Limit - 1
    /\ pc[t] = "drop_putter" => chain.count = Limit

(* msg_count and putter_count are the lengths of the lists they count. *)
CountersTrue == Counted(chain) /\ Counted(putters)

IInv == /\ TypeOK /\ Control /\ CountersTrue
        /\ ReferencesCounted /\ PuttersCarryMessages
        /\ LimitKept /\ RefillAdmitsOne /\ PuttersWaitOnFull

-----------------------------------------------------------------------------
(* References and their holders. *)

Holders(f, w) == {t \in Threads : f[t] = w}

(* Letting go of a pointer makes one holder less of its waiter and of none *)
(* other.                                                                  *)
LEMMA HolderRemoved ==
    ASSUME NEW f \in [Threads -> Waiters \cup {None}], NEW t \in Threads,
           f[t] \in Waiters, NEW v \in Waiters
    PROVE  Cardinality(Holders([f EXCEPT ![t] = None], v))
              = Cardinality(Holders(f, v)) - (IF v = f[t] THEN 1 ELSE 0)
<1> DEFINE g == [f EXCEPT ![t] = None]
<1>1. IsFiniteSet(Threads) /\ None \notin Waiters
  BY QcQueueAssumption
<1>2. IsFiniteSet(Holders(f, v))
  BY <1>1, FS_Subset DEF Holders
<1>3. CASE v = f[t]
  <2>1. Holders(g, v) = Holders(f, v) \ {t} /\ t \in Holders(f, v)
    BY <1>1, <1>3 DEF Holders
  <2> QED
    BY <1>2, <1>3, <2>1, FS_RemoveElement
<1>4. CASE v # f[t]
  <2>1. Holders(g, v) = Holders(f, v)
    BY <1>1, <1>4 DEF Holders
  <2>2. Cardinality(Holders(f, v)) \in Nat
    BY <1>2, FS_CardinalityType
  <2> QED
    BY <1>4, <2>1, <2>2
<1> QED
  BY <1>3, <1>4

(* A waiter somebody points to has not been freed. *)
LEMMA HeldIsAlive ==
    ASSUME TypeOK, ReferencesCounted, NEW t \in Threads, obj[t] \in Waiters
    PROVE  waiter[obj[t]].ref \in Nat \ {0}
<1>1. IsFiniteSet(Threads)
  BY QcQueueAssumption
<1>2. IsFiniteSet(Holders(obj, obj[t])) /\ t \in Holders(obj, obj[t])
  BY <1>1, FS_Subset DEF Holders
<1>3. Cardinality(Holders(obj, obj[t])) \in Nat \ {0}
  BY <1>2, FS_CardinalityType, FS_EmptySet
<1> QED
  BY <1>3 DEF ReferencesCounted, Holders

-----------------------------------------------------------------------------
(* What the operations on waiter objects do to one object. *)

(* A freed object is an object nobody refers to. *)
LEMMA FreedTyped == Freed \in WaiterObjects /\ Freed.ref = 0
BY DEF Freed, WaiterObjects, WaitKinds, Conds

(* A created object has one reference, its creator's, and carries m. *)
LEMMA CreatedTyped ==
    ASSUME NEW t \in Threads, NEW kind \in Waits, NEW m \in Messages \cup {None}
    PROVE  /\ Created(t, kind, m) \in WaiterObjects
           /\ Created(t, kind, m).ref = 1
           /\ Created(t, kind, m).message = m
BY QcQueueAssumption DEF Created, Freed, WaiterObjects, Conds

(* An object o' that differs from o in its lock and wait only. *)
SameHold(o, n) == n \in WaiterObjects /\ n.ref = o.ref /\ n.message = o.message

(* Releasing a condlock touches neither references nor message. *)
LEMMA UnlockedTyped ==
    ASSUME NEW o \in WaiterObjects
    PROVE  SameHold(o, Unlocked(o))
BY DEF SameHold, Unlocked, WaiterObjects

(* Nor does waking the owner, *)
LEMMA PromptedTyped ==
    ASSUME NEW o \in WaiterObjects
    PROVE  SameHold(o, Prompted(o))
BY DEF SameHold, Prompted, WaiterObjects, Conds

(* nor the two together, *)
LEMMA SignalledTyped ==
    ASSUME NEW o \in WaiterObjects
    PROVE  SameHold(o, Signalled(o))
<1>1. SameHold(o, Prompted(o)) /\ SameHold(Prompted(o), Unlocked(Prompted(o)))
  BY PromptedTyped, UnlockedTyped DEF SameHold
<1> QED
  BY <1>1 DEF SameHold, Signalled

(* nor starting to wait. *)
LEMMA AsleepTyped ==
    ASSUME NEW o \in WaiterObjects
    PROVE  SameHold(o, Asleep(o))
<1> DEFINE n == [o EXCEPT !.cond = "waiting"]
<1>1. SameHold(o, n)
  BY DEF SameHold, WaiterObjects, Conds
<1>2. SameHold(n, Unlocked(n))
  BY <1>1, UnlockedTyped DEF SameHold
<1> QED
  BY <1>1, <1>2 DEF SameHold, Asleep

(* Dropping a reference leaves one less; until the last the message stays. *)
LEMMA DroppedTyped ==
    ASSUME NEW o \in WaiterObjects, o.ref \in Nat \ {0}
    PROVE  /\ Dropped(o) \in WaiterObjects
           /\ Dropped(o).ref = o.ref - 1
           /\ Dropped(o).ref > 0 => Dropped(o).message = o.message
<1>1. CASE o.ref = 1
  BY <1>1, FreedTyped DEF Dropped
<1>2. CASE o.ref # 1
  BY <1>2 DEF Dropped, WaiterObjects
<1> QED
  BY <1>1, <1>2

-----------------------------------------------------------------------------
(* What a step of thread t does to the waiter objects and to its pointer:  *)
(* nothing to the references, one more taken by t, or the one of t dropped.*)

RefsChange(w, by) ==
    \A v \in Waiters :
       /\ waiter'[v].ref = waiter[v].ref + (IF v = w THEN by ELSE 0)
       /\ waiter[v].ref > 0 /\ waiter'[v].ref > 0 => waiter'[v].message = waiter[v].message

Holds(t)  == obj' = obj /\ RefsChange(None, 0)
Takes(t)  == \E w \in Waiters : /\ waiter[w].ref > 0 \/ w \notin Listed
                                /\ obj[t] = None
                                /\ obj' = [obj EXCEPT ![t] = w]
                                /\ RefsChange(w, 1)
LetsGo(t) == /\ obj[t] \in Waiters
             /\ obj' = [obj EXCEPT ![t] = None]
             /\ RefsChange(obj[t], -1)

WaiterMoves(t) == /\ waiter' \in [Waiters -> WaiterObjects]
                  /\ Holds(t) \/ Takes(t) \/ LetsGo(t)

(* A step that touches no waiter object and no pointer. *)
LEMMA NothingMoves ==
    ASSUME TypeOK, NEW t \in Threads, waiter' = waiter, obj' = obj
    PROVE  WaiterMoves(t)
BY QcQueueAssumption DEF TypeOK, WaiterMoves, Holds, RefsChange, WaiterObjects

(* A step that changes the lock or the wait of one object. *)
LEMMA ObjectMoves ==
    ASSUME TypeOK, NEW t \in Threads, NEW w \in Waiters, NEW o,
           SameHold(waiter[w], o), waiter' = [waiter EXCEPT ![w] = o], obj' = obj
    PROVE  WaiterMoves(t)
BY QcQueueAssumption DEF TypeOK, WaiterMoves, Holds, RefsChange, SameHold, WaiterObjects

(* An object with its reference count raised. *)
LEMMA HeldTyped ==
    ASSUME NEW o \in WaiterObjects, NEW n, n = [o EXCEPT !.ref = @ + 1]
    PROVE  /\ n \in WaiterObjects
           /\ n.ref = o.ref + 1
           /\ n.message = o.message
BY DEF WaiterObjects

(* Popping a live waiter takes a reference to it. *)
LEMMA ReferenceMoves ==
    ASSUME TypeOK, NEW t \in Threads, NEW w \in Waiters, obj[t] = None,
           waiter[w].ref > 0, waiter' = Referenced(w), obj' = [obj EXCEPT ![t] = w]
    PROVE  WaiterMoves(t)
<1> DEFINE o == [waiter[w] EXCEPT !.ref = @ + 1]
<1>1. waiter[w] \in WaiterObjects
  BY DEF TypeOK
<1>2. waiter' = [waiter EXCEPT ![w] = o]
  BY DEF Referenced
<1>3. /\ o \in WaiterObjects
      /\ o.ref = waiter[w].ref + 1
      /\ o.message = waiter[w].message
  BY <1>1, HeldTyped
<1> HIDE DEF o
<1>4. waiter' \in [Waiters -> WaiterObjects] /\ RefsChange(w, 1)
  BY <1>2, <1>3 DEF TypeOK, RefsChange, WaiterObjects
<1> QED
  BY <1>4 DEF WaiterMoves, Takes

(* Creating a waiter takes the first reference to it. *)
LEMMA CreationMoves ==
    ASSUME TypeOK, NEW t \in Threads, NEW w \in Available, NEW kind \in Waits,
           NEW m \in Messages \cup {None}, obj[t] = None,
           waiter' = [waiter EXCEPT ![w] = Created(t, kind, m)],
           obj' = [obj EXCEPT ![t] = w]
    PROVE  WaiterMoves(t)
<1>1. w \in Waiters /\ waiter[w].ref = 0 /\ w \notin Listed
  BY DEF Available
<1>2. /\ waiter' \in [Waiters -> WaiterObjects]
      /\ RefsChange(w, 1)
  BY <1>1, CreatedTyped DEF TypeOK, RefsChange, WaiterObjects
<1> QED
  BY <1>1, <1>2 DEF WaiterMoves, Takes

(* Dropping the reference to the waiter at hand, in any lock state. *)
LEMMA DropMoves ==
    ASSUME TypeOK, NEW t \in Threads, obj[t] \in Waiters,
           NEW o, SameHold(waiter[obj[t]], o), o.ref \in Nat \ {0},
           waiter' = [waiter EXCEPT ![obj[t]] = Dropped(o)],
           obj' = [obj EXCEPT ![t] = None]
    PROVE  WaiterMoves(t)
<1>1. /\ Dropped(o) \in WaiterObjects
      /\ Dropped(o).ref = o.ref - 1
      /\ Dropped(o).ref > 0 => Dropped(o).message = o.message
  BY DroppedTyped DEF SameHold
<1>2. /\ waiter' \in [Waiters -> WaiterObjects]
      /\ RefsChange(obj[t], -1)
  BY <1>1 DEF TypeOK, RefsChange, SameHold, WaiterObjects
<1> QED
  BY <1>2 DEF WaiterMoves, LetsGo

-----------------------------------------------------------------------------
(* Where a thread stands: what Control says of it, in usable form. *)
LEMMA ThreadFacts ==
    ASSUME IInv, NEW t \in Threads
    PROVE  /\ pc[t] \in PutLocations \cup RefillLocations => msg[t] \in Messages
           /\ pc[t] \in WaiterLocations =>
                 obj[t] \in Waiters /\ waiter[obj[t]].ref \in Nat \ {0}
           /\ pc[t] \notin WaiterLocations => obj[t] = None
           /\ pc[t] \in LockedLocations <=> quelock = t
           /\ waiter \in [Waiters -> WaiterObjects]
BY HeldIsAlive DEF IInv, Control, TypeOK

(* Failing changes nothing but failed. *)
LEMMA FailsMoves ==
    ASSUME TypeOK, NEW t \in Threads, NEW why, Fails(why)
    PROVE  WaiterMoves(t)
BY NothingMoves DEF Fails

(* A waiter's owner unlocks its object and drops it. *)
LEMMA LeavingMoves ==
    ASSUME IInv, NEW t \in Threads, pc[t] \in WaiterLocations,
           waiter' = Left(obj[t]), obj' = [obj EXCEPT ![t] = None]
    PROVE  WaiterMoves(t)
<1> DEFINE o == Unlocked(waiter[obj[t]])
<1>1. obj[t] \in Waiters /\ waiter[obj[t]].ref \in Nat \ {0}
      /\ waiter \in [Waiters -> WaiterObjects]
  BY ThreadFacts
<1>2. SameHold(waiter[obj[t]], o) /\ o.ref \in Nat \ {0}
  BY <1>1, UnlockedTyped DEF SameHold
<1>3. waiter' = [waiter EXCEPT ![obj[t]] = Dropped(o)]
  BY DEF Left
<1> HIDE DEF o
<1> QED
  BY <1>1, <1>2, <1>3, DropMoves DEF IInv

(* A thread drops the waiter it works on. *)
LEMMA UnrefMoves ==
    ASSUME IInv, NEW t \in Threads, pc[t] \in WaiterLocations,
           waiter' = Unref(obj[t]), obj' = [obj EXCEPT ![t] = None]
    PROVE  WaiterMoves(t)
<1> DEFINE o == waiter[obj[t]]
<1>1. obj[t] \in Waiters /\ o.ref \in Nat \ {0} /\ SameHold(o, o)
  BY ThreadFacts DEF SameHold
<1>2. waiter' = [waiter EXCEPT ![obj[t]] = Dropped(o)]
  BY DEF Unref
<1> HIDE DEF o
<1>3. waiter[obj[t]] = o
  BY DEF o
<1> QED
  BY <1>1, <1>2, <1>3, DropMoves DEF IInv

(* A change of one field of the thread's own object other than ref and message *)
LEMMA FieldMoves ==
    ASSUME IInv, NEW t \in Threads, pc[t] \in WaiterLocations, obj' = obj,
           \/ waiter' = waiter
           \/ waiter' = [waiter EXCEPT ![obj[t]] = Asleep(@)]
           \/ waiter' = [waiter EXCEPT ![obj[t]] = Signalled(@)]
           \/ waiter' = [waiter EXCEPT ![obj[t]].condlock = t]
           \/ waiter' = [waiter EXCEPT ![obj[t]].timedout = TRUE]
           \/ \E c \in Conds : waiter' = [waiter EXCEPT ![obj[t]].cond = c]
    PROVE  WaiterMoves(t)
<1> DEFINE o == waiter[obj[t]]
<1>1. obj[t] \in Waiters /\ o \in WaiterObjects /\ TypeOK
  BY ThreadFacts DEF IInv
<1>2. CASE waiter' = waiter
  BY <1>1, <1>2, NothingMoves
<1>3. CASE waiter' = [waiter EXCEPT ![obj[t]] = Asleep(@)]
  BY <1>1, <1>3, AsleepTyped, ObjectMoves
<1>4. CASE waiter' = [waiter EXCEPT ![obj[t]] = Signalled(@)]
  BY <1>1, <1>4, SignalledTyped, ObjectMoves
<1>5. CASE waiter' = [waiter EXCEPT ![obj[t]].condlock = t]
  <2>1. SameHold(o, [o EXCEPT !.condlock = t])
    BY <1>1 DEF SameHold, WaiterObjects
  <2> QED
    BY <1>1, <1>5, <2>1, ObjectMoves
<1>6. CASE waiter' = [waiter EXCEPT ![obj[t]].timedout = TRUE]
  <2>1. SameHold(o, [o EXCEPT !.timedout = TRUE])
    BY <1>1 DEF SameHold, WaiterObjects
  <2> QED
    BY <1>1, <1>6, <2>1, ObjectMoves
<1>7. ASSUME NEW c \in Conds, waiter' = [waiter EXCEPT ![obj[t]].cond = c]
      PROVE  WaiterMoves(t)
  <2>1. SameHold(o, [o EXCEPT !.cond = c])
    BY <1>1 DEF SameHold, WaiterObjects
  <2> QED
    BY <1>1, <1>7, <2>1, ObjectMoves
<1> QED
  BY <1>2, <1>3, <1>4, <1>5, <1>6, <1>7

(* Every step moves the waiter objects in one of the three ways. *)
LEMMA WaiterStep ==
    ASSUME IInv, NEW t \in Threads, Step(t)
    PROVE  WaiterMoves(t)
<1> USE ThreadFacts DEF At
<1>0. TypeOK
  BY DEF IInv
<1>1. ASSUME NEW m \in Messages, PutCall(t, m) \/ ForcePut(t, m)
      PROVE  WaiterMoves(t)
  BY <1>0, <1>1, NothingMoves DEF PutCall, ForcePut
<1>2. CASE PutPopsGetter(t)
  <2>1. CASE Fails("freed")
    BY <1>0, <2>1, FailsMoves
  <2>2. CASE ~Fails("freed")
    <3>1. Head(getters) \in Waiters
      BY <1>0, <1>2, HeadTailProperties DEF TypeOK, PutPopsGetter, NoGetterListed
    <3>2. obj[t] = None
      BY <1>2 DEF PutPopsGetter, WaiterLocations
    <3> QED
      BY <1>0, <1>2, <2>2, <3>1, <3>2, ReferenceMoves DEF PutPopsGetter
  <2> QED
    BY <2>1, <2>2
<1>3. CASE PutPushes(t)
  <2>1. obj[t] = None
    BY <1>3 DEF PutPushes, WaiterLocations
  <2>2. obj' = obj
    BY <1>0, <1>3, <2>1 DEF PutPushes, PutReturns, Idle, TypeOK
  <2> QED
    BY <1>0, <1>3, <2>2, NothingMoves DEF PutPushes
<1>4. CASE PutListsPutter(t)
  <2>1. PICK w \in Available, kind \in Waits :
          /\ waiter' = [waiter EXCEPT ![w] = Created(t, kind, msg[t])]
          /\ obj' = [obj EXCEPT ![t] = w]
    BY <1>4 DEF PutListsPutter
  <2>2. obj[t] = None /\ msg[t] \in Messages
    BY <1>4 DEF PutListsPutter, WaiterLocations, PutLocations
  <2> QED
    BY <1>0, <2>1, <2>2, CreationMoves
<1>5. CASE PutLocksGetter(t)
  BY <1>5, FieldMoves DEF PutLocksGetter, WaiterLocations
<1>6. CASE PutHandsOver(t)
  BY <1>6, FieldMoves DEF PutHandsOver, WaiterLocations
<1>7. CASE PutDropsGetter(t)
  BY <1>7, UnrefMoves DEF PutDropsGetter, PutReturns, Idle, WaiterLocations
<1>8. CASE PutSleeps(t)
  <2>1. CASE Sleeps(t, "put_wait")
    BY <1>8, <2>1, FieldMoves DEF PutSleeps, Sleeps, WaiterLocations
  <2>2. CASE PutLeaves(t)
    BY <1>8, <2>2, LeavingMoves DEF PutSleeps, PutLeaves, PutReturns, Idle, WaiterLocations
  <2> QED
    BY <1>8, <2>1, <2>2 DEF PutSleeps
<1>9. CASE PutWakes(t)
  BY <1>9, LeavingMoves DEF PutWakes, PutLeaves, PutReturns, Idle, WaiterLocations
<1>10. CASE PutTimesOut(t)
  BY <1>10, FieldMoves DEF PutTimesOut, TimesOut, WaiterLocations
<1>11. CASE PutGivesUp(t)
  BY <1>11, UnrefMoves DEF PutGivesUp, Idle, WaiterLocations
<1>12. CASE GetListsGetter(t)
  <2>1. PICK w \in Available, kind \in Waits :
          /\ waiter' = [waiter EXCEPT ![w] = Created(t, kind, None)]
          /\ obj' = [obj EXCEPT ![t] = w]
    BY <1>12 DEF GetListsGetter, GetterCreated
  <2>2. obj[t] = None
    BY <1>12 DEF GetListsGetter, WaiterLocations
  <2> QED
    BY <1>0, <2>1, <2>2, CreationMoves
<1>13. ASSUME GetLeaves(t), pc[t] \in WaiterLocations
       PROVE  WaiterMoves(t)
  <2>1. CASE Fails("get")
    BY <1>0, <2>1, FailsMoves
  <2>2. CASE ~Fails("get")
    BY <1>13, <2>2, LeavingMoves DEF GetLeaves, GetReturns, Idle
  <2> QED
    BY <2>1, <2>2
<1>14. CASE GetSleeps(t)
  <2>1. CASE Sleeps(t, "get_wait")
    BY <1>14, <2>1, FieldMoves DEF GetSleeps, Sleeps, WaiterLocations
  <2>2. CASE GetLeaves(t)
    BY <1>13, <1>14, <2>2 DEF GetSleeps, WaiterLocations
  <2> QED
    BY <1>14, <2>1, <2>2 DEF GetSleeps
<1>15. CASE GetWakes(t)
  BY <1>13, <1>15 DEF GetWakes, WaiterLocations
<1>16. CASE GetTimesOut(t)
  BY <1>16, FieldMoves DEF GetTimesOut, TimesOut, WaiterLocations
<1>17. CASE GetGivesUp(t)
  BY <1>17, UnrefMoves DEF GetGivesUp, Idle, WaiterLocations
<1>18. CASE GetPops(t)
  BY <1>0, <1>18, NothingMoves, FailsMoves DEF GetPops
<1>19. CASE GetEnds(t)
  <2>1. obj[t] = None
    BY <1>19 DEF GetEnds, WaiterLocations
  <2>2. obj' = obj
    BY <1>0, <1>19, <2>1 DEF GetEnds, GetReturns, Idle, TypeOK
  <2> QED
    BY <1>0, <1>19, <2>2, NothingMoves DEF GetEnds
<1>20. CASE GetPopsPutter(t)
  <2>1. CASE Fails("freed") \/ Fails("pop_putter")
    BY <1>0, <2>1, FailsMoves
  <2>2. CASE ~(Fails("freed") \/ Fails("pop_putter"))
    <3>1. PICK r \in Pops(putters) : /\ waiter[r.item].ref > 0
                                     /\ waiter' = Referenced(r.item)
                                     /\ obj' = [obj EXCEPT ![t] = r.item]
      BY <1>20, <2>2 DEF GetPopsPutter
    <3>2. r.item \in Waiters
      BY <1>0, <1>20, PopsTyped, MembersTyped DEF TypeOK, GetPopsPutter, NoPutterListed
    <3>3. obj[t] = None
      BY <1>20 DEF GetPopsPutter, WaiterLocations
    <3> QED
      BY <1>0, <3>1, <3>2, <3>3, ReferenceMoves
  <2> QED
    BY <2>1, <2>2
<1>21. CASE GetLocksPutter(t)
  <2>1. CASE Fails("push")
    BY <1>0, <2>1, FailsMoves
  <2>2. CASE ~Fails("push")
    BY <1>21, <2>2, FieldMoves DEF GetLocksPutter, WaiterLocations
  <2> QED
    BY <2>1, <2>2
<1>22. CASE GetDropsPutter(t)
  BY <1>22, UnrefMoves DEF GetDropsPutter, GetReturns, Idle, WaiterLocations
<1>23. CASE Expires(t) \/ WakesUnprompted(t)
  BY <1>23, FieldMoves DEF Expires, WakesUnprompted, WaiterLocations, Conds
<1> QED
  BY <1>1, <1>2, <1>3, <1>4, <1>5, <1>6, <1>7, <1>8, <1>9, <1>10, <1>11, <1>12,
     <1>14, <1>15, <1>16, <1>17, <1>18, <1>19, <1>20, <1>21, <1>22, <1>23
  DEF Step, PutStep, GetStep, GetCall

(* The references stay counted, whichever way the objects move. *)
LEMMA ReferencesStep ==
    ASSUME IInv, NEW t \in Threads, WaiterMoves(t)
    PROVE  /\ obj' \in [Threads -> Waiters \cup {None}]
           /\ ReferencesCounted'
<1>1. /\ obj \in [Threads -> Waiters \cup {None}]
      /\ waiter \in [Waiters -> WaiterObjects]
      /\ \A v \in Waiters : waiter[v].ref = Cardinality(Holders(obj, v))
  BY DEF IInv, TypeOK, ReferencesCounted, Holders
<1>2. \A v \in Waiters : waiter[v].ref \in Nat
  BY <1>1 DEF WaiterObjects
<1>3. CASE Holds(t)
  <2>1. \A v \in Waiters : waiter'[v].ref = waiter[v].ref
    BY <1>2, <1>3, QcQueueAssumption DEF Holds, RefsChange
  <2> QED
    BY <1>1, <1>3, <2>1 DEF Holds, ReferencesCounted, Holders
<1>4. CASE Takes(t)
  <2>1. PICK w \in Waiters : /\ obj[t] = None
                             /\ obj' = [obj EXCEPT ![t] = w]
                             /\ RefsChange(w, 1)
    BY <1>4 DEF Takes
  <2>2. \A v \in Waiters : waiter'[v].ref = Cardinality(Holders(obj', v))
    <3> SUFFICES ASSUME NEW v \in Waiters
                 PROVE  waiter'[v].ref = Cardinality(Holders(obj', v))
      OBVIOUS
    <3>1. IsFiniteSet(Holders(obj, v)) /\ None \notin Waiters
      BY QcQueueAssumption, FS_Subset DEF Holders
    <3>2. CASE v = w
      <4>1. Holders(obj', v) = Holders(obj, v) \cup {t} /\ t \notin Holders(obj, v)
        BY <1>1, <2>1, <3>1, <3>2 DEF Holders
      <4>2. Cardinality(Holders(obj', v)) = Cardinality(Holders(obj, v)) + 1
        BY <3>1, <4>1, FS_AddElement
      <4>3. waiter'[v].ref = waiter[v].ref + 1
        BY <2>1, <3>2 DEF RefsChange
      <4> QED
        BY <1>1, <4>2, <4>3
    <3>3. CASE v # w
      <4>1. Holders(obj', v) = Holders(obj, v)
        BY <1>1, <2>1, <3>1, <3>3 DEF Holders
      <4>2. waiter'[v].ref = waiter[v].ref
        BY <1>2, <2>1, <3>3 DEF RefsChange
      <4> QED
        BY <1>1, <4>1, <4>2
    <3> QED
      BY <3>2, <3>3
  <2> QED
    BY <1>1, <2>1, <2>2 DEF ReferencesCounted, Holders
<1>5. CASE LetsGo(t)
  <2>1. \A v \in Waiters : waiter'[v].ref = Cardinality(Holders(obj', v))
    <3> SUFFICES ASSUME NEW v \in Waiters
                 PROVE  waiter'[v].ref = Cardinality(Holders(obj', v))
      OBVIOUS
    <3>1. Cardinality(Holders(obj', v))
             = Cardinality(Holders(obj, v)) - (IF v = obj[t] THEN 1 ELSE 0)
      BY <1>1, <1>5, HolderRemoved DEF LetsGo
    <3>2. waiter'[v].ref = waiter[v].ref + (IF v = obj[t] THEN -1 ELSE 0)
      BY <1>5 DEF LetsGo, RefsChange
    <3>3. Cardinality(Holders(obj, v)) \in Nat
      BY <1>1, <1>2
    <3> QED
      BY <1>1, <3>1, <3>2, <3>3
  <2> QED
    BY <1>1, <1>5, <2>1 DEF LetsGo, ReferencesCounted, Holders
<1> QED
  BY <1>3, <1>4, <1>5 DEF WaiterMoves

-----------------------------------------------------------------------------
(* The steps by what they do to the control state. *)

(* A step that fails leaves the control state alone. *)
LEMMA FailsControl ==
    ASSUME IInv, NEW why, Fails(why)
    PROVE  Control'
BY DEF IInv, Control, Fails, queueVars

(* A message popped from the chain is a message. *)
LEMMA PoppedIsMessage ==
    ASSUME IInv, chain.count # 0, NEW r \in Pops(chain)
    PROVE  r.item \in Messages
BY PopsTyped, MembersTyped DEF IInv, TypeOK

(* Every step keeps each thread's locks, message and pointer as Control says. *)
LEMMA ControlStep ==
    ASSUME IInv, NEW t \in Threads, Step(t)
    PROVE  Control'
<1> DEFINE Typed == /\ pc \in [Threads -> Locations]
                    /\ msg \in [Threads -> Messages \cup {None}]
                    /\ obj \in [Threads -> Waiters \cup {None}]
                    /\ None \notin Threads \cup Messages \cup Waiters
<1>0. Typed /\ Control
  BY QcQueueAssumption DEF IInv, TypeOK, Locations
<1> USE DEF Control, At, GoTo, Idle, WaiterLocations, LockedLocations, RefillLocations,
            PutLocations
<1>1. ASSUME NEW m \in Messages, PutCall(t, m)
      PROVE  Control'
  BY <1>0, <1>1 DEF PutCall, queueVars
<1>2. CASE PutPopsGetter(t)
  <2>1. CASE Fails("freed")
    BY <2>1, FailsControl
  <2>2. CASE ~Fails("freed")
    <3>1. Head(getters) \in Waiters
      BY <1>2, HeadTailProperties DEF IInv, TypeOK, PutPopsGetter, NoGetterListed
    <3> QED
      BY <1>0, <1>2, <2>2, <3>1 DEF PutPopsGetter
  <2> QED
    BY <2>1, <2>2
<1>3. CASE PutPushes(t)
  BY <1>0, <1>3 DEF PutPushes, PutReturns
<1>4. CASE PutListsPutter(t)
  <2>1. PICK w \in Available : obj' = [obj EXCEPT ![t] = w]
    BY <1>4 DEF PutListsPutter
  <2> QED
    BY <1>0, <1>4, <2>1 DEF PutListsPutter, Available
<1>5. CASE PutLocksGetter(t)
  BY <1>0, <1>5 DEF PutLocksGetter, QuelockUnlock
<1>6. CASE PutHandsOver(t)
  BY <1>0, <1>6 DEF PutHandsOver
<1>7. CASE PutDropsGetter(t)
  BY <1>0, <1>7 DEF PutDropsGetter, PutReturns, queueVars
<1>8. CASE PutSleeps(t)
  BY <1>0, <1>8 DEF PutSleeps, Sleeps, PutLeaves, PutReturns, queueVars
<1>9. CASE PutWakes(t)
  BY <1>0, <1>9 DEF PutWakes, PutLeaves, PutReturns, queueVars
<1>10. CASE PutTimesOut(t)
  BY <1>0, <1>10 DEF PutTimesOut, TimesOut, queueVars
<1>11. CASE PutGivesUp(t)
  BY <1>0, <1>11 DEF PutGivesUp
<1>12. CASE GetListsGetter(t)
  <2>1. PICK w \in Available : obj' = [obj EXCEPT ![t] = w]
    BY <1>12 DEF GetListsGetter
  <2> QED
    BY <1>0, <1>12, <2>1 DEF GetListsGetter, Available
<1>13. CASE GetSleeps(t)
  <2>1. CASE Fails("get")
    BY <2>1, FailsControl
  <2>2. CASE ~Fails("get")
    BY <1>0, <1>13, <2>2 DEF GetSleeps, Sleeps, GetLeaves, GetReturns, queueVars
  <2> QED
    BY <2>1, <2>2
<1>14. CASE GetWakes(t)
  <2>1. CASE Fails("get")
    BY <2>1, FailsControl
  <2>2. CASE ~Fails("get")
    BY <1>0, <1>14, <2>2 DEF GetWakes, GetLeaves, GetReturns
  <2> QED
    BY <2>1, <2>2
<1>15. CASE GetTimesOut(t)
  BY <1>0, <1>15 DEF GetTimesOut, TimesOut, queueVars
<1>16. CASE GetGivesUp(t)
  BY <1>0, <1>16 DEF GetGivesUp
<1>17. CASE GetPops(t)
  <2>1. CASE Fails("pop")
    BY <2>1, FailsControl
  <2>2. CASE ~Fails("pop")
    <3>1. PICK r \in Pops(chain) : msg' = [msg EXCEPT ![t] = r.item] /\ quelock' = t
                                   /\ GoTo(t, "refill") /\ obj' = obj
      BY <1>17, <2>2 DEF GetPops
    <3>2. r.item \in Messages
      BY <1>17, PoppedIsMessage DEF GetPops
    <3> QED
      BY <1>0, <1>17, <3>1, <3>2 DEF GetPops
  <2> QED
    BY <2>1, <2>2
<1>18. CASE GetEnds(t)
  BY <1>0, <1>18 DEF GetEnds, GetReturns, QuelockUnlock
<1>19. CASE GetPopsPutter(t)
  <2>1. CASE Fails("freed") \/ Fails("pop_putter")
    BY <2>1, FailsControl
  <2>2. CASE ~(Fails("freed") \/ Fails("pop_putter"))
    <3>1. PICK r \in Pops(putters) : obj' = [obj EXCEPT ![t] = r.item]
                                     /\ GoTo(t, "lock_putter") /\ UNCHANGED <<quelock, msg>>
      BY <1>19, <2>2 DEF GetPopsPutter
    <3>2. r.item \in Waiters
      BY <1>19, PopsTyped, MembersTyped DEF IInv, TypeOK, GetPopsPutter, NoPutterListed
    <3> QED
      BY <1>0, <1>19, <3>1, <3>2 DEF GetPopsPutter
  <2> QED
    BY <2>1, <2>2
<1>20. CASE GetLocksPutter(t)
  <2>1. CASE Fails("push")
    BY <2>1, FailsControl
  <2>2. CASE ~Fails("push")
    BY <1>0, <1>20, <2>2 DEF GetLocksPutter, queueVars
  <2> QED
    BY <2>1, <2>2
<1>21. CASE GetDropsPutter(t)
  BY <1>0, <1>21 DEF GetDropsPutter, GetReturns, QuelockUnlock
<1>22. CASE \E m \in Messages : ForcePut(t, m)
  BY <1>0, <1>22 DEF ForcePut
<1>23. CASE Expires(t) \/ WakesUnprompted(t)
  BY <1>0, <1>23 DEF Expires, WakesUnprompted, queueVars
<1> QED
  BY <1>1, <1>2, <1>3, <1>4, <1>5, <1>6, <1>7, <1>8, <1>9, <1>10, <1>11, <1>12,
     <1>13, <1>14, <1>15, <1>16, <1>17, <1>18, <1>19, <1>20, <1>21, <1>22, <1>23
  DEF Step, PutStep, GetStep, GetCall

-----------------------------------------------------------------------------
(* The steps by what they do to the chain of messages and the chain of     *)
(* putters: each loses a member or gains one, or keeps its count.          *)

(* Pushing a message of the queue counts one more. *)
LEMMA MessagePushed ==
    ASSUME IInv, NEW b \in Chains(Messages), Counted(b), NEW m \in Messages
    PROVE  /\ Pushed(b, Prio[m], m) \in Chains(Messages)
           /\ Counted(Pushed(b, Prio[m], m))
           /\ Pushed(b, Prio[m], m).count = b.count + 1
BY PushedTyped, QcQueueAssumption

(* Listing a putter counts one more and adds just it. *)
LEMMA PutterPushed ==
    ASSUME IInv, NEW m \in Messages, NEW w \in Waiters
    PROVE  /\ Pushed(putters, Prio[m], w) \in Chains(Waiters)
           /\ Counted(Pushed(putters, Prio[m], w))
           /\ Pushed(putters, Prio[m], w).count = putters.count + 1
           /\ Members(Pushed(putters, Prio[m], w)) = Members(putters) \cup {w}
BY PushedTyped, QcQueueAssumption DEF IInv, TypeOK, CountersTrue

(* Unlisting a putter, whether or not a getter was faster. *)
LEMMA UnlistPutterMoves ==
    ASSUME IInv, NEW t \in Threads, pc[t] = "put_expired", UnlistPutter(obj[t])
    PROVE  /\ putters' \in Chains(Waiters) /\ Counted(putters')
           /\ putters'.count \in {putters.count, putters.count - 1}
           /\ Members(putters') \subseteq Members(putters)
<1>1. waiter[obj[t]].message \in Messages
  BY DEF IInv, PuttersCarryMessages, PutterLocations
<1>2. /\ Prio[waiter[obj[t]].message] \in Prios
      /\ putters \in Chains(Waiters) /\ Counted(putters)
  BY <1>1, QcQueueAssumption DEF IInv, TypeOK, CountersTrue
<1> QED
  BY <1>2, RemovalsTyped DEF UnlistPutter

(* The putters' side of every step: a new member only in PutListsPutter. *)
PuttersLose == /\ putters' \in Chains(Waiters) /\ Counted(putters')
               /\ putters'.count \in {putters.count, putters.count - 1}
               /\ Members(putters') \subseteq Members(putters)

PuttersGain(t) == \E w \in Available, kind \in Waits, m \in Messages :
    /\ putters' \in Chains(Waiters) /\ Counted(putters')
    /\ putters'.count = putters.count + 1
    /\ Members(putters') = Members(putters) \cup {w}
    /\ waiter' = [waiter EXCEPT ![w] = Created(t, kind, m)]
    /\ obj' = [obj EXCEPT ![t] = w]

(* Only listing a putter adds one; every other step loses at most one. *)
LEMMA PuttersStep ==
    ASSUME IInv, NEW t \in Threads, Step(t)
    PROVE  PuttersLose \/ (PuttersGain(t) /\ PutListsPutter(t))
<1>0. putters \in Chains(Waiters) /\ Counted(putters)
  BY DEF IInv, TypeOK, CountersTrue
<1>1. CASE UNCHANGED putters
  BY <1>0, <1>1 DEF PuttersLose
<1>2. CASE PutListsPutter(t)
  <2>1. PICK w \in Available, kind \in Waits :
          /\ waiter' = [waiter EXCEPT ![w] = Created(t, kind, msg[t])]
          /\ putters' = Pushed(putters, Prio[msg[t]], w)
          /\ obj' = [obj EXCEPT ![t] = w]
    BY <1>2 DEF PutListsPutter
  <2>2. msg[t] \in Messages
    BY <1>2, ThreadFacts DEF PutListsPutter, At, PutLocations
  <2>3. w \in Waiters
    BY DEF Available
  <2> QED
    BY <1>2, <2>1, <2>2, <2>3, PutterPushed DEF PuttersGain
<1>3. CASE PutGivesUp(t)
  BY <1>3, UnlistPutterMoves DEF PuttersLose, PutGivesUp, At
<1>4. CASE GetPopsPutter(t)
  <2>1. CASE UNCHANGED putters
    BY <1>1, <2>1
  <2>2. CASE \E r \in Pops(putters) : putters' = r.rest
    BY <1>0, <1>4, <2>2, PopsTyped DEF PuttersLose, GetPopsPutter, NoPutterListed
  <2> QED
    BY <1>4, <2>1, <2>2 DEF GetPopsPutter, Fails, queueVars
<1>5. \/ UNCHANGED putters
      \/ PutListsPutter(t) \/ PutGivesUp(t) \/ GetPopsPutter(t)
  <2>1. ASSUME NEW m \in Messages, PutCall(t, m) \/ ForcePut(t, m)
        PROVE  UNCHANGED putters
    BY <2>1 DEF PutCall, ForcePut, queueVars
  <2>2. ASSUME PutStep(t) PROVE UNCHANGED putters \/ PutListsPutter(t) \/ PutGivesUp(t)
    BY <2>2 DEF PutStep, PutPopsGetter, PutPushes, PutLocksGetter, PutHandsOver,
       PutDropsGetter, PutSleeps, PutWakes, PutTimesOut, TimesOut, Fails, queueVars
  <2>3. ASSUME GetStep(t) PROVE UNCHANGED putters \/ GetPopsPutter(t)
    BY <2>3 DEF GetStep, GetSleeps, GetWakes, GetLeaves, GetTimesOut, TimesOut, GetGivesUp,
       GetEnds, GetLocksPutter, GetDropsPutter, Fails, queueVars
  <2>4. ASSUME GetCall(t) PROVE UNCHANGED putters
    BY <2>4 DEF GetCall, GetListsGetter, GetPops, Fails, queueVars
  <2>5. ASSUME Expires(t) \/ WakesUnprompted(t) PROVE UNCHANGED putters
    BY <2>5 DEF Expires, WakesUnprompted, queueVars
  <2> QED
    BY <2>1, <2>2, <2>3, <2>4, <2>5 DEF Step
<1> QED
  BY <1>1, <1>2, <1>3, <1>4, <1>5

(* How the program counter moves: t's alone, and it comes to work on a     *)
(* putter only by listing or popping one.                                  *)
LEMMA PcStep ==
    ASSUME IInv, NEW t \in Threads, Step(t)
    PROVE  /\ pc' \in [Threads -> Locations]
           /\ \A s \in Threads \ {t} : pc'[s] = pc[s]
           /\ pc'[t] \in PutterLocations =>
                 \/ pc[t] \in PutterLocations /\ obj' = obj
                 \/ PutListsPutter(t) /\ ~UNCHANGED pc
                 \/ GetPopsPutter(t) /\ ~UNCHANGED pc
<1> DEFINE Goal == /\ pc' \in [Threads -> Locations]
                   /\ \A s \in Threads \ {t} : pc'[s] = pc[s]
                   /\ pc'[t] \in PutterLocations =>
                         \/ pc[t] \in PutterLocations /\ obj' = obj
                         \/ PutListsPutter(t) /\ ~UNCHANGED pc
                         \/ GetPopsPutter(t) /\ ~UNCHANGED pc
<1>0. pc \in [Threads -> Locations]
  BY DEF IInv, TypeOK, Locations
<1> USE <1>0 DEF At, GoTo, Idle, PutReturns, GetReturns, PutterLocations, Locations, PutLocations,
             GetLocations, RefillLocations
<1>1. ASSUME UNCHANGED <<pc, obj>> PROVE Goal
  BY <1>1
<1>2. ASSUME NEW m \in Messages, PutCall(t, m) \/ ForcePut(t, m)
      PROVE  Goal
  BY <1>2 DEF PutCall, ForcePut
<1>3. ASSUME PutPopsGetter(t) \/ PutPushes(t) \/ PutListsPutter(t) PROVE Goal
  BY <1>3 DEF PutPopsGetter, PutPushes, PutListsPutter, Fails
<1>4. ASSUME PutLocksGetter(t) \/ PutHandsOver(t) \/ PutDropsGetter(t) PROVE Goal
  BY <1>4 DEF PutLocksGetter, PutHandsOver, PutDropsGetter
<1>5. ASSUME PutSleeps(t) \/ PutWakes(t) \/ PutTimesOut(t) \/ PutGivesUp(t) PROVE Goal
  BY <1>5 DEF PutSleeps, Sleeps, PutWakes, PutLeaves, PutTimesOut, TimesOut, PutGivesUp
<1>6. ASSUME GetCall(t) PROVE Goal
  BY <1>6 DEF GetCall, GetListsGetter, GetPops, Fails
<1>7. ASSUME GetSleeps(t) \/ GetWakes(t) \/ GetTimesOut(t) \/ GetGivesUp(t) PROVE Goal
  BY <1>7 DEF GetSleeps, Sleeps, GetWakes, GetLeaves, GetTimesOut, TimesOut, GetGivesUp, Fails
<1>8. ASSUME GetEnds(t) \/ GetPopsPutter(t) PROVE Goal
  BY <1>8 DEF GetEnds, GetPopsPutter, Fails
<1>9. ASSUME GetLocksPutter(t) \/ GetDropsPutter(t) PROVE Goal
  BY <1>9 DEF GetLocksPutter, GetDropsPutter, Fails
<1>10. ASSUME Expires(t) \/ WakesUnprompted(t) PROVE Goal
  BY <1>1, <1>10 DEF Expires, WakesUnprompted
<1> QED
  BY <1>2, <1>3, <1>4, <1>5, <1>6, <1>7, <1>8, <1>9, <1>10 DEF Step, PutStep, GetStep

(* Whoever is pointed to after the step is alive after it. *)
LEMMA HeldStaysAlive ==
    ASSUME ReferencesCounted', obj' \in [Threads -> Waiters \cup {None}],
           NEW s \in Threads, obj'[s] \in Waiters
    PROVE  waiter'[obj'[s]].ref > 0
<1>1. IsFiniteSet(Threads)
  BY QcQueueAssumption
<1>2. IsFiniteSet(Holders(obj', obj'[s])) /\ s \in Holders(obj', obj'[s])
  BY <1>1, FS_Subset DEF Holders
<1>3. Cardinality(Holders(obj', obj'[s])) \in Nat \ {0}
  BY <1>2, FS_CardinalityType, FS_EmptySet
<1> QED
  BY <1>3 DEF ReferencesCounted, Holders

(* A putter object that can be reached still carries its message. *)
LEMMA CarryStep ==
    ASSUME IInv, NEW t \in Threads, Step(t), WaiterMoves(t), ReferencesCounted',
           obj' \in [Threads -> Waiters \cup {None}], Control'
    PROVE  PuttersCarryMessages'
<1>1. \A v \in Waiters : waiter[v].ref > 0 /\ waiter'[v].ref > 0
                            => waiter'[v].message = waiter[v].message
  BY DEF WaiterMoves, Holds, Takes, LetsGo, RefsChange
<1>2. \A s \in Threads : pc[s] \in PutterLocations =>
          /\ obj[s] \in Waiters
          /\ waiter[obj[s]].ref > 0
          /\ waiter[obj[s]].message \in Messages
  BY ThreadFacts DEF PutterLocations, WaiterLocations, IInv, PuttersCarryMessages
<1>3. \A s \in Threads : pc'[s] \in PutterLocations =>
          obj'[s] \in Waiters /\ waiter'[obj'[s]].ref > 0
  BY HeldStaysAlive DEF Control, PutterLocations, WaiterLocations
<1>4. ASSUME NEW s \in Threads, pc'[s] \in PutterLocations
      PROVE  waiter'[obj'[s]].message \in Messages
  <2>1. CASE pc[s] \in PutterLocations /\ obj'[s] = obj[s]
    BY <1>1, <1>2, <1>3, <1>4, <2>1
  <2>2. CASE s = t /\ PutListsPutter(t) /\ ~UNCHANGED pc
    <3>1. PICK w \in Available, kind \in Waits :
            /\ waiter' = [waiter EXCEPT ![w] = Created(t, kind, msg[t])]
            /\ obj' = [obj EXCEPT ![t] = w]
      BY <2>2 DEF PutListsPutter
    <3>2. msg[t] \in Messages
      BY <2>2, ThreadFacts DEF PutListsPutter, At, PutLocations
    <3>3. Created(t, kind, msg[t]).message \in Messages /\ w \in Waiters
      BY <3>2, CreatedTyped DEF Available
    <3> QED
      BY <2>2, <3>1, <3>3 DEF IInv, TypeOK
  <2>3. CASE s = t /\ GetPopsPutter(t) /\ ~UNCHANGED pc
    <3>1. PICK r \in Pops(putters) : /\ waiter[r.item].ref > 0
                                     /\ obj' = [obj EXCEPT ![t] = r.item]
      BY <2>3 DEF GetPopsPutter, Fails
    <3>2. r.item \in Members(putters) /\ r.item \in Waiters
      BY <2>3, PopsTyped, MembersTyped DEF IInv, TypeOK, GetPopsPutter, NoPutterListed
    <3>3. waiter[r.item].message \in Messages
      BY <3>1, <3>2 DEF IInv, PuttersCarryMessages
    <3> QED
      BY <1>1, <1>3, <1>4, <2>3, <3>1, <3>2, <3>3 DEF IInv, TypeOK
  <2>4. s # t => pc'[s] = pc[s] /\ obj'[s] = obj[s]
    BY PcStep DEF WaiterMoves, Holds, Takes, LetsGo, IInv, TypeOK
  <2> QED
    BY <1>4, <2>1, <2>2, <2>3, <2>4, PcStep
<1>5. ASSUME NEW w \in Members(putters'), waiter'[w].ref > 0
      PROVE  waiter'[w].message \in Messages
  <2>0. Members(putters) \subseteq Waiters
    BY MembersTyped DEF IInv, TypeOK
  <2>1. CASE w \in Members(putters)
    <3>1. w \in Waiters /\ w \in Listed
      BY <2>0, <2>1 DEF Listed
    <3>2. waiter[w].ref > 0
      <4>1. waiter[w].ref \in Nat
        BY <3>1 DEF IInv, TypeOK, WaiterObjects
      <4>2. CASE Holds(t)
        BY <1>5, <3>1, <4>1, <4>2, QcQueueAssumption DEF Holds, RefsChange
      <4>3. CASE Takes(t)
        BY <1>5, <3>1, <4>1, <4>3 DEF Takes, RefsChange
      <4>4. CASE LetsGo(t)
        BY <1>5, <3>1, <4>1, <4>4 DEF LetsGo, RefsChange
      <4> QED
        BY <4>2, <4>3, <4>4 DEF WaiterMoves
    <3> QED
      BY <1>1, <1>5, <2>1, <3>1, <3>2 DEF IInv, PuttersCarryMessages
  <2>2. CASE w \notin Members(putters)
    <3>1. PuttersGain(t)
      BY <1>5, <2>2, PuttersStep DEF PuttersLose
    <3>2. PICK u \in Available, kind \in Waits, m \in Messages :
              /\ Members(putters') = Members(putters) \cup {u}
              /\ waiter' = [waiter EXCEPT ![u] = Created(t, kind, m)]
      BY <3>1 DEF PuttersGain
    <3>3. Created(t, kind, m).message \in Messages /\ w = u /\ u \in Waiters
      BY <1>5, <2>2, <3>2, CreatedTyped DEF Available
    <3> QED
      BY <3>2, <3>3 DEF IInv, TypeOK
  <2> QED
    BY <2>1, <2>2
<1> QED
  BY <1>4, <1>5 DEF PuttersCarryMessages

(* The chain's side of every step. *)
ChainGains == /\ chain' \in Chains(Messages) /\ Counted(chain')
              /\ chain'.count = chain.count + 1
              /\ chain.count < Limit
ChainSwaps == /\ chain' \in Chains(Messages) /\ Counted(chain')
              /\ chain'.count = chain.count
ChainLoses == /\ chain' \in Chains(Messages) /\ Counted(chain')
              /\ chain'.count = chain.count - 1

(* Which steps change the chain of messages, and by how much. *)
LEMMA ChainStep ==
    ASSUME IInv, NEW t \in Threads, Step(t)
    PROVE  /\ \/ UNCHANGED chain
              \/ PutPushes(t) \/ GetLocksPutter(t) \/ GetPops(t)
              \/ \E m \in Messages : ForcePut(t, m)
           /\ PutPushes(t) => ChainGains
           /\ GetLocksPutter(t) /\ ~Fails("push") =>
                 IF Abandoned(obj[t]) THEN UNCHANGED chain ELSE ChainGains
           /\ GetPops(t) /\ ~Fails("pop") => ChainLoses
           /\ \A m \in Messages : ForcePut(t, m) => ChainGains \/ ChainSwaps
<1>0. /\ chain \in Chains(Messages) /\ Counted(chain)
      /\ chain.count \in 0..Limit /\ Limit \in Nat \ {0}
  BY QcQueueAssumption DEF IInv, TypeOK, LimitKept, CountersTrue
<1>1. ASSUME PutPushes(t) PROVE ChainGains
  <2>1. msg[t] \in Messages
    BY <1>1, ThreadFacts DEF PutPushes, At, PutLocations
  <2> QED
    BY <1>0, <1>1, <2>1, MessagePushed DEF PutPushes, ChainFull, ChainGains
<1>2. ASSUME GetLocksPutter(t), ~Fails("push")
      PROVE  IF Abandoned(obj[t]) THEN UNCHANGED chain ELSE ChainGains
  <2>1. waiter[obj[t]].message \in Messages
    BY <1>2 DEF IInv, PuttersCarryMessages, PutterLocations, GetLocksPutter, At
  <2>2. CASE Abandoned(obj[t])
    BY <1>2, <2>2 DEF GetLocksPutter, queueVars
  <2>3. CASE ~Abandoned(obj[t])
    <3>1. /\ chain.count < Limit
          /\ chain' = Pushed(chain, Prio[waiter[obj[t]].message], waiter[obj[t]].message)
      BY <1>2, <2>3 DEF GetLocksPutter
    <3> QED
      BY <1>0, <2>1, <2>3, <3>1, MessagePushed DEF ChainGains
  <2> QED
    BY <2>2, <2>3
<1>3. ASSUME GetPops(t), ~Fails("pop") PROVE ChainLoses
  <2>1. PICK r \in Pops(chain) : chain' = r.rest
    BY <1>3 DEF GetPops
  <2> QED
    BY <1>0, <1>3, <2>1, PopsTyped DEF GetPops, ChainLoses
<1>4. ASSUME NEW m \in Messages, ForcePut(t, m)
      PROVE  ChainGains \/ ChainSwaps
  <2>1. CASE chain.count < Limit
    BY <1>0, <1>4, <2>1, MessagePushed DEF ForcePut, ChainGains
  <2>2. CASE chain.count >= Limit
    <3>1. PICK r \in Evictions(chain) : chain' = Pushed(r.rest, Prio[m], m)
      BY <1>0, <1>4, <2>2 DEF ForcePut
    <3>2. r.rest \in Chains(Messages) /\ r.rest.count = chain.count - 1 /\ Counted(r.rest)
      BY <1>0, <3>1, EvictionsTyped
    <3> QED
      BY <1>0, <3>1, <3>2, MessagePushed DEF ChainSwaps
  <2> QED
    BY <1>0, <2>1, <2>2
<1>5. \/ UNCHANGED chain
      \/ PutPushes(t) \/ GetLocksPutter(t) \/ GetPops(t)
      \/ \E m \in Messages : ForcePut(t, m)
  <2>1. ASSUME NEW m \in Messages, PutCall(t, m) PROVE UNCHANGED chain
    BY <2>1 DEF PutCall, queueVars
  <2>2. ASSUME PutStep(t) PROVE UNCHANGED chain \/ PutPushes(t)
    BY <2>2 DEF PutStep, PutPopsGetter, PutListsPutter, PutLocksGetter, PutHandsOver,
       PutDropsGetter, PutSleeps, PutWakes, PutTimesOut, TimesOut, PutGivesUp, Fails, queueVars
  <2>3. ASSUME GetStep(t) PROVE UNCHANGED chain \/ GetLocksPutter(t)
    BY <2>3 DEF GetStep, GetSleeps, GetWakes, GetLeaves, GetTimesOut, TimesOut, GetGivesUp,
       GetEnds, GetPopsPutter, GetDropsPutter, Fails, queueVars
  <2>4. ASSUME GetCall(t) PROVE UNCHANGED chain \/ GetPops(t)
    BY <2>4 DEF GetCall, GetListsGetter
  <2>5. ASSUME Expires(t) \/ WakesUnprompted(t) PROVE UNCHANGED chain
    BY <2>5 DEF Expires, WakesUnprompted, queueVars
  <2> QED
    BY <2>1, <2>2, <2>3, <2>4, <2>5 DEF Step
<1> QED
  BY <1>1, <1>2, <1>3, <1>4, <1>5

-----------------------------------------------------------------------------
(* The limit, the room a refill finds, and the putters' reason to wait. *)

Counts == LimitKept /\ RefillAdmitsOne /\ PuttersWaitOnFull

CountFacts(t) ==
    /\ Limit \in Nat \ {0}
    /\ chain.count \in 0..Limit
    /\ putters.count \in Nat
    /\ pc \in [Threads -> Locations]
    /\ t \in Threads /\ None \notin Threads
    /\ \A s \in Threads : pc[s] \in LockedLocations <=> quelock = s

(* Nobody else's get is refilling while quelock is free or is t's. *)
LEMMA AloneRefilling ==
    ASSUME IInv, NEW t \in Threads, NEW s \in Threads, s # t, quelock \in {None, t}
    PROVE  pc[s] \notin RefillLocations
BY QcQueueAssumption DEF IInv, Control, LockedLocations

(* A step of t outside the refill, that at most takes or gives up quelock  *)
(* and at most unlists a putter.                                           *)
Elsewhere(t) ==
    /\ UNCHANGED chain
    /\ PuttersLose
    /\ pc[t] \notin RefillLocations
    /\ pc'[t] \notin RefillLocations
    /\ \A s \in Threads \ {t} : pc'[s] = pc[s]
    /\ quelock' = quelock \/ quelock = None \/ quelock = t

(* Such a step keeps the counts and what the waiting putters rely on. *)
LEMMA ElsewhereCounts ==
    ASSUME IInv, NEW t \in Threads, CountFacts(t), Elsewhere(t)
    PROVE  Counts'
<1>1. LimitKept'
  BY DEF IInv, LimitKept, Elsewhere, RefillLocations
<1>2. RefillAdmitsOne'
  BY DEF IInv, RefillAdmitsOne, Elsewhere, PuttersLose, RefillLocations, CountFacts
<1>3. PuttersWaitOnFull'
  BY DEF IInv, PuttersWaitOnFull, Elsewhere, PuttersLose, CountFacts, RefillLocations, TypeOK
<1> QED
  BY <1>1, <1>2, <1>3 DEF Counts

(* So does every step: room made is refilled, and no more than that. *)
LEMMA CountsStep ==
    ASSUME IInv, NEW t \in Threads, Step(t)
    PROVE  Counts'
<1>0. CountFacts(t)
  BY QcQueueAssumption, CountedNat
  DEF IInv, TypeOK, Locations, LimitKept, Control, CountersTrue, CountFacts
<1>1. ASSUME NEW why, Fails(why) PROVE Counts'
  BY <1>1 DEF Fails, queueVars, Counts, IInv, LimitKept, RefillAdmitsOne, PuttersWaitOnFull
<1> USE <1>0 DEF CountFacts, RefillLocations, LockedLocations
<1>a. quelock \in {None, t} => \A s \in Threads \ {t} : pc[s] \notin RefillLocations
  BY AloneRefilling
<1>b. quelock = None /\ putters.count > 0 => chain.count = Limit
  BY DEF IInv, PuttersWaitOnFull
<1>2. CASE GetPops(t) /\ ~Fails("pop")
  <2>1. /\ quelock = None /\ quelock' = t /\ putters' = putters
        /\ pc' = [pc EXCEPT ![t] = "refill"]
        /\ chain.count # 0
    BY <1>2 DEF GetPops, GoTo
  <2>2. chain'.count = chain.count - 1
    BY <1>2, ChainStep DEF ChainLoses
  <2> QED
    BY <1>a, <1>b, <2>1, <2>2 DEF Counts, LimitKept, RefillAdmitsOne, PuttersWaitOnFull
<1>3. CASE GetPopsPutter(t) /\ ~Fails("freed") /\ ~Fails("pop_putter")
  <2>1. /\ pc[t] = "refill" /\ chain' = chain /\ quelock' = quelock
        /\ pc' = [pc EXCEPT ![t] = "lock_putter"]
        /\ putters.count # 0
    BY <1>3 DEF GetPopsPutter, GoTo, At, NoPutterListed
  <2>2. PICK r \in Pops(putters) : putters' = r.rest
    BY <1>3 DEF GetPopsPutter
  <2>3. putters'.count = putters.count - 1
    BY <2>1, <2>2, PopsTyped DEF IInv, TypeOK
  <2>4. quelock = t
    BY <2>1
  <2>5. putters.count > 0 => chain.count = Limit - 1
    BY <2>1 DEF IInv, RefillAdmitsOne
  <2> QED
    BY <1>a, <2>1, <2>3, <2>4, <2>5 DEF Counts, LimitKept, RefillAdmitsOne, PuttersWaitOnFull
<1>4. CASE GetLocksPutter(t) /\ ~Fails("push")
  <2>1. /\ pc[t] = "lock_putter" /\ quelock' = quelock /\ putters' = putters
        /\ chain.count = Limit - 1
    BY <1>4 DEF GetLocksPutter, At, queueVars, IInv, RefillAdmitsOne
  <2>2. quelock = t
    BY <2>1
  <2>3. CASE Abandoned(obj[t])
    <3>1. chain' = chain /\ pc' = [pc EXCEPT ![t] = "skip_putter"]
      BY <1>4, <2>3 DEF GetLocksPutter, GoTo, queueVars
    <3> QED
      BY <1>a, <2>1, <2>2, <3>1 DEF Counts, LimitKept, RefillAdmitsOne, PuttersWaitOnFull
  <2>4. CASE ~Abandoned(obj[t])
    <3>1. chain'.count = Limit /\ pc' = [pc EXCEPT ![t] = "drop_putter"]
      BY <1>4, <2>1, <2>4, ChainStep DEF GetLocksPutter, GoTo, ChainGains
    <3> QED
      BY <1>a, <2>1, <2>2, <3>1 DEF Counts, LimitKept, RefillAdmitsOne, PuttersWaitOnFull
  <2> QED
    BY <2>3, <2>4
<1>5. CASE GetDropsPutter(t)
  <2>1. chain' = chain /\ putters' = putters
    BY <1>5 DEF GetDropsPutter
  <2>2. CASE pc[t] = "drop_putter"
    <3>1. chain.count = Limit /\ quelock = t /\ pc' = [pc EXCEPT ![t] = "idle"]
      BY <1>5, <2>2 DEF GetDropsPutter, GetReturns, Idle, IInv, RefillAdmitsOne
    <3> QED
      BY <1>a, <2>1, <3>1 DEF Counts, LimitKept, RefillAdmitsOne, PuttersWaitOnFull
  <2>3. CASE pc[t] = "skip_putter"
    <3>1. /\ chain.count = Limit - 1 /\ quelock = t /\ quelock' = quelock
          /\ pc' = [pc EXCEPT ![t] = "refill"]
      BY <1>5, <2>3 DEF GetDropsPutter, GoTo, IInv, RefillAdmitsOne
    <3> QED
      BY <1>a, <2>1, <3>1 DEF Counts, LimitKept, RefillAdmitsOne, PuttersWaitOnFull
  <2> QED
    BY <1>5, <2>2, <2>3 DEF GetDropsPutter, At
<1>6. CASE GetEnds(t)
  <2>1. /\ chain' = chain /\ putters' = putters /\ putters.count = 0 /\ quelock = t
        /\ pc' = [pc EXCEPT ![t] = "idle"]
    BY <1>6 DEF GetEnds, GetReturns, Idle, At, NoPutterListed
  <2> QED
    BY <1>a, <2>1 DEF Counts, LimitKept, RefillAdmitsOne, PuttersWaitOnFull
<1>7. CASE PutListsPutter(t)
  <2>1. /\ chain' = chain /\ chain.count = Limit /\ quelock = None
        /\ pc' = [pc EXCEPT ![t] = "put_sleep"]
    BY <1>7 DEF PutListsPutter, GoTo, ChainFull
  <2> QED
    BY <1>a, <2>1 DEF Counts, LimitKept, RefillAdmitsOne, PuttersWaitOnFull
<1>8. CASE PutPushes(t)
  <2>1. /\ quelock = None /\ putters' = putters /\ chain.count # Limit
        /\ pc' = [pc EXCEPT ![t] = "idle"]
    BY <1>8 DEF PutPushes, PutReturns, Idle, ChainFull
  <2>2. chain'.count = chain.count + 1
    BY <1>8, ChainStep DEF ChainGains
  <2> QED
    BY <1>a, <1>b, <2>1, <2>2 DEF Counts, LimitKept, RefillAdmitsOne, PuttersWaitOnFull
<1>9. ASSUME NEW m \in Messages, ForcePut(t, m) PROVE Counts'
  <2>1. quelock = None /\ putters' = putters /\ pc' = pc /\ pc[t] = "idle"
    BY <1>9 DEF ForcePut, At
  <2>2. \/ chain.count < Limit /\ chain'.count = chain.count + 1
        \/ chain'.count = chain.count
    BY <1>9, ChainStep DEF ChainGains, ChainSwaps
  <2> QED
    BY <1>a, <1>b, <2>1, <2>2 DEF Counts, LimitKept, RefillAdmitsOne, PuttersWaitOnFull
<1>10. ASSUME UNCHANGED chain, UNCHANGED putters \/ PutGivesUp(t),
              pc[t] \notin RefillLocations, pc'[t] \notin RefillLocations,
              quelock' = quelock \/ quelock = None \/ quelock = t
       PROVE  Counts'
  <2>1. CASE UNCHANGED putters
    BY <1>10, <2>1, PcStep, ElsewhereCounts DEF Elsewhere, PuttersLose, IInv, TypeOK, CountersTrue
  <2>2. CASE PutGivesUp(t)
    BY <1>10, <2>2, PcStep, UnlistPutterMoves, ElsewhereCounts
    DEF Elsewhere, PuttersLose, PutGivesUp, At
  <2> QED
    BY <1>10, <2>1, <2>2
<1>11. pc[t] \in Locations /\ t \in DOMAIN pc
  BY <1>0
<1> USE <1>11 DEF At, GoTo, Idle, PutReturns, GetReturns
<1>12. ASSUME NEW m \in Messages, PutCall(t, m) PROVE Counts'
  BY <1>10, <1>12 DEF PutCall, queueVars
<1>13. CASE PutPopsGetter(t)
  BY <1>1, <1>10, <1>13 DEF PutPopsGetter
<1>14. CASE PutLocksGetter(t) \/ PutHandsOver(t) \/ PutDropsGetter(t)
  BY <1>10, <1>14 DEF PutLocksGetter, PutHandsOver, PutDropsGetter, queueVars
<1>15. CASE PutSleeps(t) \/ PutWakes(t) \/ PutTimesOut(t) \/ PutGivesUp(t)
  BY <1>10, <1>15 DEF PutSleeps, Sleeps, PutWakes, PutLeaves, PutTimesOut, TimesOut,
     PutGivesUp, queueVars
<1>16. CASE GetListsGetter(t)
  BY <1>10, <1>16 DEF GetListsGetter
<1>17. CASE GetSleeps(t) \/ GetWakes(t) \/ GetTimesOut(t) \/ GetGivesUp(t)
  BY <1>1, <1>10, <1>17 DEF GetSleeps, Sleeps, GetWakes, GetLeaves, GetTimesOut, TimesOut,
     GetGivesUp, queueVars
<1>18. CASE Expires(t) \/ WakesUnprompted(t)
  BY <1>10, <1>18 DEF Expires, WakesUnprompted, queueVars
<1> QED
  BY <1>1, <1>2, <1>3, <1>4, <1>5, <1>6, <1>7, <1>8, <1>9, <1>12, <1>13, <1>14, <1>15, <1>16,
     <1>17, <1>18
  DEF Step, PutStep, GetStep, GetCall

-----------------------------------------------------------------------------
(* The remaining variables keep their types. *)

RestTyped ==
    /\ quelock \in Threads \cup {None}
    /\ temp \in Seq(Messages)
    /\ getters \in Seq(Waiters)
    /\ msg \in [Threads -> Messages \cup {None}]
    /\ failed \in {"none", "freed", "get", "pop", "pop_putter", "push"}
    /\ accepted \in SUBSET Messages
    /\ refused \in SUBSET Messages
    /\ delivered \in SUBSET Messages

(* The variables that no other lemma speaks of keep their types. *)
LEMMA RestStep ==
    ASSUME IInv, NEW t \in Threads, Step(t)
    PROVE  RestTyped'
<1>0. RestTyped /\ waiter \in [Waiters -> WaiterObjects] /\ chain \in Chains(Messages)
  BY DEF IInv, TypeOK, RestTyped
<1>a. pc[t] \in PutLocations \cup RefillLocations => msg[t] \in Messages
  BY ThreadFacts
<1> USE <1>0, <1>a DEF RestTyped, At, GoTo, Idle, PutReturns, GetReturns, queueVars, historyVars
<1>1. ASSUME NEW why \in {"freed", "get", "pop", "pop_putter", "push"}, Fails(why)
      PROVE  RestTyped'
  BY <1>1 DEF Fails
<1>2. ASSUME NEW m \in Messages, PutCall(t, m)
      PROVE  RestTyped'
  BY <1>2 DEF PutCall, Forgotten
<1>3. ASSUME NEW m \in Messages, ForcePut(t, m)
      PROVE  RestTyped'
  <2>1. ASSUME NEW r \in Evictions(chain) PROVE r.item \in Messages
    BY EvictionsTyped, MembersTyped
  <2> QED
    BY <1>3, <2>1 DEF ForcePut
<1>4. CASE PutPopsGetter(t)
  <2>1. Tail(getters) \in Seq(Waiters)
    BY <1>4, HeadTailProperties DEF PutPopsGetter, NoGetterListed
  <2> QED
    BY <1>1, <1>4, <2>1 DEF PutPopsGetter
<1>5. CASE PutPushes(t) \/ PutListsPutter(t)
  BY <1>5 DEF PutPushes, PutListsPutter, PutLocations
<1>6. CASE PutLocksGetter(t) \/ PutDropsGetter(t)
  BY <1>6 DEF PutLocksGetter, PutDropsGetter, QuelockUnlock, PutLocations
<1>7. CASE PutHandsOver(t)
  <2>1. Append(temp, msg[t]) \in Seq(Messages)
    BY <1>7, AppendProperties DEF PutHandsOver, PutLocations
  <2> QED
    BY <1>7, <2>1 DEF PutHandsOver, TempGiven
<1>8. CASE PutSleeps(t) \/ PutWakes(t) \/ PutTimesOut(t) \/ PutGivesUp(t)
  BY <1>8 DEF PutSleeps, Sleeps, PutWakes, PutLeaves, PutTimesOut, TimesOut, PutGivesUp,
     PutLocations
<1>9. CASE GetListsGetter(t)
  <2>1. PICK w \in Available : getters' = Append(getters, w)
    BY <1>9 DEF GetListsGetter, GetterListed
  <2>2. getters' \in Seq(Waiters)
    BY <2>1, AppendProperties DEF Available
  <2> QED
    BY <1>9, <2>2 DEF GetListsGetter
<1>10. ASSUME GetLeaves(t) PROVE RestTyped'
  <2>1. temp # <<>> => Head(temp) \in Messages /\ Tail(temp) \in Seq(Messages)
    BY HeadTailProperties
  <2> QED
    BY <1>1, <1>10, <2>1 DEF GetLeaves, TempTaken
<1>11. CASE GetSleeps(t) \/ GetWakes(t)
  BY <1>10, <1>11 DEF GetSleeps, Sleeps, GetWakes
<1>12. CASE GetTimesOut(t)
  BY <1>12 DEF GetTimesOut, TimesOut
<1>13. CASE GetGivesUp(t)
  <2>1. ASSUME NEW i \in DOMAIN getters PROVE Without(getters, i) \in Seq(Waiters)
    BY <2>1, WithoutTyped, LenProperties
  <2>2. getters' \in Seq(Waiters)
    BY <1>13, <2>1 DEF GetGivesUp, UnlistGetter
  <2> QED
    BY <1>13, <2>2 DEF GetGivesUp
<1>14. CASE GetPops(t)
  <2>1. ASSUME NEW r \in Pops(chain) PROVE r.item \in Messages
    BY <1>14, PoppedIsMessage DEF GetPops
  <2> QED
    BY <1>1, <1>14, <2>1 DEF GetPops
<1>15. CASE GetEnds(t) \/ GetPopsPutter(t) \/ GetLocksPutter(t)
  BY <1>1, <1>15 DEF GetEnds, GetPopsPutter, GetLocksPutter, QuelockUnlock, RefillLocations
<1>16. CASE GetDropsPutter(t)
  BY <1>16 DEF GetDropsPutter, QuelockUnlock, RefillLocations
<1>17. CASE Expires(t) \/ WakesUnprompted(t)
  BY <1>17 DEF Expires, WakesUnprompted
<1> QED
  BY <1>2, <1>3, <1>4, <1>5, <1>6, <1>7, <1>8, <1>9, <1>11, <1>12, <1>13, <1>14, <1>15, <1>16,
     <1>17
  DEF Step, PutStep, GetStep, GetCall

-----------------------------------------------------------------------------
(* The invariant, and what follows from it. *)

(* The invariant holds of a new queue. *)
LEMMA InitIInv == Init => IInv
<1> SUFFICES ASSUME Init PROVE IInv
  OBVIOUS
<1>0. None \notin Threads /\ None \notin Waiters /\ Limit \in Nat \ {0} /\ IsFiniteSet(Threads)
  BY QcQueueAssumption
<1>1. /\ EmptyChain \in Chains(Messages) /\ EmptyChain \in Chains(Waiters)
      /\ Members(EmptyChain) = {} /\ Counted(EmptyChain)
  BY EmptyChainTyped
<1>2. EmptyChain.count = 0
  BY DEF EmptyChain
<1>3. TypeOK
  BY <1>1, FreedTyped, EmptySeq DEF Init, EmptyGetters, EmptyPutters, TypeOK
<1>4. Control
  BY <1>0 DEF Init, Control, LockedLocations, PutLocations, RefillLocations, WaiterLocations
<1>5. ReferencesCounted
  <2>1. ASSUME NEW w \in Waiters PROVE Cardinality({t \in Threads : obj[t] = w}) = 0
    <3>1. {t \in Threads : obj[t] = w} = {}
      BY <1>0 DEF Init
    <3> QED
      BY <3>1, FS_EmptySet
  <2> QED
    BY <2>1, FreedTyped DEF Init, ReferencesCounted
<1>6. PuttersCarryMessages
  BY <1>1 DEF Init, EmptyPutters, PuttersCarryMessages, PutterLocations
<1>7. LimitKept /\ RefillAdmitsOne /\ PuttersWaitOnFull /\ CountersTrue
  BY <1>0, <1>1, <1>2
  DEF Init, EmptyPutters, LimitKept, RefillAdmitsOne, PuttersWaitOnFull, CountersTrue
<1> QED
  BY <1>3, <1>4, <1>5, <1>6, <1>7 DEF IInv

(* One step of one thread keeps it, *)
LEMMA StepIInv ==
    ASSUME IInv, NEW t \in Threads, Step(t)
    PROVE  IInv'
<1>1. WaiterMoves(t)
  BY WaiterStep
<1>2. obj' \in [Threads -> Waiters \cup {None}] /\ ReferencesCounted'
  BY <1>1, ReferencesStep
<1>3. Control'
  BY ControlStep
<1>4. PuttersCarryMessages'
  BY <1>1, <1>2, <1>3, CarryStep
<1>5. chain' \in Chains(Messages) /\ Counted(chain')
  <2>1. CASE UNCHANGED chain
    BY <2>1 DEF IInv, TypeOK, CountersTrue
  <2>2. CASE Fails("pop") \/ Fails("push")
    BY <2>2 DEF Fails, queueVars, IInv, TypeOK, CountersTrue
  <2>3. CASE ChainGains \/ ChainSwaps \/ ChainLoses
    BY <2>3 DEF ChainGains, ChainSwaps, ChainLoses
  <2>4. CASE GetLocksPutter(t) /\ ~Fails("push")
    <3>1. IF Abandoned(obj[t]) THEN UNCHANGED chain ELSE ChainGains
      BY <2>4, ChainStep
    <3> QED
      BY <2>1, <2>3, <3>1
  <2>5. CASE PutPushes(t) \/ (GetPops(t) /\ ~Fails("pop"))
    BY <2>3, <2>5, ChainStep
  <2>6. CASE \E m \in Messages : ForcePut(t, m)
    BY <2>3, <2>6, ChainStep
  <2>7. \/ UNCHANGED chain
        \/ PutPushes(t) \/ GetLocksPutter(t) \/ GetPops(t)
        \/ \E m \in Messages : ForcePut(t, m)
    BY ChainStep
  <2> QED
    BY <2>1, <2>2, <2>4, <2>5, <2>6, <2>7
<1>6. putters' \in Chains(Waiters) /\ Counted(putters')
  BY PuttersStep DEF PuttersLose, PuttersGain
<1>7. TypeOK'
  BY <1>1, <1>2, <1>5, <1>6, RestStep, PcStep DEF TypeOK, RestTyped, WaiterMoves, Locations
<1>8. Counts'
  BY CountsStep
<1> QED
  BY <1>2, <1>3, <1>4, <1>5, <1>6, <1>7, <1>8 DEF IInv, CountersTrue, Counts

(* and so does every step of the system. *)
LEMMA NextIInv == IInv /\ [Next]_vars => IInv'
<1>1. ASSUME IInv, Next PROVE IInv'
  BY <1>1, StepIInv DEF Next
<1>2. ASSUME IInv, UNCHANGED vars PROVE IInv'
  BY <1>2 DEF vars, IInv, TypeOK, Control, CountersTrue, ReferencesCounted, PuttersCarryMessages,
     LimitKept, RefillAdmitsOne, PuttersWaitOnFull
<1> QED
  BY <1>1, <1>2

(* The inductive invariant holds throughout: control, references, counts
   and types together, for every value of the constants. *)
THEOREM Invariant == Spec => []IInv
BY InitIInv, NextIInv, PTL DEF Spec

(* Type correctness, for every number of threads, messages and waiters, any*)
(* limit, and every kind of wait.                                          *)
THEOREM TypeCorrect == Spec => []TypeOK
<1>1. IInv => TypeOK
  BY DEF IInv
<1> QED
  BY <1>1, Invariant, PTL

(* The queue never holds more than its limit, and msgcount and the number  *)
(* of waiting putters, which the code keeps by hand, count what is there.  *)
THEOREM LimitHolds == Spec => [](LimitKept /\ CountersTrue)
<1>1. IInv => LimitKept /\ CountersTrue
  BY DEF IInv
<1> QED
  BY <1>1, Invariant, PTL

(* A waiter object is freed exactly when the last thread that works on it  *)
(* has dropped it: no thread ever holds a pointer to freed memory, however *)
(* pops, timeouts, rejected deadlines and spurious wakeups interleave.     *)
THEOREM ReferencesHold ==
    Spec => [](/\ ReferencesCounted
               /\ \A t \in Threads : obj[t] \in Waiters => waiter[obj[t]].ref > 0)
<1>1. IInv => /\ ReferencesCounted
              /\ \A t \in Threads : obj[t] \in Waiters => waiter[obj[t]].ref > 0
  BY HeldIsAlive DEF IInv
<1> QED
  BY <1>1, Invariant, PTL

(* No putter is kept waiting while there is room and nobody is admitting   *)
(* putters: a get that makes room always refills it or finds no putter.    *)
THEOREM PuttersWaitOnlyOnFull == Spec => []PuttersWaitOnFull
<1>1. IInv => PuttersWaitOnFull
  BY DEF IInv
<1> QED
  BY <1>1, Invariant, PTL

-----------------------------------------------------------------------------
(* Without force-puts, no getter sleeps while the chain has a message.     *)

RefillFindsNoGetter == \A t \in Threads : pc[t] \in RefillLocations => getters = <<>>
GettersInv == GettersWaitOnEmpty /\ RefillFindsNoGetter

(* Without force-puts every step keeps that no getter is listed beside a
   queued message, nor while a get refills the chain. *)
LEMMA GettersStep ==
    ASSUME Forcers = {}, IInv, GettersInv, NEW t \in Threads, Step(t)
    PROVE  GettersInv'
<1>0. CountFacts(t) /\ getters \in Seq(Waiters)
  BY QcQueueAssumption, CountedNat
  DEF IInv, TypeOK, Locations, LimitKept, Control, CountersTrue, CountFacts
<1>a. quelock = None => \A s \in Threads : pc[s] \notin RefillLocations
  BY <1>0 DEF CountFacts, LockedLocations
<1>b. pc[t] \in Locations /\ t \in DOMAIN pc /\ \A s \in Threads \ {t} : pc'[s] = pc[s]
  BY <1>0, PcStep DEF CountFacts
<1> USE DEF GettersInv, GettersWaitOnEmpty, RefillFindsNoGetter, RefillLocations, At, GoTo, Idle,
            PutReturns, GetReturns
(* Steps that leave both lists alone and enter no refill. *)
<1>1. ASSUME UNCHANGED <<chain, getters>>, pc'[t] \in RefillLocations => pc[t] \in RefillLocations
      PROVE  GettersInv'
  BY <1>1, <1>b
<1>2. ASSUME NEW why, Fails(why) PROVE GettersInv'
  BY <1>2 DEF Fails, queueVars
<1>3. ASSUME NEW m \in Messages, PutCall(t, m) \/ ForcePut(t, m) PROVE GettersInv'
  BY <1>1, <1>3, <1>b DEF PutCall, ForcePut, queueVars
<1>4. CASE PutPopsGetter(t)
  <2>1. CASE Fails("freed")
    BY <1>2, <2>1
  <2>2. CASE ~Fails("freed")
    <3>1. /\ quelock = None /\ getters # <<>> /\ chain' = chain
          /\ pc' = [pc EXCEPT ![t] = "lock_getter"]
      BY <1>4, <2>2 DEF PutPopsGetter, NoGetterListed
    <3> QED
      BY <1>a, <1>b, <3>1
  <2> QED
    BY <2>1, <2>2
<1>5. CASE PutPushes(t)
  <2>1. getters = <<>> /\ getters' = getters
    BY <1>5 DEF PutPushes, NoGetterListed
  <2> QED
    BY <2>1
<1>6. CASE PutListsPutter(t) \/ PutLocksGetter(t) \/ PutHandsOver(t) \/ PutDropsGetter(t)
  BY <1>1, <1>6, <1>b
  DEF PutListsPutter, PutLocksGetter, PutHandsOver, PutDropsGetter, queueVars
<1>7. CASE PutSleeps(t) \/ PutWakes(t) \/ PutTimesOut(t) \/ PutGivesUp(t)
  BY <1>1, <1>7, <1>b
  DEF PutSleeps, Sleeps, PutWakes, PutLeaves, PutTimesOut, TimesOut, PutGivesUp, queueVars
<1>8. CASE GetListsGetter(t)
  <2>1. quelock = None /\ chain.count = 0 /\ chain' = chain /\ pc' = [pc EXCEPT ![t] = "get_sleep"]
    BY <1>8 DEF GetListsGetter
  <2> QED
    BY <1>a, <1>b, <2>1
<1>9. CASE GetSleeps(t) \/ GetWakes(t) \/ GetTimesOut(t)
  BY <1>1, <1>2, <1>9, <1>b
  DEF GetSleeps, Sleeps, GetWakes, GetLeaves, GetTimesOut, TimesOut, queueVars
<1>10. CASE GetGivesUp(t)
  <2>1. chain' = chain /\ pc' = [pc EXCEPT ![t] = "idle"]
    BY <1>10 DEF GetGivesUp
  <2>2. getters = <<>> => getters' = getters
    BY <1>10 DEF GetGivesUp, UnlistGetter
  <2> QED
    BY <1>b, <2>1, <2>2
<1>11. CASE GetPops(t)
  <2>1. CASE Fails("pop")
    BY <1>2, <2>1
  <2>2. CASE ~Fails("pop")
    <3>1. getters' = getters /\ getters = <<>>
      BY <1>11, <2>2 DEF GetPops
    <3> QED
      BY <3>1
  <2> QED
    BY <2>1, <2>2
<1>12. CASE GetEnds(t) \/ GetPopsPutter(t) \/ GetDropsPutter(t)
  BY <1>1, <1>2, <1>12, <1>b DEF GetEnds, GetPopsPutter, GetDropsPutter
<1>13. CASE GetLocksPutter(t)
  <2>1. getters = <<>> /\ getters' = getters
    BY <1>13 DEF GetLocksPutter, Fails, queueVars
  <2> QED
    BY <2>1
<1>14. CASE Expires(t) \/ WakesUnprompted(t)
  BY <1>1, <1>14 DEF Expires, WakesUnprompted, queueVars
<1> QED
  BY <1>3, <1>4, <1>5, <1>6, <1>7, <1>8, <1>9, <1>10, <1>11, <1>12, <1>13, <1>14
  DEF Step, PutStep, GetStep, GetCall

(* A waiting getter means an empty chain, as the comment in qc_queue_msgget*)
(* has it, in every system whose threads make no force-puts.               *)
THEOREM GettersWaitOnlyOnEmpty ==
    ASSUME Forcers = {}
    PROVE  Spec => []GettersWaitOnEmpty
<1>1. Init => GettersInv
  BY DEF Init, EmptyGetters, GettersInv, GettersWaitOnEmpty, RefillFindsNoGetter
<1>2. GettersInv /\ IInv /\ [Next]_vars => GettersInv'
  <2>1. ASSUME GettersInv, IInv, Next PROVE GettersInv'
    BY <2>1, GettersStep DEF Next
  <2>2. ASSUME GettersInv, UNCHANGED vars PROVE GettersInv'
    BY <2>2 DEF vars, GettersInv, GettersWaitOnEmpty, RefillFindsNoGetter
  <2> QED
    BY <2>1, <2>2
<1>3. GettersInv => GettersWaitOnEmpty
  BY DEF GettersInv
<1> QED
  BY <1>1, <1>2, <1>3, Invariant, PTL DEF Spec

-----------------------------------------------------------------------------
(***************************************************************************)
(* What the threads of a queue owe each other, proved for any number of    *)
(* threads, messages, waiters and priorities and any limit, when a wait    *)
(* ends only by its signal or at its deadline: a getter that was signalled *)
(* finds a message, a message is in one place until it is delivered, and no*)
(* assertion but that of the pop search fails, nor does that one when the  *)
(* messages have few priorities.                                           *)
(*                                                                         *)
(* All rest on Sleepers: what a waiter object looks like to its owner and  *)
(* to the thread that popped it, and that a listed waiter has an owner that*)
(* still waits.                                                            *)
(***************************************************************************)

(* No wait returns unprompted, and every deadline is one that              *)
(* pthread_cond_timedwait accepts (see the runs any_live and deadline for  *)
(* what happens otherwise).                                                *)
ExactWaits == ~SpuriousWakeups /\ "carry" \notin Waits

(* The points of a call at which a thread works on a waiter of its own, ... *)
PutterSleeps   == {"put_sleep", "put_wait", "put_expired"}
GetterSleeps   == {"get_sleep", "get_wait", "get_expired"}
OwnerLocations == PutterSleeps \cup GetterSleeps
(* ... and on one it popped from a list.                                   *)
GetterPoppers  == {"lock_getter", "hand_over", "drop_getter", "skip_getter"}
PutterPoppers  == {"lock_putter", "skip_putter", "drop_putter"}

(* A waiter o as its owner s, at point l with message m, knows it.         *)
OwnerStands(l, s, o, m) ==
    /\ l \in {"put_sleep", "get_sleep"} => o.condlock = s /\ o.cond = "none"
    /\ l \in {"put_wait", "get_wait"} => o.cond \in {"waiting", "signalled", "expired"}
    /\ l \in {"put_expired", "get_expired"} => o.cond = "expired"
    /\ o.timedout <=> l \in {"put_expired", "get_expired"}
    /\ o.message = IF l \in PutterSleeps THEN m ELSE None
    /\ o.wait \in Waits
    /\ o.cond = "expired" => o.wait = "timed"

(* The waiter o that the thread s, at point l, popped.                     *)
PopperStands(l, s, o) ==
    /\ l \in GetterPoppers => o.message = None
    /\ l = "hand_over" => o.condlock = s

OneOwner == \A s, u \in Threads :
    pc[s] \in OwnerLocations /\ pc[u] \in OwnerLocations /\ obj[s] = obj[u] => s = u

OwnersStand == \A s \in Threads :
    pc[s] \in OwnerLocations => OwnerStands(pc[s], s, waiter[obj[s]], msg[s])

PoppersStand == \A s \in Threads :
    pc[s] \in GetterPoppers \cup PutterPoppers =>
        PopperStands(pc[s], s, waiter[obj[s]]) /\ obj[s] \notin Listed

(* The owner of w is at one of the points sleeps, and not signalled.       *)
Awaited(w, sleeps) == \E s \in Threads :
    pc[s] \in sleeps /\ obj[s] = w /\ waiter[w].cond # "signalled"

GettersListed ==
    /\ IsInjective(getters)
    /\ \A w \in Range(getters) : Awaited(w, GetterSleeps)

PuttersListed ==
    /\ Kept(Waiters, putters)
    /\ \A w \in Members(putters) : Awaited(w, PutterSleeps)

Sleepers == OneOwner /\ OwnersStand /\ PoppersStand /\ GettersListed /\ PuttersListed

-----------------------------------------------------------------------------
(* The ways a step of thread t moves its pc, its pointer, the waiters and  *)
(* the lists of waiters.  Every step is one of them (StepMoves); msg is    *)
(* named where t owns a waiter afterwards.                                 *)

SameLists == getters' = getters /\ putters' = putters

Halts == UNCHANGED <<pc, obj, msg, waiter, getters, putters>>

Passes(t) ==
    /\ pc[t] \notin WaiterLocations /\ pc'[t] \notin WaiterLocations
    /\ obj' = obj /\ waiter' = waiter /\ SameLists
    /\ pc'[t] = "put_loop" => \E m \in Messages : PutCall(t, m)

ListsGetter(t) == \E w \in Available, kind \in Waits :
    /\ pc[t] \notin WaiterLocations /\ pc'[t] = "get_sleep"
    /\ obj'[t] = w /\ waiter' = [waiter EXCEPT ![w] = Created(t, kind, None)]
    /\ getters' = Append(getters, w) /\ putters' = putters

ListsPutter(t) == \E w \in Available, kind \in Waits, p \in Prios :
    /\ pc[t] = "put_loop" /\ pc'[t] = "put_sleep"
    /\ obj'[t] = w /\ waiter' = [waiter EXCEPT ![w] = Created(t, kind, msg[t])]
    /\ msg' = msg
    /\ putters' = Pushed(putters, p, w) /\ getters' = getters

PopsGetter(t) ==
    /\ pc[t] = "put_loop" /\ pc'[t] = "lock_getter"
    /\ getters # <<>>
    /\ obj'[t] = Head(getters) /\ waiter' = Referenced(Head(getters))
    /\ getters' = Tail(getters) /\ putters' = putters /\ msg' = msg

PopsPutter(t) == putters.count # 0 /\ \E r \in Pops(putters) :
    /\ pc[t] \notin WaiterLocations /\ pc'[t] = "lock_putter"
    /\ obj'[t] = r.item /\ waiter' = Referenced(r.item)
    /\ putters' = r.rest /\ getters' = getters /\ msg' = msg

LocksGetter(t) ==
    /\ pc[t] = "lock_getter" /\ pc'[t] = "hand_over"
    /\ waiter[obj[t]].condlock = None
    /\ obj' = obj /\ waiter' = [waiter EXCEPT ![obj[t]].condlock = t]
    /\ msg' = msg /\ SameLists

Skips(t) ==
    /\ \/ pc[t] = "lock_getter" /\ pc'[t] = "skip_getter"
       \/ pc[t] = "lock_putter" /\ pc'[t] = "skip_putter"
    /\ obj' = obj /\ waiter' = waiter
    /\ msg' = msg /\ SameLists

Signals(t) ==
    /\ \/ pc[t] = "hand_over" /\ pc'[t] = "drop_getter"
       \/ /\ pc[t] = "lock_putter" /\ pc'[t] = "drop_putter"
          /\ waiter[obj[t]].condlock = None
    /\ obj' = obj /\ waiter' = [waiter EXCEPT ![obj[t]] = Signalled(@)]
    /\ msg' = msg /\ SameLists

DropsPopped(t) ==
    /\ pc[t] \in {"drop_getter", "skip_getter", "drop_putter", "skip_putter"}
    /\ pc'[t] \notin WaiterLocations
    /\ pc'[t] = "put_loop" => pc[t] = "skip_getter" /\ msg' = msg
    /\ obj'[t] = None /\ waiter' = Unref(obj[t]) /\ SameLists

FallsAsleep(t) ==
    /\ \/ pc[t] = "put_sleep" /\ pc'[t] = "put_wait"
       \/ pc[t] = "get_sleep" /\ pc'[t] = "get_wait"
    /\ obj' = obj /\ waiter' = [waiter EXCEPT ![obj[t]] = Asleep(@)]
    /\ msg' = msg /\ SameLists

Misses(t) ==                                       \* ... its deadline
    /\ pc[t] \in {"put_wait", "get_wait"} /\ pc' = pc
    /\ waiter[obj[t]].cond = "waiting" /\ waiter[obj[t]].wait = "timed"
    /\ obj' = obj /\ waiter' = [waiter EXCEPT ![obj[t]].cond = "expired"]
    /\ msg' = msg /\ SameLists

Abandons(t) ==
    /\ \/ pc[t] = "put_wait" /\ pc'[t] = "put_expired"
       \/ pc[t] = "get_wait" /\ pc'[t] = "get_expired"
    /\ waiter[obj[t]].cond = "expired"
    /\ obj' = obj /\ waiter' = [waiter EXCEPT ![obj[t]].timedout = TRUE]
    /\ msg' = msg /\ SameLists

Wakes(t) ==
    /\ pc[t] \in {"put_wait", "get_wait"} /\ pc'[t] = "idle"
    /\ waiter[obj[t]].cond = "signalled" /\ waiter[obj[t]].condlock = None
    /\ obj'[t] = None /\ waiter' = Left(obj[t]) /\ SameLists

GivesUp(t) ==
    /\ pc'[t] = "idle" /\ obj'[t] = None /\ waiter' = Unref(obj[t])
    /\ \/ pc[t] = "get_expired" /\ UnlistGetter(obj[t]) /\ putters' = putters
       \/ /\ pc[t] = "put_expired" /\ getters' = getters
          /\ \/ obj[t] \notin Members(putters) /\ putters' = putters
             \/ \E p \in Prios : putters' \in Removals(putters, p, obj[t])

Moves(t) ==
    \/ Halts \/ Passes(t) \/ ListsGetter(t) \/ ListsPutter(t) \/ PopsGetter(t) \/ PopsPutter(t)
    \/ LocksGetter(t) \/ Skips(t) \/ Signals(t) \/ DropsPopped(t)
    \/ FallsAsleep(t) \/ Misses(t) \/ Abandons(t) \/ Wakes(t) \/ GivesUp(t)

(* A step is of its thread only. *)
LEMMA OthersStand ==
    ASSUME IInv, NEW t \in Threads, Step(t), NEW s \in Threads \ {t}
    PROVE  pc'[s] = pc[s] /\ obj'[s] = obj[s] /\ msg'[s] = msg[s]
<1>1. pc'[s] = pc[s]
  BY PcStep
<1>2. obj'[s] = obj[s]
  BY WaiterStep DEF WaiterMoves, Holds, Takes, LetsGo, IInv, TypeOK
<1>3. msg'[s] = msg[s]
  <2>0. msg \in [Threads -> Messages \cup {None}] /\ s # t
    BY DEF IInv, TypeOK
  <2> USE <2>0 DEF Idle, PutReturns, GetReturns
  <2>1. ASSUME NEW m \in Messages, PutCall(t, m) \/ ForcePut(t, m)
        PROVE  msg'[s] = msg[s]
    BY <2>1 DEF PutCall, ForcePut
  <2>2. ASSUME PutStep(t) PROVE msg'[s] = msg[s]
    BY <2>2 DEF PutStep, PutPopsGetter, PutPushes, PutListsPutter, PutLocksGetter, PutHandsOver,
       PutDropsGetter, PutSleeps, Sleeps, PutLeaves, PutWakes, PutTimesOut, TimesOut, PutGivesUp,
       Fails
  <2>3. ASSUME GetStep(t) PROVE msg'[s] = msg[s]
    BY <2>3 DEF GetStep, GetSleeps, Sleeps, GetWakes, GetLeaves, GetTimesOut, TimesOut, GetGivesUp,
       GetEnds, GetPopsPutter, GetLocksPutter, GetDropsPutter, Fails
  <2>4. ASSUME GetCall(t) \/ Expires(t) \/ WakesUnprompted(t) PROVE msg'[s] = msg[s]
    BY <2>4 DEF GetCall, GetListsGetter, GetPops, Expires, WakesUnprompted, Fails
  <2> QED
    BY <2>1, <2>2, <2>3, <2>4 DEF Step
<1> QED
  BY <1>1, <1>2, <1>3

(* Every step of t is one of the moves. *)
LEMMA StepMoves ==
    ASSUME IInv, OwnersStand, ExactWaits, NEW t \in Threads, Step(t)
    PROVE  Moves(t)
<1>0. /\ pc \in [Threads -> Locations] /\ obj \in [Threads -> Waiters \cup {None}]
      /\ (pc[t] \notin WaiterLocations => obj[t] = None)
  BY ThreadFacts DEF IInv, TypeOK, Locations
<1>a. ~DeadlineRejected(t) \/ pc[t] \notin OwnerLocations
  BY DEF DeadlineRejected, OwnersStand, OwnerStands, ExactWaits
<1>b. ~("spurious" = waiter[obj[t]].cond /\ pc[t] \in {"put_wait", "get_wait"})
  BY DEF OwnersStand, OwnerStands, OwnerLocations, PutterSleeps, GetterSleeps
<1> USE DEF At, GoTo
<1>1. ASSUME NEW why, Fails(why) PROVE Moves(t)
  BY <1>1 DEF Fails, queueVars, Halts, Moves
<1>2. ASSUME NEW m \in Messages, PutCall(t, m) \/ ForcePut(t, m)
      PROVE  Moves(t)
  <2>1. Passes(t)
    BY <1>0, <1>2 DEF PutCall, ForcePut, Passes, SameLists, queueVars, WaiterLocations
  <2> QED
    BY <2>1 DEF Moves
<1>3. CASE PutPopsGetter(t)
  <2>1. CASE \E why : Fails(why)
    BY <1>1, <2>1
  <2>2. CASE ~\E why : Fails(why)
    <3>1. PopsGetter(t)
      BY <1>0, <1>3, <2>2 DEF PutPopsGetter, NoGetterListed, PopsGetter, WaiterLocations
    <3> QED
      BY <3>1 DEF Moves
  <2> QED
    BY <2>1, <2>2
<1>4. CASE PutPushes(t)
  <2>1. Passes(t)
    BY <1>0, <1>4 DEF PutPushes, PutReturns, Idle, Passes, SameLists, WaiterLocations
  <2> QED
    BY <2>1 DEF Moves
<1>5. CASE PutListsPutter(t)
  <2>1. PICK w \in Available, kind \in Waits :
          /\ waiter' = [waiter EXCEPT ![w] = Created(t, kind, msg[t])]
          /\ putters' = Pushed(putters, Prio[msg[t]], w)
          /\ obj' = [obj EXCEPT ![t] = w]
    BY <1>5 DEF PutListsPutter
  <2>2. /\ pc[t] = "put_loop" /\ pc' = [pc EXCEPT ![t] = "put_sleep"]
        /\ msg' = msg /\ getters' = getters
    BY <1>5 DEF PutListsPutter
  <2>3. Prio[msg[t]] \in Prios
    BY <2>2, ThreadFacts, QcQueueAssumption DEF PutLocations
  <2>4. ListsPutter(t)
    BY <1>0, <2>1, <2>2, <2>3 DEF ListsPutter, WaiterLocations
  <2> QED
    BY <2>4 DEF Moves
<1>6. CASE PutLocksGetter(t)
  <2>1. LocksGetter(t) \/ Skips(t)
    BY <1>0, <1>6 DEF PutLocksGetter, LocksGetter, Skips, SameLists
  <2> QED
    BY <2>1 DEF Moves
<1>7. CASE PutHandsOver(t)
  <2>1. Signals(t)
    BY <1>0, <1>7 DEF PutHandsOver, Signals, SameLists
  <2> QED
    BY <2>1 DEF Moves
<1>8. CASE PutDropsGetter(t)
  <2>1. DropsPopped(t)
    BY <1>0, <1>8 DEF PutDropsGetter, PutReturns, Idle, DropsPopped, SameLists, queueVars,
       WaiterLocations
  <2> QED
    BY <2>1 DEF Moves
<1>9. CASE PutSleeps(t)
  <2>1. FallsAsleep(t)
    BY <1>0, <1>9, <1>a DEF PutSleeps, Sleeps, FallsAsleep, SameLists, queueVars, OwnerLocations,
       PutterSleeps
  <2> QED
    BY <2>1 DEF Moves
<1>10. CASE PutWakes(t)
  <2>1. Wakes(t)
    BY <1>0, <1>10, <1>b DEF PutWakes, Awake, PutLeaves, PutReturns, Idle, Wakes, SameLists,
       queueVars, WaiterLocations
  <2> QED
    BY <2>1 DEF Moves
<1>11. CASE PutTimesOut(t) \/ GetTimesOut(t)
  <2>1. Abandons(t)
    BY <1>0, <1>11 DEF PutTimesOut, GetTimesOut, TimesOut, Awake, Abandons, SameLists, queueVars
  <2> QED
    BY <2>1 DEF Moves
<1>12. CASE PutGivesUp(t)
  <2>1. pc[t] = "put_expired" /\ UnlistPutter(obj[t]) /\ waiter' = Unref(obj[t])
        /\ pc'[t] = "idle" /\ obj'[t] = None /\ getters' = getters
    BY <1>0, <1>12 DEF PutGivesUp, Idle
  <2>2. Prio[waiter[obj[t]].message] \in Prios
    BY <2>1, QcQueueAssumption DEF IInv, PuttersCarryMessages, PutterLocations
  <2>3. GivesUp(t)
    BY <2>1, <2>2 DEF GivesUp, UnlistPutter, WaiterLocations
  <2> QED
    BY <2>3 DEF Moves
<1>13. CASE GetListsGetter(t)
  <2>1. ListsGetter(t)
    BY <1>0, <1>13 DEF GetListsGetter, GetterCreated, GetterListed, ListsGetter, WaiterLocations
  <2> QED
    BY <2>1 DEF Moves
<1>14. CASE GetPops(t)
  <2>1. CASE \E why : Fails(why)
    BY <1>1, <2>1
  <2>2. CASE ~\E why : Fails(why)
    <3>1. Passes(t)
      BY <1>0, <1>14, <2>2 DEF GetPops, Passes, SameLists, WaiterLocations
    <3> QED
      BY <3>1 DEF Moves
  <2> QED
    BY <2>1, <2>2
<1>15. CASE GetSleeps(t)
  <2>1. FallsAsleep(t)
    BY <1>0, <1>15, <1>a DEF GetSleeps, Sleeps, FallsAsleep, SameLists, queueVars, OwnerLocations,
       GetterSleeps
  <2> QED
    BY <2>1 DEF Moves
<1>16. CASE GetWakes(t)
  <2>1. CASE \E why : Fails(why)
    BY <1>1, <2>1
  <2>2. CASE ~\E why : Fails(why)
    <3>1. Wakes(t)
      BY <1>0, <1>16, <1>b, <2>2 DEF GetWakes, Awake, GetLeaves, GetReturns, Idle, Wakes,
         SameLists, WaiterLocations
    <3> QED
      BY <3>1 DEF Moves
  <2> QED
    BY <2>1, <2>2
<1>17. CASE GetGivesUp(t)
  <2>1. GivesUp(t)
    BY <1>0, <1>17 DEF GetGivesUp, Idle, GivesUp, WaiterLocations
  <2> QED
    BY <2>1 DEF Moves
<1>18. CASE GetEnds(t)
  <2>1. Passes(t)
    BY <1>0, <1>18 DEF GetEnds, GetReturns, Idle, Passes, SameLists, WaiterLocations
  <2> QED
    BY <2>1 DEF Moves
<1>19. CASE GetPopsPutter(t)
  <2>1. CASE \E why : Fails(why)
    BY <1>1, <2>1
  <2>2. CASE ~\E why : Fails(why)
    <3>1. PopsPutter(t)
      BY <1>0, <1>19, <2>2 DEF GetPopsPutter, NoPutterListed, PopsPutter, WaiterLocations
    <3> QED
      BY <3>1 DEF Moves
  <2> QED
    BY <2>1, <2>2
<1>20. CASE GetLocksPutter(t)
  <2>1. CASE \E why : Fails(why)
    BY <1>1, <2>1
  <2>2. CASE ~\E why : Fails(why)
    <3>1. Skips(t) \/ Signals(t)
      BY <1>0, <1>20, <2>2 DEF GetLocksPutter, Skips, Signals, SameLists, queueVars
    <3> QED
      BY <3>1 DEF Moves
  <2> QED
    BY <2>1, <2>2
<1>21. CASE GetDropsPutter(t)
  <2>1. DropsPopped(t)
    BY <1>0, <1>21 DEF GetDropsPutter, GetReturns, Idle, DropsPopped, SameLists, WaiterLocations
  <2> QED
    BY <2>1 DEF Moves
<1>22. CASE Expires(t) \/ WakesUnprompted(t)
  <2>1. Misses(t)
    BY <1>22 DEF Expires, WakesUnprompted, ExactWaits, Misses, SameLists, queueVars
  <2> QED
    BY <2>1 DEF Moves
<1> QED
  BY <1>2, <1>3, <1>4, <1>5, <1>6, <1>7, <1>8, <1>9, <1>10, <1>11, <1>12, <1>13, <1>14, <1>15,
     <1>16, <1>17, <1>18, <1>19, <1>20, <1>21, <1>22
  DEF Step, PutStep, GetStep, GetCall

-----------------------------------------------------------------------------
(* What the moves do to the fields of a waiter. *)

SameWait(o, n) ==
    /\ n.condlock = o.condlock /\ n.cond = o.cond /\ n.timedout = o.timedout
    /\ n.wait = o.wait /\ n.message = o.message

(* A reference more leaves the wait alone, *)
LEMMA ReferencedWait ==
    ASSUME NEW o \in WaiterObjects
    PROVE  SameWait(o, [o EXCEPT !.ref = @ + 1])
BY DEF SameWait, WaiterObjects

(* and so does one less, unless it is the last. *)
LEMMA DroppedWait ==
    ASSUME NEW o \in WaiterObjects, o.ref # 1
    PROVE  SameWait(o, Dropped(o))
BY DEF SameWait, Dropped, WaiterObjects

(* Unlocking what is not locked changes nothing. *)
LEMMA UnlockedWait ==
    ASSUME NEW o \in WaiterObjects, o.condlock = None
    PROVE  SameWait(o, Unlocked(o)) /\ Unlocked(o).ref = o.ref
BY DEF SameWait, Unlocked, WaiterObjects

(* The fields after each of the other moves. *)
LEMMA SignalledFields ==
    ASSUME NEW o \in WaiterObjects
    PROVE  /\ Signalled(o).condlock = None
           /\ Signalled(o).cond = IF o.cond = "waiting" THEN "signalled" ELSE o.cond
           /\ Signalled(o).timedout = o.timedout
           /\ Signalled(o).wait = o.wait /\ Signalled(o).message = o.message
<1>1. CASE o.cond = "waiting"
  BY <1>1 DEF Signalled, Prompted, Unlocked, WaiterObjects
<1>2. CASE o.cond # "waiting"
  BY <1>2 DEF Signalled, Prompted, Unlocked, WaiterObjects
<1> QED
  BY <1>1, <1>2

LEMMA AsleepFields ==
    ASSUME NEW o \in WaiterObjects
    PROVE  /\ Asleep(o).condlock = None /\ Asleep(o).cond = "waiting"
           /\ Asleep(o).timedout = o.timedout
           /\ Asleep(o).wait = o.wait /\ Asleep(o).message = o.message
BY DEF Asleep, Unlocked, WaiterObjects

(* A waiter with two threads working on it is not at its last reference. *)
LEMMA SharedIsKept ==
    ASSUME IInv, NEW s \in Threads, NEW t \in Threads, s # t,
           obj[t] \in Waiters, obj[s] = obj[t]
    PROVE  waiter[obj[t]].ref # 1
<1>1. IsFiniteSet(Threads)
  BY QcQueueAssumption
<1>2. IsFiniteSet(Holders(obj, obj[t])) /\ {s, t} \subseteq Holders(obj, obj[t])
  BY <1>1, FS_Subset DEF Holders
<1>3. Cardinality(Holders(obj, obj[t])) # 1
  BY <1>2, FS_Singleton
<1> QED
  BY <1>3 DEF IInv, ReferencesCounted, Holders

(* A step of t changes the wait of a waiter another thread works on only if*)
(* t works on it as well, in five ways.                                    *)
LEMMA WaitMoves ==
    ASSUME IInv, NEW t \in Threads, Moves(t), NEW s \in Threads \ {t}, pc[s] \in WaiterLocations
    PROVE  \/ SameWait(waiter[obj[s]], waiter'[obj[s]])
           \/ /\ obj[t] = obj[s]
              /\ LocksGetter(t) \/ Signals(t) \/ FallsAsleep(t) \/ Misses(t) \/ Abandons(t)
<1> DEFINE w == obj[s]
<1>1. /\ w \in Waiters /\ waiter[w] \in WaiterObjects /\ waiter[w].ref \in Nat \ {0}
      /\ waiter \in [Waiters -> WaiterObjects]
  BY ThreadFacts
<1>2. waiter'[w] = waiter[w] => SameWait(waiter[w], waiter'[w])
  BY DEF SameWait
<1>3. ASSUME NEW v, waiter' = [waiter EXCEPT ![v] = Dropped(waiter[v])],
             v = obj[t], obj[t] \in Waiters
      PROVE  SameWait(waiter[w], waiter'[w])
  <2>1. CASE v = w
    BY <1>1, <1>3, <2>1, SharedIsKept, DroppedWait
  <2>2. CASE v # w
    BY <1>1, <1>2, <1>3, <2>2
  <2> QED
    BY <2>1, <2>2
<1>4. CASE Halts \/ Passes(t) \/ Skips(t)
  BY <1>2, <1>4 DEF Halts, Passes, Skips
<1>5. CASE ListsGetter(t) \/ ListsPutter(t)
  <2>1. PICK v \in Available : \E o : waiter' = [waiter EXCEPT ![v] = o]
    BY <1>5 DEF ListsGetter, ListsPutter
  <2>2. v # w
    BY <1>1 DEF Available
  <2> QED
    BY <1>1, <1>2, <2>1, <2>2
<1>6. CASE PopsGetter(t) \/ PopsPutter(t)
  <2>1. PICK v : waiter' = [waiter EXCEPT ![v].ref = @ + 1]
    BY <1>6 DEF PopsGetter, PopsPutter, Referenced
  <2>2. CASE v = w
    BY <1>1, <2>1, <2>2, ReferencedWait
  <2>3. CASE v # w
    BY <1>1, <1>2, <2>1, <2>3
  <2> QED
    BY <2>2, <2>3
<1>7. CASE LocksGetter(t) \/ Signals(t) \/ FallsAsleep(t) \/ Misses(t) \/ Abandons(t)
  <2>1. CASE obj[t] = w
    BY <1>7, <2>1
  <2>2. CASE obj[t] # w
    BY <1>1, <1>2, <1>7, <2>2 DEF LocksGetter, Signals, FallsAsleep, Misses, Abandons
  <2> QED
    BY <2>1, <2>2
<1>8. CASE DropsPopped(t) \/ GivesUp(t)
  <2>1. obj[t] \in Waiters /\ waiter' = [waiter EXCEPT ![obj[t]] = Dropped(waiter[obj[t]])]
    BY <1>8, ThreadFacts DEF DropsPopped, GivesUp, Unref, WaiterLocations
  <2> QED
    BY <1>3, <2>1
<1>9. CASE Wakes(t)
  <2>1. /\ obj[t] \in Waiters /\ waiter[obj[t]] \in WaiterObjects
        /\ waiter' = [waiter EXCEPT ![obj[t]] = Dropped(Unlocked(waiter[obj[t]]))]
        /\ waiter[obj[t]].condlock = None
    BY <1>9, ThreadFacts DEF Wakes, Left, WaiterLocations
  <2>2. CASE obj[t] = w
    <3>1. /\ Unlocked(waiter[w]) \in WaiterObjects /\ SameWait(waiter[w], Unlocked(waiter[w]))
          /\ Unlocked(waiter[w]).ref # 1
      BY <2>1, <2>2, SharedIsKept, UnlockedWait, UnlockedTyped DEF SameHold
    <3>2. SameWait(Unlocked(waiter[w]), Dropped(Unlocked(waiter[w])))
      BY <3>1, DroppedWait
    <3>3. SameWait(waiter[w], Dropped(Unlocked(waiter[w])))
      BY <3>1, <3>2 DEF SameWait
    <3> QED
      BY <1>1, <2>1, <2>2, <3>3
  <2>3. CASE obj[t] # w
    BY <1>1, <1>2, <2>1, <2>3
  <2> QED
    BY <2>2, <2>3
<1> QED
  BY <1>4, <1>5, <1>6, <1>7, <1>8, <1>9 DEF Moves

-----------------------------------------------------------------------------
(* Sequences without repetitions. *)

LEMMA Appended ==
    ASSUME NEW S, NEW s \in Seq(S), NEW x \in S, IsInjective(s), x \notin Range(s)
    PROVE  /\ IsInjective(Append(s, x))
           /\ Range(Append(s, x)) = Range(s) \cup {x}
<1> DEFINE n == Len(s)
           u == Append(s, x)
<1>1. n \in Nat /\ DOMAIN s = 1..n
  BY LenProperties
<1>2. DOMAIN u = 1..(n + 1) /\ u[n + 1] = x /\ \A i \in 1..n : u[i] = s[i]
  BY <1>1, AppendProperties
<1> HIDE DEF n, u
<1>3. \A i \in 1..n : i \in 1..(n + 1) /\ i # n + 1
  BY <1>1
<1>4. \A i \in 1..(n + 1) : i \in 1..n \/ i = n + 1
  BY <1>1
<1>5. n + 1 \in 1..(n + 1)
  BY <1>1
<1>6. IsInjective(u)
  BY <1>1, <1>2, <1>3, <1>4 DEF IsInjective, Range
<1>7. Range(u) = Range(s) \cup {x}
  BY <1>1, <1>2, <1>3, <1>4, <1>5 DEF Range
<1> QED
  BY <1>6, <1>7 DEF u

LEMMA LeftOut ==
    ASSUME NEW S, NEW s \in Seq(S), NEW k \in DOMAIN s, IsInjective(s)
    PROVE  /\ IsInjective(Without(s, k))
           /\ Range(Without(s, k)) = Range(s) \ {s[k]}
<1> DEFINE n == Len(s)
           u == Without(s, k)
           at(i) == IF i < k THEN i ELSE i + 1
<1>1. n \in Nat /\ DOMAIN s = 1..n /\ k \in 1..n
  BY LenProperties
<1>2. DOMAIN u = 1..(n - 1) /\ \A i \in 1..(n - 1) : u[i] = s[at(i)]
  BY <1>1, WithoutAt
<1> HIDE DEF n, u
<1>3. \A i, j \in 1..(n - 1) : /\ at(i) \in 1..n /\ at(i) # k
                               /\ at(i) = at(j) => i = j
  BY <1>1
<1>4. \A j \in 1..n : j # k => \E i \in 1..(n - 1) : at(i) = j
  <2> SUFFICES ASSUME NEW j \in 1..n, j # k PROVE \E i \in 1..(n - 1) : at(i) = j
    OBVIOUS
  <2>1. CASE j < k
    BY <1>1, <2>1
  <2>2. CASE j > k
    <3>1. j - 1 \in 1..(n - 1) /\ at(j - 1) = j
      BY <1>1, <2>2
    <3> QED
      BY <3>1
  <2> QED
    BY <1>1, <2>1, <2>2
<1> HIDE DEF at
<1>5. IsInjective(u)
  BY <1>1, <1>2, <1>3 DEF IsInjective
<1>6. ASSUME NEW x \in Range(s), x # s[k] PROVE x \in Range(u)
  <2>1. PICK j \in 1..n : x = s[j] /\ j # k
    BY <1>1, <1>6 DEF Range
  <2>2. PICK i \in 1..(n - 1) : at(i) = j
    BY <1>4, <2>1
  <2> QED
    BY <1>2, <2>1, <2>2 DEF Range
<1>7. ASSUME NEW x \in Range(u) PROVE x \in Range(s) /\ x # s[k]
  <2>1. PICK i \in 1..(n - 1) : x = s[at(i)]
    BY <1>2, <1>7 DEF Range
  <2> QED
    BY <1>1, <1>3, <2>1 DEF Range, IsInjective
<1> QED
  BY <1>5, <1>6, <1>7 DEF u

LEMMA HeadLeftOut ==
    ASSUME NEW S, NEW s \in Seq(S), s # <<>>, IsInjective(s)
    PROVE  /\ Head(s) \in Range(s) /\ Head(s) \in S
           /\ IsInjective(Tail(s))
           /\ Range(Tail(s)) = Range(s) \ {Head(s)}
<1> DEFINE n == Len(s)
           u == Tail(s)
<1>1. n \in Nat \ {0} /\ DOMAIN s = 1..n
  BY LenProperties, EmptySeq
<1>2. Head(s) = s[1] /\ u \in Seq(S) /\ Len(u) = n - 1 /\ \A i \in 1..Len(u) : u[i] = s[i + 1]
  BY <1>1, HeadTailProperties
<1>3. DOMAIN u = 1..(n - 1)
  BY <1>2, LenProperties
<1> HIDE DEF n, u
<1>4. \A i \in 1..(n - 1) : i + 1 \in 1..n /\ i + 1 # 1 /\ i \in Int
  BY <1>1
<1>5. \A j \in 1..n : j # 1 => j - 1 \in 1..(n - 1) /\ (j - 1) + 1 = j
  BY <1>1
<1>6. 1 \in DOMAIN s
  BY <1>1
<1>7. s[1] \in Range(s) /\ s[1] \in S
  BY <1>1, <1>6, ElementOfSeq DEF Range
<1>8. IsInjective(u)
  <2>1. ASSUME NEW i \in 1..(n - 1), NEW j \in 1..(n - 1), u[i] = u[j] PROVE i = j
    <3>1. s[i + 1] = s[j + 1] /\ i + 1 \in DOMAIN s /\ j + 1 \in DOMAIN s
      BY <1>1, <1>2, <1>4, <2>1
    <3>2. i + 1 = j + 1
      BY <3>1 DEF IsInjective
    <3> QED
      BY <3>2
  <2> QED
    BY <1>3, <2>1 DEF IsInjective
<1>9. ASSUME NEW x \in Range(s), x # s[1] PROVE x \in Range(u)
  <2>1. PICK j \in 1..n : x = s[j] /\ j # 1
    BY <1>1, <1>9 DEF Range
  <2>2. j - 1 \in DOMAIN u /\ u[j - 1] = s[(j - 1) + 1] /\ (j - 1) + 1 = j
    BY <1>2, <1>3, <1>5, <2>1
  <2>3. x = u[j - 1]
    BY <2>1, <2>2
  <2> QED
    BY <2>2, <2>3 DEF Range
<1>10. ASSUME NEW x \in Range(u) PROVE x \in Range(s) /\ x # s[1]
  <2>1. PICK i \in 1..(n - 1) : x = u[i]
    BY <1>3, <1>10 DEF Range
  <2>2. x = s[i + 1] /\ i + 1 \in DOMAIN s /\ i + 1 # 1
    BY <1>1, <1>2, <1>3, <1>4, <2>1
  <2> QED
    BY <1>6, <2>2 DEF Range, IsInjective
<1> QED
  BY <1>2, <1>7, <1>8, <1>9, <1>10 DEF u

(* The members of a chain after a push. *)
LEMMA PushedMembers ==
    ASSUME NEW S, NEW b, Kept(S, b), NEW p \in Prios, NEW x \in S
    PROVE  Members(Pushed(b, p, x)) = Members(b) \cup {x}
BY PushedTyped DEF Kept

-----------------------------------------------------------------------------
(* The lists of waiters after each move: nothing listed twice, one entry   *)
(* more or one less.                                                       *)
ListsMove(t) ==
    /\ IsInjective(getters') /\ Kept(Waiters, putters')
    /\ \/ ListsGetter(t) /\ Range(getters') = Range(getters) \cup {obj'[t]} /\ putters' = putters
       \/ /\ ListsPutter(t) /\ getters' = getters
          /\ Members(putters') = Members(putters) \cup {obj'[t]}
       \/ /\ PopsGetter(t) /\ obj'[t] \in Range(getters) /\ putters' = putters
          /\ Range(getters') = Range(getters) \ {obj'[t]}
       \/ /\ PopsPutter(t) /\ obj'[t] \in Members(putters) /\ getters' = getters
          /\ Members(putters') = Members(putters) \ {obj'[t]}
       \/ /\ GivesUp(t) /\ pc[t] = "get_expired" /\ putters' = putters
          /\ Range(getters') = Range(getters) \ {obj[t]}
       \/ /\ GivesUp(t) /\ pc[t] = "put_expired" /\ getters' = getters
          /\ Members(putters') = Members(putters) \ {obj[t]}
       \/ /\ SameLists
          /\ ~(ListsGetter(t) \/ ListsPutter(t) \/ PopsGetter(t) \/ PopsPutter(t) \/ GivesUp(t))

(* Every move leaves the lists so. *)
LEMMA ListsStep ==
    ASSUME IInv, GettersListed, PuttersListed, NEW t \in Threads, Moves(t)
    PROVE  ListsMove(t)
<1>1. /\ getters \in Seq(Waiters) /\ IsInjective(getters) /\ Kept(Waiters, putters)
  BY DEF IInv, TypeOK, GettersListed, PuttersListed
<1>2. CASE ListsGetter(t)
  <2>1. PICK w \in Available : obj'[t] = w /\ getters' = Append(getters, w) /\ putters' = putters
    BY <1>2 DEF ListsGetter
  <2>2. w \in Waiters /\ w \notin Range(getters)
    BY DEF Available, Listed, Range
  <2> QED
    BY <1>1, <1>2, <2>1, <2>2, Appended DEF ListsMove
<1>3. CASE ListsPutter(t)
  <2>1. PICK w \in Available, p \in Prios :
           obj'[t] = w /\ putters' = Pushed(putters, p, w) /\ getters' = getters
    BY <1>3 DEF ListsPutter
  <2>2. w \in Waiters /\ w \notin Members(putters)
    BY DEF Available, Listed
  <2>3. Kept(Waiters, putters') /\ Members(putters') = Members(putters) \cup {w}
    BY <1>1, <2>1, <2>2, PushedKept, PushedMembers
  <2> QED
    BY <1>1, <1>3, <2>1, <2>3 DEF ListsMove
<1>4. CASE PopsGetter(t)
  <2>1. /\ getters # <<>> /\ obj'[t] = Head(getters) /\ getters' = Tail(getters)
        /\ putters' = putters
    BY <1>4 DEF PopsGetter
  <2>2. /\ IsInjective(getters') /\ obj'[t] \in Range(getters)
        /\ Range(getters') = Range(getters) \ {obj'[t]}
    BY <1>1, <2>1, HeadLeftOut
  <2> QED
    BY <1>1, <1>4, <2>1, <2>2 DEF ListsMove
<1>5. CASE PopsPutter(t)
  <2>1. PICK r \in Pops(putters) : /\ putters.count # 0
                                   /\ obj'[t] = r.item /\ putters' = r.rest /\ getters' = getters
    BY <1>5 DEF PopsPutter
  <2>2. /\ Kept(Waiters, r.rest) /\ r.item \in Members(putters)
        /\ Members(r.rest) = Members(putters) \ {r.item}
    BY <1>1, <2>1, PopsKept
  <2> QED
    BY <1>1, <1>5, <2>1, <2>2 DEF ListsMove
<1>6. CASE GivesUp(t)
  <2>1. CASE pc[t] = "get_expired"
    <3>1. UnlistGetter(obj[t]) /\ putters' = putters
      BY <1>6, <2>1 DEF GivesUp
    <3>2. CASE \E i \in DOMAIN getters : getters[i] = obj[t] /\ getters' = Without(getters, i)
      BY <1>1, <1>6, <2>1, <3>1, <3>2, LeftOut DEF ListsMove
    <3>3. CASE (\A i \in DOMAIN getters : getters[i] # obj[t]) /\ getters' = getters
      <4>1. Range(getters') = Range(getters) \ {obj[t]}
        BY <3>3 DEF Range
      <4> QED
        BY <1>1, <1>6, <2>1, <3>1, <3>3, <4>1 DEF ListsMove
    <3> QED
      BY <3>1, <3>2, <3>3 DEF UnlistGetter
  <2>2. CASE pc[t] = "put_expired"
    <3>1. /\ getters' = getters
          /\ \/ obj[t] \notin Members(putters) /\ putters' = putters
             \/ \E p \in Prios : putters' \in Removals(putters, p, obj[t])
      BY <1>6, <2>2 DEF GivesUp
    <3>2. Kept(Waiters, putters') /\ Members(putters') = Members(putters) \ {obj[t]}
      BY <1>1, <3>1, RemovalsKept
    <3> QED
      BY <1>1, <1>6, <2>2, <3>1, <3>2 DEF ListsMove
  <2> QED
    BY <1>6, <2>1, <2>2 DEF GivesUp
<1>7. CASE ~(ListsGetter(t) \/ ListsPutter(t) \/ PopsGetter(t) \/ PopsPutter(t) \/ GivesUp(t))
  <2>1. SameLists
    BY <1>7 DEF Moves, Halts, Passes, LocksGetter, Skips, Signals, DropsPopped, FallsAsleep, Misses,
       Abandons, Wakes, SameLists
  <2> QED
    BY <1>1, <1>7, <2>1 DEF ListsMove, SameLists
<1> QED
  BY <1>2, <1>3, <1>4, <1>5, <1>6, <1>7

-----------------------------------------------------------------------------
(* What each move keeps of Sleepers. *)

Others(t) == \A s \in Threads \ {t} :
    pc'[s] = pc[s] /\ obj'[s] = obj[s] /\ msg'[s] = msg[s]

(* A thread becomes an owner only by listing a waiter it created. *)
LEMMA BecomesOwner ==
    ASSUME NEW t \in Threads, Moves(t), pc'[t] \in OwnerLocations
    PROVE  \/ pc[t] \in OwnerLocations /\ obj'[t] = obj[t]
           \/ (ListsGetter(t) \/ ListsPutter(t)) /\ obj'[t] \in Available
<1> USE DEF OwnerLocations, PutterSleeps, GetterSleeps
<1>1. ASSUME ListsGetter(t) \/ ListsPutter(t) PROVE obj'[t] \in Available
  BY <1>1 DEF ListsGetter, ListsPutter
<1>2. CASE Halts \/ Passes(t)
  BY <1>2 DEF Halts, Passes, WaiterLocations
<1>3. CASE PopsGetter(t) \/ PopsPutter(t) \/ LocksGetter(t) \/ Skips(t) \/ Signals(t)
  BY <1>3 DEF PopsGetter, PopsPutter, LocksGetter, Skips, Signals
<1>4. CASE DropsPopped(t) \/ Wakes(t) \/ GivesUp(t)
  BY <1>4 DEF DropsPopped, Wakes, GivesUp, WaiterLocations
<1>5. CASE FallsAsleep(t) \/ Misses(t) \/ Abandons(t)
  BY <1>5 DEF FallsAsleep, Misses, Abandons
<1> QED
  BY <1>1, <1>2, <1>3, <1>4, <1>5 DEF Moves

(* What is created is nobody's yet. *)
LEMMA AvailableIsUnheld ==
    ASSUME IInv, NEW w \in Available, NEW s \in Threads, pc[s] \in WaiterLocations
    PROVE  obj[s] # w
BY ThreadFacts DEF Available

LEMMA OneOwnerStep ==
    ASSUME IInv, OneOwner, NEW t \in Threads, Moves(t), Others(t)
    PROVE  OneOwner'
<1>1. ASSUME NEW s \in Threads \ {t}, pc[s] \in OwnerLocations, pc'[t] \in OwnerLocations,
             obj[s] = obj'[t]
      PROVE  FALSE
  <2>1. CASE pc[t] \in OwnerLocations /\ obj'[t] = obj[t]
    BY <1>1, <2>1 DEF OneOwner
  <2>2. CASE obj'[t] \in Available
    <3>1. pc[s] \in WaiterLocations
      BY <1>1 DEF OwnerLocations, PutterSleeps, GetterSleeps, WaiterLocations
    <3> QED
      BY <1>1, <2>2, <3>1, AvailableIsUnheld
  <2> QED
    BY <1>1, <2>1, <2>2, BecomesOwner
<1> QED
  BY <1>1 DEF OneOwner, Others

LEMMA OwnersStep ==
    ASSUME IInv, Sleepers, NEW t \in Threads, Moves(t), Others(t)
    PROVE  OwnersStand'
<1>0. /\ None \notin Threads /\ waiter \in [Waiters -> WaiterObjects]
      /\ \A s \in Threads : pc[s] \in WaiterLocations =>
            obj[s] \in Waiters /\ waiter[obj[s]] \in WaiterObjects
  BY QcQueueAssumption, ThreadFacts
<1>a. OwnerLocations \subseteq WaiterLocations
  BY DEF OwnerLocations, PutterSleeps, GetterSleeps, WaiterLocations
<1>1. ASSUME NEW s \in Threads \ {t}, pc[s] \in OwnerLocations
      PROVE  OwnerStands(pc[s], s, waiter'[obj[s]], msg[s])
  <2> DEFINE o == waiter[obj[s]]
             n == waiter'[obj[s]]
  <2> SUFFICES OwnerStands(pc[s], s, n, msg[s])
    OBVIOUS
  <2>1. OwnerStands(pc[s], s, o, msg[s])
    BY <1>1 DEF Sleepers, OwnersStand
  <2>2. obj[s] \in Waiters /\ o \in WaiterObjects
    BY <1>0, <1>1, <1>a
  <2>3. CASE SameWait(o, n)
    BY <2>1, <2>3 DEF SameWait, OwnerStands
  <2>4. ASSUME obj[t] = obj[s] PROVE pc[t] \notin OwnerLocations
    BY <1>1, <2>4 DEF Sleepers, OneOwner
  <2>5. CASE obj[t] = obj[s] /\ LocksGetter(t)
    <3>1. o.condlock = None /\ n = [o EXCEPT !.condlock = t]
      BY <1>0, <2>2, <2>5 DEF LocksGetter
    <3>2. pc[s] \notin {"put_sleep", "get_sleep"}
      BY <1>0, <2>1, <3>1 DEF OwnerStands
    <3>3. /\ n.cond = o.cond /\ n.timedout = o.timedout
          /\ n.wait = o.wait /\ n.message = o.message
      BY <2>2, <3>1 DEF WaiterObjects
    <3> QED
      BY <2>1, <3>2, <3>3 DEF OwnerStands
  <2>6. CASE obj[t] = obj[s] /\ Signals(t)
    <3>1. o.condlock \in {None, t}
      <4>1. CASE pc[t] = "hand_over"
        BY <2>6, <4>1 DEF Sleepers, PoppersStand, PopperStands, GetterPoppers
      <4>2. CASE pc[t] # "hand_over"
        BY <2>6, <4>2 DEF Signals
      <4> QED
        BY <4>1, <4>2
    <3>2. n = Signalled(o)
      BY <1>0, <2>2, <2>6 DEF Signals
    <3>3. pc[s] \notin {"put_sleep", "get_sleep"}
      BY <1>0, <2>1, <3>1 DEF OwnerStands
    <3>4. /\ n.cond = (IF o.cond = "waiting" THEN "signalled" ELSE o.cond)
          /\ n.timedout = o.timedout
          /\ n.wait = o.wait /\ n.message = o.message
      BY <2>2, <3>2, SignalledFields
    <3> HIDE DEF o, n
    <3> QED
      BY <2>1, <3>3, <3>4 DEF OwnerStands
  <2>7. CASE obj[t] = obj[s] /\ (FallsAsleep(t) \/ Misses(t) \/ Abandons(t))
    BY <2>4, <2>7
    DEF FallsAsleep, Misses, Abandons, OwnerLocations, PutterSleeps, GetterSleeps
  <2>8. \/ SameWait(o, n)
        \/ /\ obj[t] = obj[s]
           /\ LocksGetter(t) \/ Signals(t) \/ FallsAsleep(t) \/ Misses(t) \/ Abandons(t)
    <3>1. pc[s] \in WaiterLocations
      BY <1>1, <1>a
    <3> QED
      BY <3>1, WaitMoves
  <2> HIDE DEF o, n
  <2> QED
    BY <2>3, <2>5, <2>6, <2>7, <2>8
<1>2. ASSUME pc'[t] \in OwnerLocations
      PROVE  OwnerStands(pc'[t], t, waiter'[obj'[t]], msg'[t])
  <2>1. CASE ListsGetter(t)
    <3>1. PICK w \in Available, kind \in Waits :
            /\ pc'[t] = "get_sleep" /\ obj'[t] = w
            /\ waiter' = [waiter EXCEPT ![w] = Created(t, kind, None)]
      BY <2>1 DEF ListsGetter
    <3>2. waiter'[w] = Created(t, kind, None)
      BY <1>0, <3>1 DEF Available
    <3> DEFINE n == Created(t, kind, None)
    <3>3. /\ n.condlock = t /\ n.cond = "none" /\ n.timedout = FALSE
          /\ n.wait = kind /\ n.message = None
      BY DEF Created, Freed
    <3> HIDE DEF n
    <3>4. OwnerStands("get_sleep", t, n, msg'[t])
      BY <3>3 DEF OwnerStands, PutterSleeps
    <3> QED
      BY <3>1, <3>2, <3>4 DEF n
  <2>2. CASE ListsPutter(t)
    <3>1. PICK w \in Available, kind \in Waits :
            /\ pc'[t] = "put_sleep" /\ obj'[t] = w /\ msg'[t] = msg[t]
            /\ waiter' = [waiter EXCEPT ![w] = Created(t, kind, msg[t])]
      BY <2>2 DEF ListsPutter
    <3>2. waiter'[w] = Created(t, kind, msg[t])
      BY <1>0, <3>1 DEF Available
    <3> DEFINE n == Created(t, kind, msg[t])
    <3>3. /\ n.condlock = t /\ n.cond = "none" /\ n.timedout = FALSE
          /\ n.wait = kind /\ n.message = msg[t]
      BY DEF Created, Freed
    <3> HIDE DEF n
    <3>4. OwnerStands("put_sleep", t, n, msg[t])
      BY <3>3 DEF OwnerStands, PutterSleeps
    <3> QED
      BY <3>1, <3>2, <3>4 DEF n
  <2>3. ASSUME pc[t] \in OwnerLocations, obj'[t] = obj[t]
        PROVE  OwnerStands(pc'[t], t, waiter'[obj'[t]], msg'[t])
    <3> DEFINE o == waiter[obj[t]]
               n == waiter'[obj[t]]
    <3>1. OwnerStands(pc[t], t, o, msg[t])
      BY <2>3 DEF Sleepers, OwnersStand
    <3>2. obj[t] \in Waiters /\ o \in WaiterObjects
      BY <1>0, <1>a, <2>3
    <3>3. CASE Halts
      BY <2>3, <3>1, <3>3 DEF Halts
    <3>4. CASE FallsAsleep(t)
      <4>1. n = Asleep(o) /\ msg'[t] = msg[t]
        BY <1>0, <3>2, <3>4 DEF FallsAsleep
      <4>2. /\ n.cond = "waiting" /\ n.timedout = o.timedout
            /\ n.wait = o.wait /\ n.message = o.message
        BY <3>2, <4>1, AsleepFields
      <4>3. \/ pc[t] = "put_sleep" /\ pc'[t] = "put_wait"
            \/ pc[t] = "get_sleep" /\ pc'[t] = "get_wait"
        BY <3>4 DEF FallsAsleep
      <4> HIDE DEF o, n
      <4>4. OwnerStands(pc'[t], t, n, msg[t])
        BY <3>1, <4>2, <4>3 DEF OwnerStands, PutterSleeps
      <4> QED
        BY <2>3, <4>1, <4>4 DEF n
    <3>5. CASE Misses(t)
      <4>1. /\ n = [o EXCEPT !.cond = "expired"] /\ msg'[t] = msg[t] /\ pc'[t] = pc[t]
            /\ pc[t] \in {"put_wait", "get_wait"} /\ o.wait = "timed"
        BY <1>0, <3>2, <3>5 DEF Misses
      <4>2. /\ n.cond = "expired" /\ n.timedout = o.timedout
            /\ n.wait = o.wait /\ n.message = o.message
        BY <3>2, <4>1 DEF WaiterObjects
      <4> HIDE DEF o, n
      <4>3. OwnerStands(pc'[t], t, n, msg[t])
        BY <3>1, <4>1, <4>2 DEF OwnerStands
      <4> QED
        BY <2>3, <4>1, <4>3 DEF n
    <3>6. CASE Abandons(t)
      <4>1. n = [o EXCEPT !.timedout = TRUE] /\ msg'[t] = msg[t] /\ o.cond = "expired"
        BY <1>0, <3>2, <3>6 DEF Abandons
      <4>2. /\ n.cond = "expired" /\ n.timedout = TRUE
            /\ n.wait = o.wait /\ n.message = o.message
        BY <3>2, <4>1 DEF WaiterObjects
      <4>3. \/ pc[t] = "put_wait" /\ pc'[t] = "put_expired"
            \/ pc[t] = "get_wait" /\ pc'[t] = "get_expired"
        BY <3>6 DEF Abandons
      <4> HIDE DEF o, n
      <4>4. OwnerStands(pc'[t], t, n, msg[t])
        BY <3>1, <4>1, <4>2, <4>3 DEF OwnerStands, PutterSleeps
      <4> QED
        BY <2>3, <4>1, <4>4 DEF n
    <3>7. Halts \/ FallsAsleep(t) \/ Misses(t) \/ Abandons(t)
      BY <1>2, <2>3 DEF Moves, Passes, ListsGetter, ListsPutter, PopsGetter, PopsPutter, LocksGetter,
         Skips, Signals, DropsPopped, Wakes, GivesUp, OwnerLocations, PutterSleeps, GetterSleeps,
         WaiterLocations
    <3> QED
      BY <3>3, <3>4, <3>5, <3>6, <3>7
  <2> QED
    BY <1>2, <2>1, <2>2, <2>3, BecomesOwner
<1> QED
  BY <1>1, <1>2 DEF OwnersStand, Others

(* No waiter is on both lists. *)
LEMMA ListsApart ==
    ASSUME Sleepers
    PROVE  Range(getters) \cap Members(putters) = {}
BY DEF Sleepers, GettersListed, PuttersListed, Awaited, OneOwner, OwnerLocations,
       PutterSleeps, GetterSleeps

(* A thread works on the waiter it popped. *)
LEMMA PoppersWaitStep ==
    ASSUME IInv, Sleepers, NEW t \in Threads, Moves(t), Others(t)
    PROVE  \A s \in Threads : pc'[s] \in GetterPoppers \cup PutterPoppers
                                => PopperStands(pc'[s], s, waiter'[obj'[s]])
<1>0. /\ None \notin Threads /\ waiter \in [Waiters -> WaiterObjects]
      /\ \A s \in Threads : pc[s] \in WaiterLocations =>
            obj[s] \in Waiters /\ waiter[obj[s]] \in WaiterObjects
  BY QcQueueAssumption, ThreadFacts
<1>a. GetterPoppers \cup PutterPoppers \subseteq WaiterLocations
  BY DEF GetterPoppers, PutterPoppers, WaiterLocations
<1>b. \A s \in Threads : pc[s] \in GetterPoppers \cup PutterPoppers
                           => PopperStands(pc[s], s, waiter[obj[s]])
  BY DEF Sleepers, PoppersStand
<1>1. ASSUME NEW s \in Threads \ {t}, pc[s] \in GetterPoppers \cup PutterPoppers
      PROVE  PopperStands(pc[s], s, waiter'[obj[s]])
  <2> DEFINE o == waiter[obj[s]]
             n == waiter'[obj[s]]
  <2> SUFFICES PopperStands(pc[s], s, n)
    OBVIOUS
  <2>1. PopperStands(pc[s], s, o)
    BY <1>1, <1>b
  <2>2. obj[s] \in Waiters /\ o \in WaiterObjects
    BY <1>0, <1>1, <1>a
  <2>3. CASE SameWait(o, n)
    BY <2>1, <2>3 DEF SameWait, PopperStands
  <2>4. ASSUME n.message = o.message, o.condlock \in {None, t}
        PROVE  PopperStands(pc[s], s, n)
    BY <1>0, <2>1, <2>4 DEF PopperStands
  <2>5. CASE obj[t] = obj[s] /\ LocksGetter(t)
    <3>1. o.condlock = None /\ n = [o EXCEPT !.condlock = t]
      BY <1>0, <2>2, <2>5 DEF LocksGetter
    <3>2. n.message = o.message
      BY <2>2, <3>1 DEF WaiterObjects
    <3> QED
      BY <2>4, <3>1, <3>2
  <2>6. CASE obj[t] = obj[s] /\ Signals(t)
    <3>1. o.condlock \in {None, t}
      <4>1. CASE pc[t] = "hand_over"
        BY <1>b, <2>6, <4>1 DEF PopperStands, GetterPoppers
      <4>2. CASE pc[t] # "hand_over"
        BY <2>6, <4>2 DEF Signals
      <4> QED
        BY <4>1, <4>2
    <3>2. n = Signalled(o)
      BY <1>0, <2>2, <2>6 DEF Signals
    <3>3. n.message = o.message
      BY <2>2, <3>2, SignalledFields
    <3> QED
      BY <2>4, <3>1, <3>3
  <2>7. CASE obj[t] = obj[s] /\ FallsAsleep(t)
    <3>1. pc[t] \in {"put_sleep", "get_sleep"} /\ n = Asleep(o)
      BY <1>0, <2>2, <2>7 DEF FallsAsleep
    <3>2. o.condlock = t
      BY <2>7, <3>1 DEF Sleepers, OwnersStand, OwnerStands, OwnerLocations, PutterSleeps, GetterSleeps
    <3>3. n.message = o.message
      BY <2>2, <3>1, AsleepFields
    <3> QED
      BY <2>4, <3>2, <3>3
  <2>8. CASE obj[t] = obj[s] /\ (Misses(t) \/ Abandons(t))
    <3>1. n = [o EXCEPT !.cond = "expired"] \/ n = [o EXCEPT !.timedout = TRUE]
      BY <1>0, <2>2, <2>8 DEF Misses, Abandons
    <3>2. n.message = o.message /\ n.condlock = o.condlock
      BY <2>2, <3>1 DEF WaiterObjects
    <3> HIDE DEF o, n
    <3> QED
      BY <2>1, <3>2 DEF PopperStands
  <2>9. \/ SameWait(o, n)
        \/ /\ obj[t] = obj[s]
           /\ LocksGetter(t) \/ Signals(t) \/ FallsAsleep(t) \/ Misses(t) \/ Abandons(t)
    <3>1. pc[s] \in WaiterLocations
      BY <1>1, <1>a
    <3> QED
      BY <3>1, WaitMoves
  <2> HIDE DEF o, n
  <2> QED
    BY <2>3, <2>5, <2>6, <2>7, <2>8, <2>9
<1>2. ASSUME pc'[t] \in GetterPoppers \cup PutterPoppers
      PROVE  PopperStands(pc'[t], t, waiter'[obj'[t]])
  <2>1. CASE Halts
    BY <1>2, <1>b, <2>1 DEF Halts
  <2>2. CASE PopsGetter(t)
    <3>1. /\ pc'[t] = "lock_getter" /\ obj'[t] = Head(getters)
          /\ waiter' = [waiter EXCEPT ![Head(getters)].ref = @ + 1]
          /\ Head(getters) \in Range(getters) /\ Head(getters) \in Waiters
      BY <2>2, HeadLeftOut DEF PopsGetter, Referenced, IInv, TypeOK, Sleepers, GettersListed
    <3> DEFINE w == Head(getters)
    <3> HIDE DEF w
    <3>2. PICK u \in Threads : pc[u] \in GetterSleeps /\ obj[u] = w
      BY <3>1 DEF Sleepers, GettersListed, Awaited, w
    <3>3. waiter[w].message = None
      BY <3>2 DEF Sleepers, OwnersStand, OwnerStands, OwnerLocations, PutterSleeps, GetterSleeps
    <3>4. waiter[w] \in WaiterObjects /\ waiter'[w] = [waiter[w] EXCEPT !.ref = @ + 1]
      BY <1>0, <3>1 DEF w
    <3>5. waiter'[w].message = None
      BY <3>3, <3>4, ReferencedWait DEF SameWait
    <3> QED
      BY <3>1, <3>5 DEF PopperStands, w
  <2>3. CASE PopsPutter(t) \/ (Skips(t) /\ pc[t] = "lock_putter")
             \/ (Signals(t) /\ pc[t] = "lock_putter")
    BY <2>3 DEF PopsPutter, Skips, Signals, PopperStands, GetterPoppers
  <2>4. ASSUME pc[t] \in {"lock_getter", "hand_over"}
        PROVE  /\ obj[t] \in Waiters /\ waiter[obj[t]] \in WaiterObjects
               /\ waiter[obj[t]].message = None
    BY <1>0, <1>b, <2>4 DEF PopperStands, GetterPoppers, WaiterLocations
  <2>5. CASE Skips(t) /\ pc[t] = "lock_getter"
    <3>1. waiter' = waiter /\ obj' = obj /\ pc'[t] = "skip_getter"
      BY <2>5 DEF Skips
    <3> QED
      BY <2>4, <2>5, <3>1 DEF PopperStands
  <2>6. CASE LocksGetter(t)
    <3>1. /\ pc[t] = "lock_getter" /\ obj' = obj /\ pc'[t] = "hand_over"
          /\ waiter' = [waiter EXCEPT ![obj[t]].condlock = t]
      BY <2>6 DEF LocksGetter
    <3>2. waiter'[obj[t]] = [waiter[obj[t]] EXCEPT !.condlock = t]
      BY <1>0, <2>4, <3>1
    <3>3. waiter'[obj[t]].message = None /\ waiter'[obj[t]].condlock = t
      BY <2>4, <3>1, <3>2 DEF WaiterObjects
    <3> QED
      BY <3>1, <3>3 DEF PopperStands
  <2>7. CASE Signals(t) /\ pc[t] = "hand_over"
    <3>1. /\ obj' = obj /\ pc'[t] = "drop_getter"
          /\ waiter' = [waiter EXCEPT ![obj[t]] = Signalled(@)]
      BY <2>7 DEF Signals
    <3>2. waiter'[obj[t]] = Signalled(waiter[obj[t]])
      BY <1>0, <2>4, <2>7, <3>1
    <3>3. waiter'[obj[t]].message = None
      BY <2>4, <2>7, <3>2, SignalledFields
    <3> QED
      BY <3>1, <3>3 DEF PopperStands
  <2>8. \/ Halts \/ PopsGetter(t) \/ PopsPutter(t)
        \/ LocksGetter(t) \/ Skips(t) \/ Signals(t)
    BY <1>2 DEF Moves, Passes, ListsGetter, ListsPutter, DropsPopped, FallsAsleep, Misses, Abandons,
       Wakes, GivesUp, GetterPoppers, PutterPoppers, WaiterLocations
  <2>9. (Skips(t) => pc[t] \in {"lock_getter", "lock_putter"})
        /\ (Signals(t) => pc[t] \in {"hand_over", "lock_putter"})
    BY DEF Skips, Signals
  <2> QED
    BY <2>1, <2>2, <2>3, <2>5, <2>6, <2>7, <2>8, <2>9
<1> QED
  BY <1>1, <1>2 DEF Others

(* ... and that is on no list any more. *)
LEMMA PoppersListStep ==
    ASSUME IInv, Sleepers, NEW t \in Threads, Moves(t), Others(t)
    PROVE  \A s \in Threads : pc'[s] \in GetterPoppers \cup PutterPoppers => obj'[s] \notin Listed'
<1>0. ListsMove(t)
  BY ListsStep DEF Sleepers
<1>1. Listed = Range(getters) \cup Members(putters)
      /\ Listed' = Range(getters') \cup Members(putters')
  BY DEF Listed, Range
<1>2. \A w \in Listed' : w \in Listed \/ w \in Available
  <2>1. ListsGetter(t) \/ ListsPutter(t) => obj'[t] \in Available
    BY DEF ListsGetter, ListsPutter
  <2> QED
    BY <1>0, <1>1, <2>1 DEF ListsMove, SameLists
<1>3. ASSUME NEW s \in Threads, pc[s] \in GetterPoppers \cup PutterPoppers
      PROVE  obj[s] \notin Listed'
  <2>1. pc[s] \in WaiterLocations /\ obj[s] \notin Listed
    BY <1>3 DEF GetterPoppers, PutterPoppers, WaiterLocations, Sleepers, PoppersStand
  <2>2. obj[s] \notin Available
    BY <2>1, AvailableIsUnheld
  <2> QED
    BY <1>2, <2>1, <2>2
<1>4. ASSUME pc'[t] \in GetterPoppers \cup PutterPoppers PROVE obj'[t] \notin Listed'
  <2>1. CASE PopsGetter(t) \/ PopsPutter(t)
    <3>1. \/ /\ obj'[t] \in Range(getters) /\ putters' = putters
             /\ Range(getters') = Range(getters) \ {obj'[t]}
          \/ /\ obj'[t] \in Members(putters) /\ getters' = getters
             /\ Members(putters') = Members(putters) \ {obj'[t]}
      BY <1>0, <2>1 DEF ListsMove, PopsGetter, PopsPutter, ListsGetter, ListsPutter, GivesUp,
         WaiterLocations
    <3> QED
      BY <1>1, <3>1, ListsApart
  <2>2. CASE ~(PopsGetter(t) \/ PopsPutter(t))
    <3>1. pc[t] \in GetterPoppers \cup PutterPoppers /\ obj'[t] = obj[t]
      BY <1>4, <2>2 DEF Moves, Halts, Passes, ListsGetter, ListsPutter, LocksGetter, Skips, Signals,
         DropsPopped, FallsAsleep, Misses, Abandons, Wakes, GivesUp, GetterPoppers, PutterPoppers,
         WaiterLocations
    <3> QED
      BY <1>3, <3>1
  <2> QED
    BY <2>1, <2>2
<1> QED
  BY <1>3, <1>4 DEF Others

(* The owner of a waiter stays with it until it takes it off its list or is*)
(* signalled.                                                              *)
LEMMA StillAwaited ==
    ASSUME IInv, Sleepers, NEW t \in Threads, Moves(t), Others(t),
           NEW sleeps \in {GetterSleeps, PutterSleeps},
           NEW w, Awaited(w, sleeps), w \in Listed \/ ~(Signals(t) /\ obj[t] = w),
           ~(GivesUp(t) /\ pc[t] \in sleeps /\ w = obj[t])
    PROVE  Awaited(w, sleeps)'
<1>1. PICK s \in Threads : pc[s] \in sleeps /\ obj[s] = w /\ waiter[w].cond # "signalled"
  BY DEF Awaited
<1>2. /\ waiter \in [Waiters -> WaiterObjects] /\ w \in Waiters
      /\ waiter[w] \in WaiterObjects /\ pc[s] \in OwnerLocations /\ pc[s] \in WaiterLocations
  BY <1>1, ThreadFacts DEF OwnerLocations, GetterSleeps, PutterSleeps, WaiterLocations
<1>3. CASE s # t
  <2>1. pc'[s] = pc[s] /\ obj'[s] = w
    BY <1>1, <1>3 DEF Others
  <2>2. ASSUME obj[t] = w PROVE pc[t] \notin OwnerLocations /\ ~Signals(t)
    <3>1. pc[t] \notin OwnerLocations
      BY <1>1, <1>2, <1>3, <2>2 DEF Sleepers, OneOwner
    <3>2. w \in Listed => pc[t] \notin GetterPoppers \cup PutterPoppers
      BY <2>2 DEF Sleepers, PoppersStand
    <3> QED
      BY <2>2, <3>1, <3>2 DEF Signals, GetterPoppers, PutterPoppers
  <2>3. CASE SameWait(waiter[w], waiter'[w])
    BY <1>1, <2>1, <2>3 DEF SameWait, Awaited
  <2>4. CASE obj[t] = w /\ LocksGetter(t)
    <3>1. waiter'[w] = [waiter[w] EXCEPT !.condlock = t]
      BY <1>2, <2>4 DEF LocksGetter
    <3>2. waiter'[w].cond = waiter[w].cond
      BY <1>2, <3>1 DEF WaiterObjects
    <3> QED
      BY <1>1, <2>1, <3>2 DEF Awaited
  <2>5. ~(obj[t] = w /\ (FallsAsleep(t) \/ Misses(t) \/ Abandons(t)))
    BY <2>2 DEF FallsAsleep, Misses, Abandons, OwnerLocations, PutterSleeps, GetterSleeps
  <2> QED
    BY <1>1, <1>2, <1>3, <2>2, <2>3, <2>4, <2>5, WaitMoves
<1>4. CASE s = t
  <2>1. CASE Halts
    BY <1>1, <1>4, <2>1 DEF Halts, Awaited
  <2>2. CASE FallsAsleep(t)
    <3>1. waiter'[w] = Asleep(waiter[w]) /\ obj'[t] = w /\ pc'[t] \in sleeps
      BY <1>1, <1>2, <1>4, <2>2 DEF FallsAsleep, GetterSleeps, PutterSleeps
    <3>2. waiter'[w].cond # "signalled"
      BY <1>2, <3>1, AsleepFields
    <3> QED
      BY <3>1, <3>2 DEF Awaited
  <2>3. CASE Misses(t)
    <3>1. waiter'[w] = [waiter[w] EXCEPT !.cond = "expired"] /\ obj'[t] = w /\ pc'[t] \in sleeps
      BY <1>1, <1>2, <1>4, <2>3 DEF Misses
    <3>2. waiter'[w].cond # "signalled"
      BY <1>2, <3>1 DEF WaiterObjects
    <3> QED
      BY <3>1, <3>2 DEF Awaited
  <2>4. CASE Abandons(t)
    <3>1. waiter'[w] = [waiter[w] EXCEPT !.timedout = TRUE] /\ obj'[t] = w /\ pc'[t] \in sleeps
      BY <1>1, <1>2, <1>4, <2>4 DEF Abandons, GetterSleeps, PutterSleeps
    <3>2. waiter'[w].cond # "signalled"
      BY <1>1, <1>2, <3>1 DEF WaiterObjects
    <3> QED
      BY <3>1, <3>2 DEF Awaited
  <2>5. ~Wakes(t) /\ ~GivesUp(t)
    BY <1>1, <1>4 DEF Wakes
  <2>6. Halts \/ FallsAsleep(t) \/ Misses(t) \/ Abandons(t)
    BY <1>2, <1>4, <2>5 DEF Moves, Passes, ListsGetter, ListsPutter, PopsGetter, PopsPutter,
       LocksGetter, Skips, Signals, DropsPopped, OwnerLocations, GetterSleeps, PutterSleeps
  <2> QED
    BY <2>1, <2>2, <2>3, <2>4, <2>6
<1> QED
  BY <1>3, <1>4

(* A listed waiter is awaited by its owner. *)
LEMMA GettersListedStep ==
    ASSUME IInv, Sleepers, NEW t \in Threads, Moves(t), Others(t)
    PROVE  GettersListed'
<1>1. ListsMove(t) /\ Range(getters) \subseteq Listed
  BY ListsStep DEF Sleepers, Listed, Range
<1>2. ASSUME NEW w \in Range(getters), ~(GivesUp(t) /\ pc[t] \in GetterSleeps /\ w = obj[t])
      PROVE  Awaited(w, GetterSleeps)'
  <2>1. Awaited(w, GetterSleeps) /\ w \in Listed
    BY <1>1 DEF Sleepers, GettersListed
  <2> QED
    BY <1>2, <2>1, StillAwaited
<1>3. ASSUME ListsGetter(t), NEW w, w = obj'[t]
      PROVE  Awaited(w, GetterSleeps)'
  <2>1. PICK kind \in Waits : /\ w \in Available /\ pc'[t] = "get_sleep"
                             /\ waiter' = [waiter EXCEPT ![w] = Created(t, kind, None)]
    BY <1>3 DEF ListsGetter
  <2>2. waiter'[w] = Created(t, kind, None)
    BY <2>1 DEF Available, IInv, TypeOK
  <2>3. waiter'[w].cond = "none" /\ pc'[t] \in GetterSleeps
    BY <2>1, <2>2 DEF Created, Freed, GetterSleeps
  <2> QED
    BY <1>3, <2>3 DEF Awaited
<1>4. ASSUME NEW w \in Range(getters') PROVE Awaited(w, GetterSleeps)'
  <2>1. CASE ListsGetter(t)
    BY <1>1, <1>2, <1>3, <1>4, <2>1 DEF ListsMove, ListsGetter, ListsPutter, PopsGetter, PopsPutter,
       GivesUp, SameLists, WaiterLocations
  <2>2. CASE GivesUp(t)
    <3>1. \/ pc[t] = "get_expired" /\ Range(getters') = Range(getters) \ {obj[t]}
          \/ pc[t] = "put_expired" /\ getters' = getters
      BY <1>1, <2>2 DEF ListsMove, GivesUp, ListsGetter, ListsPutter, PopsGetter, PopsPutter,
         WaiterLocations
    <3> QED
      BY <1>2, <1>4, <3>1 DEF GetterSleeps
  <2>3. CASE ~ListsGetter(t) /\ ~GivesUp(t)
    BY <1>1, <1>2, <1>4, <2>3 DEF ListsMove, SameLists
  <2> QED
    BY <2>1, <2>2, <2>3
<1> QED
  BY <1>1, <1>4 DEF GettersListed, ListsMove

LEMMA PuttersListedStep ==
    ASSUME IInv, Sleepers, NEW t \in Threads, Moves(t), Others(t)
    PROVE  PuttersListed'
<1>1. ListsMove(t) /\ Members(putters) \subseteq Listed
  BY ListsStep DEF Sleepers, Listed
<1>2. ASSUME NEW w \in Members(putters), ~(GivesUp(t) /\ pc[t] \in PutterSleeps /\ w = obj[t])
      PROVE  Awaited(w, PutterSleeps)'
  <2>1. Awaited(w, PutterSleeps) /\ w \in Listed
    BY <1>1 DEF Sleepers, PuttersListed
  <2> QED
    BY <1>2, <2>1, StillAwaited
<1>3. ASSUME ListsPutter(t), NEW w, w = obj'[t]
      PROVE  Awaited(w, PutterSleeps)'
  <2>1. PICK kind \in Waits : /\ w \in Available /\ pc'[t] = "put_sleep"
                             /\ waiter' = [waiter EXCEPT ![w] = Created(t, kind, msg[t])]
    BY <1>3 DEF ListsPutter
  <2>2. waiter'[w] = Created(t, kind, msg[t])
    BY <2>1 DEF Available, IInv, TypeOK
  <2>3. waiter'[w].cond = "none" /\ pc'[t] \in PutterSleeps
    BY <2>1, <2>2 DEF Created, Freed, PutterSleeps
  <2> QED
    BY <1>3, <2>3 DEF Awaited
<1>4. ASSUME NEW w \in Members(putters') PROVE Awaited(w, PutterSleeps)'
  <2>1. CASE ListsPutter(t)
    BY <1>1, <1>2, <1>3, <1>4, <2>1 DEF ListsMove, ListsGetter, ListsPutter, PopsGetter, PopsPutter,
       GivesUp, SameLists, WaiterLocations
  <2>2. CASE GivesUp(t)
    <3>1. \/ pc[t] = "put_expired" /\ Members(putters') = Members(putters) \ {obj[t]}
          \/ pc[t] = "get_expired" /\ putters' = putters
      BY <1>1, <2>2 DEF ListsMove, GivesUp, ListsGetter, ListsPutter, PopsGetter, PopsPutter,
         WaiterLocations
    <3> QED
      BY <1>2, <1>4, <3>1 DEF PutterSleeps
  <2>3. CASE ~ListsPutter(t) /\ ~GivesUp(t)
    BY <1>1, <1>2, <1>4, <2>3 DEF ListsMove, SameLists
  <2> QED
    BY <2>1, <2>2, <2>3
<1> QED
  BY <1>1, <1>4 DEF PuttersListed, ListsMove

(* Sleepers is inductive. *)
LEMMA InitSleepers ==
    ASSUME Init
    PROVE  Sleepers
<1>1. \A s \in Threads : pc[s] = "idle"
  BY DEF Init
<1>2. OneOwner /\ OwnersStand /\ PoppersStand
  BY <1>1 DEF OneOwner, OwnersStand, PoppersStand, OwnerLocations, GetterSleeps, PutterSleeps,
     GetterPoppers, PutterPoppers
<1>3. GettersListed
  BY DEF Init, EmptyGetters, GettersListed, IsInjective, Range
<1>4. PuttersListed
  BY EmptyChainKept DEF Init, EmptyPutters, PuttersListed
<1> QED
  BY <1>2, <1>3, <1>4 DEF Sleepers

LEMMA SleepersStep ==
    ASSUME IInv, Sleepers, NEW t \in Threads, Moves(t), Others(t)
    PROVE  Sleepers'
<1>1. OneOwner'
  BY OneOwnerStep DEF Sleepers
<1>2. OwnersStand' /\ GettersListed' /\ PuttersListed'
  BY OwnersStep, GettersListedStep, PuttersListedStep
<1>3. PoppersStand'
  BY PoppersWaitStep, PoppersListStep DEF PoppersStand
<1> QED
  BY <1>1, <1>2, <1>3 DEF Sleepers

(* What every step of every thread may rely on. *)
LEMMA StepFacts ==
    ASSUME IInv, Sleepers, ExactWaits, NEW t \in Threads, Step(t)
    PROVE  Moves(t) /\ Others(t) /\ IInv' /\ Sleepers'
<1>1. Moves(t) /\ Others(t)
  BY StepMoves, OthersStand DEF Sleepers, Others
<1> QED
  BY <1>1, StepIInv, SleepersStep

-----------------------------------------------------------------------------
(* The getters that were signalled, and the messages for them. *)

(* A getter is signalled by a hand-over only, and leaves when it wakes. *)
LEMMA SignalledStep ==
    ASSUME IInv, Sleepers, NEW t \in Threads, Moves(t), Others(t)
    PROVE  /\ Wakes(t) => SignalledGetters' = SignalledGetters \ {t}
           /\ ~Wakes(t) /\ ~(Signals(t) /\ pc[t] = "hand_over")
                 => SignalledGetters' = SignalledGetters
           /\ Signals(t) /\ pc[t] = "hand_over"
                 => SignalledGetters' = SignalledGetters
                      \cup {s \in Threads : /\ pc[s] = "get_wait" /\ obj[s] = obj[t]
                                            /\ waiter[obj[t]].cond = "waiting"}
<1>0. waiter \in [Waiters -> WaiterObjects]
      /\ \A s \in Threads : pc[s] \in WaiterLocations =>
            obj[s] \in Waiters /\ waiter[obj[s]] \in WaiterObjects
  BY ThreadFacts
<1> DEFINE Sig(s) == pc[s] = "get_wait" /\ waiter[obj[s]].cond = "signalled"
           Sig1(s) == pc'[s] = "get_wait" /\ waiter'[obj'[s]].cond = "signalled"
           Now(s) == /\ Signals(t) /\ pc[t] = "hand_over"
                     /\ pc[s] = "get_wait" /\ obj[s] = obj[t] /\ waiter[obj[t]].cond = "waiting"
<1>1. ASSUME NEW s \in Threads \ {t} PROVE Sig1(s) <=> Sig(s) \/ Now(s)
  <2>1. CASE pc[s] # "get_wait"
    BY <2>1 DEF Others
  <2>2. CASE pc[s] = "get_wait"
    <3> DEFINE o == waiter[obj[s]]
               n == waiter'[obj[s]]
    <3>1. pc'[s] = "get_wait" /\ obj'[s] = obj[s]
      BY <2>2 DEF Others
    <3>2. /\ obj[s] \in Waiters /\ o \in WaiterObjects
          /\ pc[s] \in OwnerLocations /\ pc[s] \in WaiterLocations
      BY <1>0, <2>2 DEF OwnerLocations, GetterSleeps, WaiterLocations
    <3>3. o.message = None
      BY <2>2, <3>2 DEF Sleepers, OwnersStand, OwnerStands, PutterSleeps
    <3>4. CASE SameWait(o, n) /\ ~(obj[t] = obj[s] /\ Signals(t))
      BY <2>2, <3>1, <3>4 DEF SameWait
    <3>5. CASE obj[t] = obj[s] /\ LocksGetter(t)
      <4>1. n = [o EXCEPT !.condlock = t] /\ ~Signals(t)
        BY <1>0, <3>2, <3>5 DEF LocksGetter, Signals
      <4>2. n.cond = o.cond
        BY <3>2, <4>1 DEF WaiterObjects
      <4> QED
        BY <2>2, <3>1, <4>1, <4>2
    <3>6. CASE obj[t] = obj[s] /\ Signals(t)
      <4>1. n = Signalled(o)
        BY <1>0, <3>2, <3>6 DEF Signals
      <4>2. n.cond = IF o.cond = "waiting" THEN "signalled" ELSE o.cond
        BY <3>2, <4>1, SignalledFields
      <4>3. pc[t] = "hand_over"
        <5>1. pc[t] # "lock_putter"
          BY <3>3, <3>6, QcQueueAssumption DEF IInv, PuttersCarryMessages, PutterLocations
        <5> QED
          BY <3>6, <5>1 DEF Signals
      <4> QED
        BY <2>2, <3>1, <3>6, <4>2, <4>3
    <3>7. ~(obj[t] = obj[s] /\ (FallsAsleep(t) \/ Misses(t) \/ Abandons(t)))
      BY <3>2 DEF Sleepers, OneOwner, FallsAsleep, Misses, Abandons, OwnerLocations, PutterSleeps,
         GetterSleeps
    <3>8. \/ SameWait(o, n)
          \/ /\ obj[t] = obj[s]
             /\ LocksGetter(t) \/ Signals(t) \/ FallsAsleep(t) \/ Misses(t) \/ Abandons(t)
      BY <3>2, WaitMoves
    <3> QED
      BY <3>4, <3>5, <3>6, <3>7, <3>8
  <2> QED
    BY <2>1, <2>2
<1>2. Sig1(t) <=> Sig(t) /\ ~Wakes(t)
  <2>1. CASE pc[t] = "get_wait"
    <3>1. obj[t] \in Waiters /\ waiter[obj[t]] \in WaiterObjects
      BY <1>0, <2>1 DEF WaiterLocations
    <3>2. CASE Halts
      BY <2>1, <3>2 DEF Halts, Wakes, WaiterLocations
    <3>3. CASE Misses(t)
      <4>1. /\ waiter'[obj[t]] = [waiter[obj[t]] EXCEPT !.cond = "expired"]
            /\ waiter[obj[t]].cond = "waiting" /\ obj' = obj
        BY <1>0, <3>1, <3>3 DEF Misses
      <4>2. waiter'[obj[t]].cond = "expired"
        BY <3>1, <4>1 DEF WaiterObjects
      <4> QED
        BY <4>1, <4>2
    <3>4. CASE Abandons(t)
      BY <3>4 DEF Abandons
    <3>5. CASE Wakes(t)
      BY <3>5 DEF Wakes, WaiterLocations
    <3> QED
      BY <2>1, <3>2, <3>3, <3>4, <3>5 DEF Moves, Passes, ListsGetter, ListsPutter, PopsGetter,
         PopsPutter, LocksGetter, Skips, Signals, DropsPopped, FallsAsleep, GivesUp, WaiterLocations
  <2>2. CASE pc[t] # "get_wait"
    <3>1. CASE FallsAsleep(t) /\ pc[t] = "get_sleep"
      <4>1. obj[t] \in Waiters /\ waiter[obj[t]] \in WaiterObjects
        BY <1>0, <3>1 DEF WaiterLocations
      <4>2. waiter'[obj[t]] = Asleep(waiter[obj[t]]) /\ obj' = obj
        BY <1>0, <3>1, <4>1 DEF FallsAsleep
      <4>3. waiter'[obj[t]].cond = "waiting"
        BY <4>1, <4>2, AsleepFields
      <4> QED
        BY <2>2, <4>2, <4>3
    <3>2. CASE ~(FallsAsleep(t) /\ pc[t] = "get_sleep")
      <4>1. pc'[t] # "get_wait"
        BY <2>2, <3>2 DEF Moves, Halts, Passes, ListsGetter, ListsPutter, PopsGetter, PopsPutter,
           LocksGetter, Skips, Signals, DropsPopped, FallsAsleep, Misses, Abandons, Wakes, GivesUp,
           WaiterLocations
      <4> QED
        BY <2>2, <4>1
    <3> QED
      BY <3>1, <3>2
  <2> QED
    BY <2>1, <2>2
<1>3. SignalledGetters' = {s \in Threads : Sig1(s)} /\ SignalledGetters = {s \in Threads : Sig(s)}
  BY DEF SignalledGetters
<1>4. ~Now(t) /\ (Wakes(t) => \A s \in Threads : ~Now(s))
      /\ (~(Signals(t) /\ pc[t] = "hand_over") => \A s \in Threads : ~Now(s))
      /\ (Signals(t) => ~Wakes(t))
  BY DEF Wakes, Signals
<1> HIDE DEF Sig, Sig1
<1>5. \A s \in Threads : Sig1(s) <=> \/ Sig(s) /\ ~(s = t /\ Wakes(t))
                                     \/ Now(s)
  BY <1>1, <1>2, <1>4
<1> QED
  BY <1>3, <1>4, <1>5

(* The tempList gains a message at a hand-over and loses one when a getter *)
(* wakes.                                                                  *)
LEMMA TempStep ==
    ASSUME IInv, ExactWaits, Sleepers, NEW t \in Threads, Step(t)
    PROVE  /\ Wakes(t) /\ pc[t] = "get_wait" => temp # <<>> /\ temp' = Tail(temp)
           /\ Signals(t) /\ pc[t] = "hand_over" => temp' = Append(temp, msg[t])
           /\ ~(Wakes(t) /\ pc[t] = "get_wait") /\ ~(Signals(t) /\ pc[t] = "hand_over")
                => temp' = temp
<1> DEFINE Goal == /\ Wakes(t) /\ pc[t] = "get_wait" => temp # <<>> /\ temp' = Tail(temp)
                   /\ Signals(t) /\ pc[t] = "hand_over" => temp' = Append(temp, msg[t])
                   /\ ~(Wakes(t) /\ pc[t] = "get_wait") /\ ~(Signals(t) /\ pc[t] = "hand_over")
                        => temp' = temp
<1>0. pc \in [Threads -> Locations] /\ ~(DeadlineRejected(t) /\ pc[t] \in OwnerLocations)
  BY DEF IInv, TypeOK, Locations, DeadlineRejected, Sleepers, OwnersStand, OwnerStands, ExactWaits
<1>a. ASSUME temp' = temp, pc[t] # "hand_over", pc[t] # "get_wait" \/ pc'[t] \in WaiterLocations
      PROVE  Goal
  BY <1>a DEF Wakes, WaiterLocations
<1>b. ASSUME temp' = temp, pc' = pc PROVE Goal
  BY <1>b DEF Wakes, Signals, WaiterLocations
<1> USE DEF At, GoTo
<1>1. ASSUME NEW m \in Messages, PutCall(t, m) \/ ForcePut(t, m) PROVE Goal
  BY <1>1, <1>a DEF PutCall, ForcePut, queueVars
<1>2. CASE PutPopsGetter(t) \/ PutPushes(t) \/ PutListsPutter(t)
  BY <1>2, <1>a DEF PutPopsGetter, PutPushes, PutListsPutter, Fails, queueVars
<1>3. CASE PutLocksGetter(t) \/ PutDropsGetter(t)
  BY <1>3, <1>a DEF PutLocksGetter, PutDropsGetter, queueVars
<1>4. CASE PutHandsOver(t)
  <2>1. /\ pc[t] = "hand_over" /\ pc'[t] = "drop_getter" /\ temp' = Append(temp, msg[t])
        /\ Signals(t)
    BY <1>0, <1>4 DEF PutHandsOver, TempGiven, Signals, SameLists
  <2> QED
    BY <2>1
<1>5. CASE PutSleeps(t) \/ PutWakes(t) \/ PutTimesOut(t) \/ PutGivesUp(t)
  BY <1>5, <1>a DEF PutSleeps, PutWakes, PutTimesOut, TimesOut, PutGivesUp, queueVars
<1>6. CASE GetCall(t)
  BY <1>6, <1>a DEF GetCall, GetListsGetter, GetPops, Fails, queueVars
<1>7. CASE GetSleeps(t)
  BY <1>0, <1>7, <1>a DEF GetSleeps, queueVars, OwnerLocations, GetterSleeps
<1>8. CASE GetWakes(t)
  <2>1. CASE Fails("get")
    BY <1>b, <2>1 DEF Fails, queueVars
  <2>2. CASE ~Fails("get")
    <3>1. /\ pc[t] = "get_wait" /\ temp # <<>> /\ temp' = Tail(temp)
          /\ Wakes(t)
      <4>1. waiter[obj[t]].cond # "spurious" \/ pc[t] # "get_wait"
        BY DEF Sleepers, OwnersStand, OwnerStands, OwnerLocations, GetterSleeps
      <4> QED
        BY <1>0, <1>8, <2>2, <4>1, ThreadFacts DEF GetWakes, Awake, GetLeaves, TempTaken, GetReturns,
           Idle, Wakes, SameLists, WaiterLocations, IInv, TypeOK
    <3> QED
      BY <3>1
  <2> QED
    BY <2>1, <2>2
<1>9. CASE GetTimesOut(t)
  BY <1>0, <1>9, <1>a DEF GetTimesOut, TimesOut, queueVars, WaiterLocations
<1>10. CASE GetGivesUp(t) \/ GetEnds(t) \/ GetPopsPutter(t) \/ GetLocksPutter(t) \/ GetDropsPutter(t)
  BY <1>10, <1>a DEF GetGivesUp, GetEnds, GetPopsPutter, GetLocksPutter, GetDropsPutter, Fails,
     queueVars
<1>11. CASE Expires(t) \/ WakesUnprompted(t)
  BY <1>11, <1>b DEF Expires, WakesUnprompted, queueVars
<1> QED
  BY <1>1, <1>2, <1>3, <1>4, <1>5, <1>6, <1>7, <1>8, <1>9, <1>10, <1>11
  DEF Step, PutStep, GetStep

(* There is at most one getter to signal. *)
LEMMA OneToSignal ==
    ASSUME Sleepers, NEW w, NEW S, S \subseteq {s \in Threads : pc[s] = "get_wait" /\ obj[s] = w}
    PROVE  S = {} \/ \E u \in Threads : S = {u}
BY DEF Sleepers, OneOwner, OwnerLocations, GetterSleeps

LEMMA BackedStep ==
    ASSUME IInv, ExactWaits, Sleepers, SignalBacked, NEW t \in Threads, Step(t)
    PROVE  SignalBacked'
<1> DEFINE Sig == SignalledGetters
           n == Len(temp)
           k == Cardinality(Sig)
<1>1. Moves(t) /\ Others(t)
  BY StepFacts
<1>2. IsFiniteSet(Sig) /\ n \in Nat /\ k \in Nat /\ n >= k
  <2>1. IsFiniteSet(Sig)
    BY QcQueueAssumption, FS_Subset DEF SignalledGetters
  <2>2. n \in Nat
    BY LenProperties DEF IInv, TypeOK
  <2> QED
    BY <2>1, <2>2, FS_CardinalityType DEF SignalBacked
<1>3. CASE Wakes(t)
  <2>1. SignalledGetters' = Sig \ {t}
    BY <1>1, <1>3, SignalledStep
  <2>2. CASE pc[t] = "get_wait"
    <3>1. t \in Sig
      BY <1>3, <2>2 DEF Wakes, SignalledGetters
    <3>2. Cardinality(SignalledGetters') = k - 1
      BY <1>2, <2>1, <3>1, FS_RemoveElement
    <3>3. temp # <<>> /\ temp' = Tail(temp)
      BY <1>3, <2>2, TempStep
    <3>4. Len(temp') = n - 1
      BY <3>3, HeadTailProperties DEF IInv, TypeOK
    <3> HIDE DEF n, k
    <3> QED
      BY <1>2, <3>2, <3>4 DEF SignalBacked
  <2>3. CASE pc[t] # "get_wait"
    <3>1. SignalledGetters' = Sig
      BY <2>1, <2>3 DEF SignalledGetters
    <3>2. temp' = temp
      BY <2>3, <1>3, TempStep DEF Wakes, Signals
    <3> QED
      BY <1>2, <3>1, <3>2 DEF SignalBacked
  <2> QED
    BY <2>2, <2>3
<1>4. CASE Signals(t) /\ pc[t] = "hand_over"
  <2> DEFINE New == {s \in Threads : /\ pc[s] = "get_wait" /\ obj[s] = obj[t]
                                     /\ waiter[obj[t]].cond = "waiting"}
  <2>1. SignalledGetters' = Sig \cup New
    BY <1>1, <1>4, SignalledStep
  <2>2. Len(temp') = n + 1
    <3>1. temp' = Append(temp, msg[t]) /\ msg[t] \in Messages
      BY <1>4, TempStep, ThreadFacts DEF PutLocations
    <3> QED
      BY <3>1, AppendProperties DEF IInv, TypeOK
  <2>3. New = {} \/ \E u \in Threads : New = {u}
    BY OneToSignal
  <2> HIDE DEF New
  <2>4. Cardinality(Sig \cup New) \in Nat /\ Cardinality(Sig \cup New) <= k + 1
    <3>1. CASE New = {}
      BY <1>2, <3>1
    <3>2. CASE New # {}
      <4>1. PICK u \in Threads : New = {u}
        BY <2>3, <3>2
      <4>2. Cardinality(Sig \cup {u}) \in {k, k + 1}
        BY <1>2, FS_AddElement
      <4> HIDE DEF k, Sig
      <4> QED
        BY <1>2, <4>1, <4>2
    <3> QED
      BY <3>1, <3>2
  <2> HIDE DEF n, k
  <2> QED
    BY <1>2, <2>1, <2>2, <2>4 DEF SignalBacked
<1>5. CASE ~Wakes(t) /\ ~(Signals(t) /\ pc[t] = "hand_over")
  <2>1. SignalledGetters' = Sig /\ temp' = temp
    BY <1>1, <1>5, SignalledStep, TempStep
  <2> QED
    BY <1>2, <2>1 DEF SignalBacked
<1> QED
  BY <1>3, <1>4, <1>5

(* In a queue whose waits end only by a signal or at their deadline, every *)
(* waiter object is as its owner and the thread that popped it expect, no  *)
(* waiter is listed twice or after it was popped, and whoever is listed has*)
(* an owner that still waits: a pop never reaches a freed waiter.          *)
THEOREM WaitersStand ==
    ASSUME ExactWaits
    PROVE  Spec => []Sleepers
<1>1. Init => Sleepers
  BY InitSleepers
<1>2. IInv /\ Sleepers /\ [Next]_vars => Sleepers'
  <2>1. ASSUME IInv, Sleepers, Next PROVE Sleepers'
    BY <2>1, StepFacts DEF Next
  <2>2. ASSUME Sleepers, UNCHANGED vars PROVE Sleepers'
    BY <2>2 DEF vars, Sleepers, OneOwner, OwnersStand, PoppersStand, Listed, GettersListed,
       PuttersListed, Awaited
  <2> QED
    BY <2>1, <2>2
<1> QED
  BY <1>1, <1>2, Invariant, PTL DEF Spec

(* Every getter that was signalled will find a message in the tempList:    *)
(* handing a message over and waking the getter are two steps on two       *)
(* objects, with any number of timeouts and other getters between them.    *)
THEOREM SignalsAreBacked ==
    ASSUME ExactWaits
    PROVE  Spec => []SignalBacked
<1>1. Init => SignalBacked
  <2>1. ASSUME Init PROVE SignalledGetters = {} /\ temp = <<>>
    BY <2>1 DEF Init, SignalledGetters
  <2> QED
    BY <2>1, FS_EmptySet DEF SignalBacked
<1>2. IInv /\ Sleepers /\ SignalBacked /\ [Next]_vars => SignalBacked'
  <2>1. ASSUME IInv, Sleepers, SignalBacked, Next PROVE SignalBacked'
    BY <2>1, BackedStep DEF Next
  <2>2. ASSUME SignalBacked, UNCHANGED vars PROVE SignalBacked'
    BY <2>2 DEF vars, SignalBacked, SignalledGetters
  <2> QED
    BY <2>1, <2>2
<1> QED
  BY <1>1, <1>2, Invariant, WaitersStand, PTL DEF Spec

-----------------------------------------------------------------------------
(* Where messages are.  Hand has what threads are about to return from a   *)
(* get; Held is all the queue has, Seen with what it already delivered.    *)

Hand == {msg[t] : t \in {u \in Threads : pc[u] \in RefillLocations}}
Held == Members(chain) \cup Range(temp) \cup Hand
Seen == Held \cup delivered

Apart ==
    /\ Kept(Messages, chain) /\ IsInjective(temp)
    /\ Members(chain) \cap Range(temp) = {}
    /\ (Members(chain) \cup Range(temp)) \cap Hand = {}

(* A thread whose put has yet to give its message to the queue: it has not *)
(* reached that point, or a getter may still admit its putter.             *)
Popped(w) == \E t \in Threads : pc[t] = "lock_putter" /\ obj[t] = w

Carrying(s) ==
    \/ pc[s] \in {"put_loop", "lock_getter", "hand_over", "skip_getter"}
    \/ /\ pc[s] \in {"put_sleep", "put_wait"}
       /\ obj[s] \in Members(putters) \/ Popped(obj[s])

(* ... and one whose put will report that the message was accepted.        *)
Given(s) ==
    \/ pc[s] = "drop_getter"
    \/ pc[s] = "put_wait" /\ waiter[obj[s]].cond = "signalled"

(* The putter a get is about to admit has not left.                        *)
PopperAdmits == \A t \in Threads :
    pc[t] = "lock_putter" =>
        waiter[obj[t]].timedout \/ Awaited(obj[t], {"put_sleep", "put_wait"})

Puts ==
    /\ \A s \in Threads : pc[s] \in PutLocations => msg[s] \notin accepted
    /\ \A s, u \in Threads : pc[s] \in PutLocations /\ pc[u] \in PutLocations
                             /\ msg[s] = msg[u] => s = u
    /\ \A s \in Threads : Carrying(s) => msg[s] \notin Seen
    /\ \A s \in Threads : Given(s) => msg[s] \in Seen

Placement ==
    /\ Apart /\ PopperAdmits /\ Puts
    /\ delivered \cap Held = {}
    /\ accepted \subseteq Seen

(* At most one thread returns a message at a time: it has quelock.         *)
LEMMA OneRefills ==
    ASSUME IInv, NEW s \in Threads, NEW u \in Threads,
           pc[s] \in LockedLocations, pc[u] \in LockedLocations
    PROVE  s = u
BY DEF IInv, Control

(* A putter popped by a get is awaited, or has timed out.                  *)
LEMMA AdmitsStep ==
    ASSUME IInv, IInv', Sleepers, PopperAdmits, NEW t \in Threads, Moves(t), Others(t)
    PROVE  PopperAdmits'
<1> DEFINE waits == {"put_sleep", "put_wait"}
<1>0. /\ waiter \in [Waiters -> WaiterObjects] /\ None \notin Messages
      /\ \A s \in Threads : pc[s] \in WaiterLocations =>
            obj[s] \in Waiters /\ waiter[obj[s]] \in WaiterObjects
  BY ThreadFacts, QcQueueAssumption
<1>1. ASSUME NEW u \in Threads \ {t}, pc[u] = "lock_putter", NEW w, w = obj[u]
      PROVE  waiter'[w].timedout \/ Awaited(w, waits)'
  <2> DEFINE o == waiter[w]
             n == waiter'[w]
  <2>1. /\ w \in Waiters /\ o \in WaiterObjects /\ pc[u] \in WaiterLocations
        /\ pc[u] \in LockedLocations
    BY <1>0, <1>1 DEF WaiterLocations, LockedLocations, RefillLocations
  <2>2. pc[t] \notin LockedLocations
    BY <1>1, <2>1, OneRefills
  <2>3. o.message \in Messages
    BY <1>1 DEF IInv, PuttersCarryMessages, PutterLocations
  <2>4. ~(obj[t] = w /\ (LocksGetter(t) \/ Signals(t)))
    <3>1. ASSUME obj[t] = w PROVE pc[t] # "hand_over"
      BY <1>0, <2>3, <3>1 DEF Sleepers, PoppersStand, PopperStands, GetterPoppers
    <3> QED
      BY <2>2, <3>1 DEF LocksGetter, Signals, LockedLocations, RefillLocations
  <2>5. \/ SameWait(o, n)
        \/ obj[t] = w /\ (FallsAsleep(t) \/ Misses(t) \/ Abandons(t))
    <3>1. \/ SameWait(waiter[obj[u]], waiter'[obj[u]])
          \/ /\ obj[t] = obj[u]
             /\ LocksGetter(t) \/ Signals(t) \/ FallsAsleep(t) \/ Misses(t) \/ Abandons(t)
      BY <2>1, WaitMoves
    <3> QED
      BY <1>1, <2>4, <3>1
  <2>6. CASE o.timedout
    <3>1. CASE SameWait(o, n)
      BY <2>6, <3>1 DEF SameWait
    <3>2. CASE obj[t] = w /\ FallsAsleep(t)
      <4>1. n = Asleep(o)
        BY <1>0, <2>1, <3>2 DEF FallsAsleep
      <4>2. n.timedout = o.timedout
        BY <2>1, <4>1, AsleepFields
      <4> QED
        BY <2>6, <4>2
    <3>3. CASE obj[t] = w /\ (Misses(t) \/ Abandons(t))
      <4>1. n = [o EXCEPT !.cond = "expired"] \/ n = [o EXCEPT !.timedout = TRUE]
        BY <1>0, <2>1, <3>3 DEF Misses, Abandons
      <4>2. n.timedout = TRUE
        <5>1. o.timedout = TRUE
          BY <2>1, <2>6 DEF WaiterObjects
        <5> QED
          BY <2>1, <4>1, <5>1 DEF WaiterObjects
      <4> QED
        BY <4>2
    <3> QED
      BY <2>5, <3>1, <3>2, <3>3
  <2>7. CASE ~o.timedout
    <3>1. PICK s \in Threads : pc[s] \in waits /\ obj[s] = w /\ o.cond # "signalled"
      BY <1>1, <2>7 DEF PopperAdmits, Awaited
    <3>2. pc[s] \in OwnerLocations
      BY <3>1 DEF OwnerLocations, PutterSleeps
    <3>3. CASE s # t
      <4>1. ~(obj[t] = w /\ (FallsAsleep(t) \/ Misses(t) \/ Abandons(t)))
        BY <3>1, <3>2, <3>3 DEF Sleepers, OneOwner, FallsAsleep, Misses, Abandons, OwnerLocations,
           PutterSleeps, GetterSleeps
      <4>2. n.cond # "signalled"
        BY <2>5, <3>1, <4>1 DEF SameWait
      <4>3. pc'[s] \in waits /\ obj'[s] = w
        BY <3>1, <3>3 DEF Others
      <4> QED
        BY <4>2, <4>3 DEF Awaited
    <3>4. CASE s = t
      <4>1. CASE Halts
        BY <3>1, <3>4, <4>1 DEF Halts, Awaited
      <4>2. CASE FallsAsleep(t)
        <5>1. n = Asleep(o) /\ pc'[t] \in waits /\ obj'[t] = w
          BY <1>0, <2>1, <3>1, <3>4, <4>2 DEF FallsAsleep
        <5>2. n.cond # "signalled"
          BY <2>1, <5>1, AsleepFields
        <5> QED
          BY <5>1, <5>2 DEF Awaited
      <4>3. CASE Misses(t)
        <5>1. n = [o EXCEPT !.cond = "expired"] /\ pc'[t] \in waits /\ obj'[t] = w
          BY <1>0, <2>1, <3>1, <3>4, <4>3 DEF Misses
        <5>2. n.cond # "signalled"
          BY <2>1, <5>1 DEF WaiterObjects
        <5> QED
          BY <5>1, <5>2 DEF Awaited
      <4>4. CASE Abandons(t)
        <5>1. n = [o EXCEPT !.timedout = TRUE]
          BY <1>0, <2>1, <3>1, <3>4, <4>4 DEF Abandons
        <5>2. n.timedout = TRUE
          BY <2>1, <5>1 DEF WaiterObjects
        <5> QED
          BY <5>2
      <4> QED
        BY <3>1, <3>4, <4>1, <4>2, <4>3, <4>4 DEF Moves, Passes, ListsGetter, ListsPutter,
           PopsGetter, PopsPutter, LocksGetter, Skips, Signals, DropsPopped, Wakes, GivesUp,
           WaiterLocations
    <3> QED
      BY <3>3, <3>4
  <2> QED
    BY <2>6, <2>7
<1>2. ASSUME pc'[t] = "lock_putter", NEW w, w = obj'[t]
      PROVE  waiter'[w].timedout \/ Awaited(w, waits)'
  <2>1. CASE Halts
    BY <1>2, <2>1 DEF Halts, PopperAdmits, Awaited
  <2>2. CASE PopsPutter(t)
    <3>1. /\ w \in Members(putters) /\ pc[t] \notin WaiterLocations
          /\ waiter' = [waiter EXCEPT ![w].ref = @ + 1]
      BY <1>2, <2>2, PopsKept DEF PopsPutter, Referenced, Sleepers, PuttersListed
    <3>2. PICK s \in Threads : pc[s] \in PutterSleeps /\ obj[s] = w /\ waiter[w].cond # "signalled"
      BY <3>1 DEF Sleepers, PuttersListed, Awaited
    <3>3. s # t /\ pc[s] \in WaiterLocations /\ w \in Waiters /\ waiter[w] \in WaiterObjects
      BY <1>0, <3>1, <3>2 DEF PutterSleeps, WaiterLocations
    <3>4. SameWait(waiter[w], waiter'[w])
      <4>1. waiter'[w] = [waiter[w] EXCEPT !.ref = @ + 1]
        BY <1>0, <3>1, <3>3
      <4> QED
        BY <3>3, <4>1, ReferencedWait
    <3>5. pc'[s] = pc[s] /\ obj'[s] = w
      BY <3>2, <3>3 DEF Others
    <3>6. CASE pc[s] = "put_expired"
      <4>1. waiter[w].timedout
        BY <3>2, <3>6 DEF Sleepers, OwnersStand, OwnerStands, OwnerLocations, PutterSleeps
      <4> QED
        BY <3>4, <4>1 DEF SameWait
    <3>7. CASE pc[s] # "put_expired"
      BY <3>2, <3>4, <3>5, <3>7 DEF SameWait, Awaited, PutterSleeps
    <3> QED
      BY <3>6, <3>7
  <2>3. Halts \/ PopsPutter(t)
    BY <1>2 DEF Moves, Passes, ListsGetter, ListsPutter, PopsGetter, LocksGetter, Skips, Signals,
       DropsPopped, FallsAsleep, Misses, Abandons, Wakes, GivesUp, WaiterLocations
  <2> QED
    BY <2>1, <2>2, <2>3
<1> QED
  BY <1>1, <1>2 DEF PopperAdmits, Others, Awaited

(* A thread comes to carry a message only by the call that brings it, and  *)
(* the owner of a putter that is admitted carries no longer.               *)
LEMMA CarryingStep ==
    ASSUME IInv, Sleepers, NEW t \in Threads, Moves(t), Others(t), NEW s \in Threads, Carrying(s)'
    PROVE  /\ \/ Carrying(s) /\ msg'[s] = msg[s]
              \/ s = t /\ \E m \in Messages : PutCall(t, m)
           /\ ~(Signals(t) /\ s = t)
           /\ ~(/\ Signals(t) /\ pc[t] = "lock_putter"
                /\ pc[s] \in {"put_sleep", "put_wait"} /\ obj[s] = obj[t])
<1> DEFINE early == {"put_loop", "lock_getter", "hand_over", "skip_getter"}
           waits == {"put_sleep", "put_wait"}
<1>0. ListsMove(t)
  BY ListsStep DEF Sleepers
<1>1. ASSUME pc'[t] = "lock_putter" PROVE Halts \/ PopsPutter(t)
  BY <1>1 DEF Moves, Passes, ListsGetter, ListsPutter, PopsGetter, LocksGetter, Skips, Signals,
     DropsPopped, FallsAsleep, Misses, Abandons, Wakes, GivesUp, WaiterLocations
<1>2. CASE s # t
  <2>1. pc'[s] = pc[s] /\ obj'[s] = obj[s] /\ msg'[s] = msg[s]
    BY <1>2 DEF Others
  <2>2. CASE pc[s] \notin waits
    BY <1>2, <2>1, <2>2 DEF Carrying
  <2>3. CASE pc[s] \in waits
    <3>1. obj[s] \in Members(putters') \/ \E u \in Threads : pc'[u] = "lock_putter" /\ obj'[u] = obj[s]
      BY <2>1, <2>3 DEF Carrying, Popped
    <3>2. pc[s] \in WaiterLocations
      BY <2>3 DEF WaiterLocations
    <3>3. CASE obj[s] \in Members(putters')
      <4>1. ListsPutter(t) => obj[s] # obj'[t]
        BY <3>2, AvailableIsUnheld DEF ListsPutter
      <4>2. obj[s] \in Members(putters)
        BY <1>0, <3>3, <4>1 DEF ListsMove, SameLists
      <4>3. Signals(t) /\ pc[t] = "lock_putter" => obj[t] \notin Members(putters)
        BY DEF Sleepers, PoppersStand, PutterPoppers, Listed
      <4> QED
        BY <1>2, <2>1, <2>3, <4>2, <4>3 DEF Carrying
    <3>4. ASSUME NEW u \in Threads, pc'[u] = "lock_putter", obj'[u] = obj[s]
          PROVE  Carrying(s) /\ ~(Signals(t) /\ pc[t] = "lock_putter")
      <4>1. CASE u # t
        <5>1. pc[u] = "lock_putter" /\ obj[u] = obj[s]
          BY <3>4, <4>1 DEF Others
        <5>2. pc[t] # "lock_putter"
          BY <4>1, <5>1, OneRefills DEF LockedLocations, RefillLocations
        <5> QED
          BY <2>3, <5>1, <5>2 DEF Carrying, Popped
      <4>2. CASE u = t /\ Halts
        <5>1. pc[t] = "lock_putter" /\ obj[t] = obj[s] /\ pc'[t] = "lock_putter"
          BY <3>4, <4>2 DEF Halts
        <5> QED
          BY <2>3, <5>1 DEF Carrying, Popped, Signals
      <4>3. CASE u = t /\ PopsPutter(t)
        <5>1. obj'[t] \in Members(putters)
          BY <4>3, PopsKept DEF PopsPutter, Sleepers, PuttersListed
        <5>2. pc'[t] = "lock_putter"
          BY <4>3 DEF PopsPutter
        <5> QED
          BY <2>3, <3>4, <4>3, <5>1, <5>2 DEF Carrying, Signals
      <4> QED
        BY <1>1, <3>4, <4>1, <4>2, <4>3
    <3> QED
      BY <1>2, <2>1, <3>1, <3>3, <3>4
  <2> QED
    BY <2>2, <2>3
<1>3. CASE s = t
  <2>1. pc'[t] \in early \cup waits
    BY <1>3 DEF Carrying
  <2>2. CASE Halts
    <3>1. Carrying(t)
      BY <1>3, <2>2 DEF Halts, Carrying, Popped
    <3> QED
      BY <1>3, <2>1, <2>2, <3>1 DEF Halts, Signals
  <2>3. CASE Passes(t)
    <3>1. pc'[t] = "put_loop"
      BY <2>1, <2>3 DEF Passes, WaiterLocations
    <3> QED
      BY <1>3, <2>3, <3>1 DEF Passes, Signals
  <2>4. CASE ListsPutter(t) \/ PopsGetter(t) \/ LocksGetter(t) \/ (Skips(t) /\ pc[t] = "lock_getter")
             \/ (DropsPopped(t) /\ pc'[t] = "put_loop")
    BY <1>3, <2>4 DEF ListsPutter, PopsGetter, LocksGetter, Skips, DropsPopped, Carrying, Signals
  <2>5. CASE (FallsAsleep(t) \/ Misses(t)) /\ pc[t] \in waits
    <3>1. /\ obj' = obj /\ putters' = putters /\ msg' = msg /\ pc[t] \in waits /\ pc'[t] \in waits
          /\ pc'[t] # "lock_putter"
      BY <2>5 DEF FallsAsleep, Misses, SameLists
    <3>2. Popped(obj[t])' => Popped(obj[t])
      <4>1. ASSUME NEW u \in Threads, pc'[u] = "lock_putter" PROVE pc[u] = "lock_putter"
        BY <3>1, <4>1 DEF Others
      <4> QED
        BY <3>1, <4>1 DEF Popped
    <3>3. Carrying(t)
      BY <1>3, <3>1, <3>2 DEF Carrying
    <3> QED
      BY <1>3, <3>1, <3>3 DEF Signals
  <2> QED
    BY <2>1, <2>2, <2>3, <2>4, <2>5 DEF Moves, ListsGetter, PopsPutter, Skips, Signals, DropsPopped,
       FallsAsleep, Misses, Abandons, Wakes, GivesUp, WaiterLocations
<1> QED
  BY <1>2, <1>3

(* A put's success is decided by handing its message over, or by the get   *)
(* that admits its putter.                                                 *)
LEMMA GivenStep ==
    ASSUME IInv, Sleepers, NEW t \in Threads, Moves(t), Others(t), NEW s \in Threads, Given(s)'
    PROVE  /\ msg'[s] = msg[s]
           /\ \/ Given(s)
              \/ s = t /\ Signals(t) /\ pc[t] = "hand_over"
              \/ /\ Signals(t) /\ pc[t] = "lock_putter"
                 /\ pc[s] = "put_wait" /\ obj[s] = obj[t]
<1>0. /\ waiter \in [Waiters -> WaiterObjects] /\ None \notin Messages
      /\ \A u \in Threads : pc[u] \in WaiterLocations =>
            obj[u] \in Waiters /\ waiter[obj[u]] \in WaiterObjects
  BY ThreadFacts, QcQueueAssumption
<1>1. CASE s # t /\ pc[s] # "put_wait"
  BY <1>1 DEF Others, Given
<1>2. CASE s # t /\ pc[s] = "put_wait"
  <2> DEFINE o == waiter[obj[s]]
             n == waiter'[obj[s]]
  <2>1. /\ pc'[s] = "put_wait" /\ obj'[s] = obj[s] /\ msg'[s] = msg[s]
        /\ n.cond = "signalled"
    BY <1>2 DEF Others, Given
  <2>2. /\ obj[s] \in Waiters /\ o \in WaiterObjects
        /\ pc[s] \in OwnerLocations /\ pc[s] \in WaiterLocations
    BY <1>0, <1>2 DEF OwnerLocations, PutterSleeps, WaiterLocations
  <2>3. o.message \in Messages
    BY <1>2, <2>2 DEF IInv, PuttersCarryMessages, PutterLocations
  <2>4. CASE SameWait(o, n)
    BY <1>2, <2>1, <2>4 DEF SameWait, Given
  <2>5. CASE obj[t] = obj[s] /\ LocksGetter(t)
    <3>1. n = [o EXCEPT !.condlock = t]
      BY <1>0, <2>2, <2>5 DEF LocksGetter
    <3>2. o.cond = "signalled"
      BY <2>1, <2>2, <3>1 DEF WaiterObjects
    <3> QED
      BY <1>2, <2>1, <3>2 DEF Given
  <2>6. CASE obj[t] = obj[s] /\ Signals(t)
    <3>1. pc[t] # "hand_over"
      BY <1>0, <2>3, <2>6 DEF Sleepers, PoppersStand, PopperStands, GetterPoppers
    <3> QED
      BY <1>2, <2>1, <2>6, <3>1 DEF Signals
  <2>7. ~(obj[t] = obj[s] /\ (FallsAsleep(t) \/ Misses(t) \/ Abandons(t)))
    BY <1>2, <2>2 DEF Sleepers, OneOwner, FallsAsleep, Misses, Abandons, OwnerLocations,
       PutterSleeps, GetterSleeps
  <2>8. \/ SameWait(o, n)
        \/ /\ obj[t] = obj[s]
           /\ LocksGetter(t) \/ Signals(t) \/ FallsAsleep(t) \/ Misses(t) \/ Abandons(t)
    BY <1>2, <2>2, WaitMoves
  <2> QED
    BY <2>4, <2>5, <2>6, <2>7, <2>8
<1>3. CASE s = t
  <2>1. CASE Halts
    BY <1>3, <2>1 DEF Halts, Given
  <2>2. CASE Signals(t)
    BY <1>3, <2>2 DEF Signals, Given
  <2>3. CASE FallsAsleep(t)
    <3>1. obj[t] \in Waiters /\ waiter[obj[t]] \in WaiterObjects
      BY <1>0, <2>3 DEF FallsAsleep, WaiterLocations
    <3>2. waiter'[obj[t]] = Asleep(waiter[obj[t]]) /\ obj' = obj /\ pc'[t] # "drop_getter"
      BY <1>0, <2>3, <3>1 DEF FallsAsleep
    <3>3. waiter'[obj[t]].cond = "waiting"
      BY <3>1, <3>2, AsleepFields
    <3> QED
      BY <1>3, <3>2, <3>3 DEF Given
  <2>4. CASE Misses(t)
    <3>1. obj[t] \in Waiters /\ waiter[obj[t]] \in WaiterObjects
      BY <1>0, <2>4 DEF Misses, WaiterLocations
    <3>2. /\ waiter'[obj[t]] = [waiter[obj[t]] EXCEPT !.cond = "expired"]
          /\ obj' = obj /\ pc'[t] # "drop_getter"
      BY <1>0, <2>4, <3>1 DEF Misses
    <3>3. waiter'[obj[t]].cond = "expired"
      BY <3>1, <3>2 DEF WaiterObjects
    <3> QED
      BY <1>3, <3>2, <3>3 DEF Given
  <2>5. pc'[t] \in {"drop_getter", "put_wait"}
    BY <1>3 DEF Given
  <2> QED
    BY <2>1, <2>2, <2>3, <2>4, <2>5 DEF Moves, Passes, ListsGetter, ListsPutter, PopsGetter,
       PopsPutter, LocksGetter, Skips, DropsPopped, Abandons, Wakes, GivesUp, WaiterLocations
<1> QED
  BY <1>1, <1>2, <1>3

(* The ways a step moves messages: not at all; *)
Stays == Held' = Held /\ accepted' = accepted /\ delivered' = delivered

(* a caller brings one;                                                    *)
Brings(t) == \E m \in Messages : PutCall(t, m) /\ Held' = Held

(* a thread's message enters the queue, by its own hand or by the get that *)
(* admits its putter;                                                      *)
Enters(t) == \E s \in Threads :
    /\ Carrying(s) /\ Held' = Held \cup {msg[s]} /\ delivered' = delivered
    /\ \/ s = t /\ pc[t] = "put_loop" /\ pc'[t] = "idle" /\ accepted' = accepted \cup {msg[t]}
       \/ s = t /\ Signals(t) /\ pc[t] = "hand_over" /\ accepted' = accepted
       \/ /\ Signals(t) /\ pc[t] = "lock_putter" /\ accepted' = accepted
          /\ pc[s] = "put_wait" /\ obj[s] = obj[t]

(* a put reports that it entered;                                          *)
Reports(t) ==
    /\ Given(t) /\ pc'[t] = "idle" /\ accepted' = accepted \cup {msg[t]}
    /\ Held' = Held /\ delivered' = delivered

(* a get returns one;                                                      *)
Delivers == \E m \in Held :
    Held' = Held \ {m} /\ delivered' = delivered \cup {m} /\ accepted' = accepted

(* a force-put adds one, and may drop another.                             *)
Forces == \E m \in Messages :
    /\ Reusable(m) /\ pc' = pc /\ msg' = msg /\ accepted' = accepted \cup {m}
    /\ \/ Held' = Held \cup {m} /\ delivered' = delivered \ {m}
       \/ \E e \in Held : /\ Held' = (Held \ {e}) \cup {m}
                          /\ delivered' = (delivered \ {m}) \cup {e}

Flows(t) ==
    /\ Apart'
    /\ Stays \/ Brings(t) \/ Enters(t) \/ Reports(t) \/ Delivers \/ Forces
    /\ Signals(t) => Enters(t)

(* What may be put again is not in the queue. *)
LEMMA ReusableIsOut ==
    ASSUME NEW m, Reusable(m)
    PROVE  m \notin Held /\ \A s \in Threads : msg[s] # m
BY DEF Reusable, Held, Hand, Queued, Range

(* A thread that returns a message is the only one; where nobody can, none *)
(* is returned.                                                            *)
LEMMA HandIs ==
    ASSUME Control, NEW t \in Threads
    PROVE  /\ pc[t] \in RefillLocations => Hand = {msg[t]}
           /\ quelock = None => Hand = {}
<1>1. ASSUME NEW u \in Threads, pc[u] \in RefillLocations PROVE quelock = u
  BY <1>1 DEF Control, LockedLocations
<1>2. None \notin Threads
  BY QcQueueAssumption
<1>3. ASSUME pc[t] \in RefillLocations PROVE Hand = {msg[t]}
  <2>1. {u \in Threads : pc[u] \in RefillLocations} = {t}
    BY <1>1, <1>3
  <2> QED
    BY <2>1 DEF Hand
<1>4. ASSUME quelock = None PROVE Hand = {}
  <2>1. {u \in Threads : pc[u] \in RefillLocations} = {}
    BY <1>1, <1>2, <1>4
  <2> QED
    BY <2>1 DEF Hand
<1> QED
  BY <1>3, <1>4

LEMMA HandKept ==
    ASSUME NEW t \in Threads, Others(t),
           pc[t] \in RefillLocations <=> pc'[t] \in RefillLocations,
           pc'[t] \in RefillLocations => msg'[t] = msg[t]
    PROVE  Hand' = Hand
<1>1. \A u \in Threads : /\ pc[u] \in RefillLocations <=> pc'[u] \in RefillLocations
                         /\ pc'[u] \in RefillLocations => msg'[u] = msg[u]
  BY DEF Others
<1> QED
  BY <1>1 DEF Hand

(* A step that touches neither the chain nor the tempList nor the messages *)
(* being returned leaves every message where it is.                        *)
LEMMA NothingFlows ==
    ASSUME Apart, NEW t \in Threads, Others(t), ~Signals(t), chain' = chain, temp' = temp,
           accepted' = accepted, delivered' = delivered,
           pc[t] \in RefillLocations <=> pc'[t] \in RefillLocations,
           pc'[t] \in RefillLocations => msg'[t] = msg[t]
    PROVE  Flows(t)
<1>1. Hand' = Hand
  BY HandKept
<1>2. Apart' /\ Held' = Held
  BY <1>1 DEF Apart, Held
<1> QED
  BY <1>2 DEF Flows, Stays

(* A message the queue does not have enters the chain ... *)
LEMMA EntersChain ==
    ASSUME Apart, NEW m \in Messages, m \notin Held, NEW p \in Prios,
           chain' = Pushed(chain, p, m), temp' = temp, Hand' = Hand
    PROVE  Apart' /\ Held' = Held \cup {m}
<1>1. m \notin Members(chain) /\ m \notin Range(temp) /\ m \notin Hand
  BY DEF Held
<1>2. Kept(Messages, chain') /\ Members(chain') = Members(chain) \cup {m}
  BY <1>1, PushedKept, PushedMembers DEF Apart
<1> QED
  BY <1>1, <1>2 DEF Apart, Held

(* ... or the tempList. *)
LEMMA EntersTemp ==
    ASSUME IInv, Apart, NEW m \in Messages, m \notin Held,
           temp' = Append(temp, m), chain' = chain, Hand' = Hand
    PROVE  Apart' /\ Held' = Held \cup {m}
<1>1. m \notin Members(chain) /\ m \notin Range(temp) /\ m \notin Hand
  BY DEF Held
<1>2. IsInjective(temp') /\ Range(temp') = Range(temp) \cup {m}
  BY <1>1, Appended DEF Apart, IInv, TypeOK
<1> QED
  BY <1>1, <1>2 DEF Apart, Held

(* A message the queue has is delivered: from the tempList, ... *)
LEMMA LeavesTemp ==
    ASSUME IInv, Apart, NEW t \in Threads, ~Signals(t), temp # <<>>, temp' = Tail(temp),
           chain' = chain, Hand' = Hand,
           accepted' = accepted, delivered' = delivered \cup {Head(temp)}
    PROVE  Flows(t)
<1> DEFINE m == Head(temp)
<1>1. m \in Range(temp) /\ IsInjective(temp') /\ Range(temp') = Range(temp) \ {m}
  BY HeadLeftOut DEF Apart, IInv, TypeOK
<1> HIDE DEF m
<1>2. m \notin Members(chain) /\ m \notin Hand
  BY <1>1 DEF Apart
<1>3. Apart'
  BY <1>1, <1>2 DEF Apart
<1>4. m \in Held /\ Held' = Held \ {m}
  BY <1>1, <1>2 DEF Held
<1>5. Delivers
  BY <1>4 DEF Delivers, m
<1> QED
  BY <1>3, <1>5 DEF Flows

(* ... and by the thread that popped it. *)
LEMMA LeavesHand ==
    ASSUME Apart, NEW t \in Threads, ~Signals(t), Hand = {msg[t]}, Hand' = {},
           temp' = temp, chain' = chain,
           accepted' = accepted, delivered' = delivered \cup {msg[t]}
    PROVE  Flows(t)
<1>1. msg[t] \notin Members(chain) /\ msg[t] \notin Range(temp)
  BY DEF Apart
<1>2. Apart'
  BY DEF Apart
<1>3. msg[t] \in Held /\ Held' = Held \ {msg[t]}
  BY <1>1 DEF Held
<1>4. Delivers
  BY <1>3 DEF Delivers
<1> QED
  BY <1>2, <1>4 DEF Flows

(* The putter whose message a get admits is waiting for just that.         *)
LEMMA AdmittedWaits ==
    ASSUME IInv, Sleepers, PopperAdmits, NEW t \in Threads, pc[t] = "lock_putter",
           waiter[obj[t]].condlock = None, ~Abandoned(obj[t])
    PROVE  \E s \in Threads : /\ pc[s] = "put_wait" /\ obj[s] = obj[t] /\ Carrying(s)
                              /\ msg[s] = waiter[obj[t]].message
<1>1. PICK s \in Threads : pc[s] \in {"put_sleep", "put_wait"} /\ obj[s] = obj[t]
  BY DEF PopperAdmits, Awaited, Abandoned
<1>2. pc[s] \in OwnerLocations /\ pc[s] \in PutterSleeps
  BY <1>1 DEF OwnerLocations, PutterSleeps
<1>3. OwnerStands(pc[s], s, waiter[obj[t]], msg[s])
  BY <1>1, <1>2 DEF Sleepers, OwnersStand
<1>4. s # None
  BY QcQueueAssumption
<1>5. pc[s] = "put_wait" /\ msg[s] = waiter[obj[t]].message
  BY <1>1, <1>2, <1>3, <1>4 DEF OwnerStands
<1>6. Carrying(s)
  BY <1>1, <1>5 DEF Carrying, Popped
<1> QED
  BY <1>1, <1>5, <1>6

(* A force-put moves messages between the chain and the caller only. *)
LEMMA ForcesStep ==
    ASSUME IInv, Apart, NEW t \in Threads, Others(t), NEW m \in Messages, ForcePut(t, m)
    PROVE  Flows(t)
<1>1. /\ m \notin Held /\ temp' = temp /\ pc' = pc /\ msg' = msg /\ Reusable(m)
      /\ accepted' = accepted \cup {m}
  BY ReusableIsOut DEF ForcePut
<1>2. Hand' = Hand /\ ~Signals(t)
  BY <1>1 DEF Hand, Signals
<1>3. Prio[m] \in Prios /\ Kept(Messages, chain)
  BY QcQueueAssumption DEF Apart
<1>4. m \notin Members(chain) /\ m \notin Range(temp) /\ m \notin Hand
  BY <1>1 DEF Held
<1>5. CASE chain' = Pushed(chain, Prio[m], m) /\ delivered' = delivered \ {m}
  <2>1. Apart' /\ Held' = Held \cup {m}
    BY <1>1, <1>2, <1>3, <1>5, EntersChain
  <2> QED
    BY <1>1, <1>2, <1>5, <2>1 DEF Forces, Flows
<1>6. ASSUME NEW r \in Evictions(chain), chain' = Pushed(r.rest, Prio[m], m),
             delivered' = (delivered \ {m}) \cup {r.item}
      PROVE  Flows(t)
  <2> DEFINE e == r.item
             b == r.rest
  <2>1. /\ Kept(Messages, b) /\ e \in Members(chain) /\ Members(b) = Members(chain) \ {e}
    BY <1>3, EvictionsKept
  <2> HIDE DEF e, b
  <2>2. m \notin Members(b) /\ chain' = Pushed(b, Prio[m], m)
    BY <1>4, <1>6, <2>1 DEF b
  <2>3. Kept(Messages, chain') /\ Members(chain') = Members(b) \cup {m}
    BY <1>3, <2>1, <2>2, PushedKept, PushedMembers
  <2>4. Members(chain') = (Members(chain) \ {e}) \cup {m}
    BY <2>1, <2>3
  <2>5. Apart'
    BY <1>1, <1>2, <1>4, <2>3, <2>4 DEF Apart
  <2>6. e \in Held /\ e \notin Range(temp) /\ e \notin Hand
    BY <2>1 DEF Apart, Held
  <2>7. Held' = (Held \ {e}) \cup {m}
    BY <1>1, <1>2, <2>4, <2>6 DEF Held
  <2>8. delivered' = (delivered \ {m}) \cup {e}
    BY <1>6 DEF e
  <2> QED
    BY <1>1, <1>2, <2>5, <2>6, <2>7, <2>8 DEF Forces, Flows
<1> QED
  BY <1>5, <1>6 DEF ForcePut

(* What each step does to the places of messages. *)
LEMMA FlowStep ==
    ASSUME IInv, ExactWaits, Sleepers, Placement, NEW t \in Threads, Step(t)
    PROVE  Flows(t)
<1> USE DEF At, GoTo
<1>0. /\ Others(t) /\ Moves(t) /\ Apart /\ IInv'
      /\ pc \in [Threads -> Locations] /\ msg \in [Threads -> Messages \cup {None}]
      /\ obj \in [Threads -> Waiters \cup {None}]
  BY StepFacts DEF Placement, IInv, TypeOK, Locations
<1>a. ~(DeadlineRejected(t) /\ pc[t] \in OwnerLocations)
  BY DEF DeadlineRejected, Sleepers, OwnersStand, OwnerStands, ExactWaits
<1>b. ASSUME UNCHANGED <<chain, temp, accepted, delivered>>,
             pc[t] \notin RefillLocations, pc'[t] \notin RefillLocations,
             pc'[t] # "drop_getter"
      PROVE  Flows(t)
  BY <1>0, <1>b, NothingFlows DEF Signals, RefillLocations
<1>c. ASSUME UNCHANGED <<chain, temp, accepted, delivered, msg>>,
             pc[t] \in RefillLocations, pc'[t] \in RefillLocations,
             pc'[t] # "drop_putter"
      PROVE  Flows(t)
  BY <1>0, <1>c, NothingFlows DEF Signals, RefillLocations
<1>d. ASSUME NEW why, Fails(why) PROVE Flows(t)
  BY <1>d, <1>0, NothingFlows DEF Fails, queueVars, historyVars, Signals
<1>1. ASSUME NEW m \in Messages, PutCall(t, m) PROVE Flows(t)
  <2>1. /\ pc[t] \notin RefillLocations /\ pc'[t] \notin RefillLocations
        /\ chain' = chain /\ temp' = temp /\ ~Signals(t)
    BY <1>0, <1>1 DEF PutCall, queueVars, RefillLocations, Signals
  <2>2. Hand' = Hand
    BY <1>0, <2>1, HandKept
  <2>3. Apart' /\ Held' = Held
    BY <1>0, <2>1, <2>2 DEF Apart, Held
  <2> QED
    BY <1>1, <2>1, <2>3 DEF Brings, Flows
<1>2. CASE PutPopsGetter(t)
  <2>1. CASE Fails("freed")
    BY <1>d, <2>1
  <2>2. CASE ~Fails("freed")
    BY <1>0, <1>2, <1>b, <2>2 DEF PutPopsGetter, historyVars, RefillLocations
  <2> QED
    BY <2>1, <2>2
<1>3. CASE PutPushes(t)
  <2>1. /\ pc[t] = "put_loop" /\ pc'[t] = "idle" /\ temp' = temp
        /\ chain' = Pushed(chain, Prio[msg[t]], msg[t])
        /\ delivered' = delivered /\ accepted' = accepted \cup {msg[t]}
    BY <1>0, <1>3 DEF PutPushes, PutReturns, Idle
  <2>2. Carrying(t) /\ msg[t] \in Messages
    BY <2>1, ThreadFacts DEF Carrying, PutLocations
  <2>3. msg[t] \notin Held
    BY <2>2 DEF Placement, Puts, Seen
  <2>4. Hand' = Hand
    BY <1>0, <2>1, HandKept DEF RefillLocations
  <2>5. Apart' /\ Held' = Held \cup {msg[t]}
    BY <1>0, <2>1, <2>2, <2>3, <2>4, EntersChain, QcQueueAssumption
  <2>6. Enters(t)
    BY <2>1, <2>2, <2>5 DEF Enters
  <2> QED
    BY <2>5, <2>6 DEF Flows
<1>4. CASE PutListsPutter(t) \/ PutLocksGetter(t)
  BY <1>0, <1>4, <1>b DEF PutListsPutter, PutLocksGetter, historyVars, RefillLocations
<1>5. CASE PutHandsOver(t)
  <2>1. /\ pc[t] = "hand_over" /\ pc'[t] = "drop_getter" /\ temp' = Append(temp, msg[t])
        /\ chain' = chain /\ delivered' = delivered /\ accepted' = accepted
        /\ Signals(t)
    BY <1>0, <1>5 DEF PutHandsOver, TempGiven, Signals, SameLists, historyVars
  <2>2. Carrying(t) /\ msg[t] \in Messages
    BY <2>1, ThreadFacts DEF Carrying, PutLocations
  <2>3. msg[t] \notin Held
    BY <2>2 DEF Placement, Puts, Seen
  <2>4. Hand' = Hand
    BY <1>0, <2>1, HandKept DEF RefillLocations
  <2>5. Apart' /\ Held' = Held \cup {msg[t]}
    BY <1>0, <2>1, <2>2, <2>3, <2>4, EntersTemp
  <2>6. Enters(t)
    BY <2>1, <2>2, <2>5 DEF Enters
  <2> QED
    BY <2>5, <2>6 DEF Flows
<1>6. ASSUME Given(t), PutReturns(t), UNCHANGED <<chain, temp>>
      PROVE  Flows(t)
  <2>1. pc[t] \notin RefillLocations /\ pc'[t] = "idle" /\ pc'[t] \notin RefillLocations
    BY <1>0, <1>6 DEF Given, PutReturns, Idle, RefillLocations
  <2>2. Hand' = Hand
    BY <1>0, <2>1, HandKept
  <2>3. Apart' /\ Held' = Held
    BY <1>0, <1>6, <2>2 DEF Apart, Held
  <2>4. Reports(t)
    BY <1>6, <2>1, <2>3 DEF Reports, PutReturns
  <2>5. ~Signals(t)
    BY <2>1 DEF Signals
  <2> QED
    BY <2>3, <2>4, <2>5 DEF Flows
<1>7. CASE PutDropsGetter(t)
  <2>1. CASE pc[t] = "drop_getter"
    BY <1>6, <1>7, <2>1 DEF PutDropsGetter, Given, queueVars
  <2>2. CASE pc[t] # "drop_getter"
    BY <1>0, <1>7, <1>b, <2>2 DEF PutDropsGetter, queueVars, historyVars, RefillLocations
  <2> QED
    BY <2>1, <2>2
<1>8. CASE PutSleeps(t)
  <2>1. Sleeps(t, "put_wait") /\ pc[t] = "put_sleep"
    BY <1>8, <1>a DEF PutSleeps, OwnerLocations, PutterSleeps
  <2> QED
    BY <1>0, <1>8, <1>b, <2>1 DEF PutSleeps, Sleeps, queueVars, historyVars, RefillLocations
<1>9. CASE PutWakes(t)
  <2>1. pc[t] = "put_wait" /\ waiter[obj[t]].cond \in {"signalled", "spurious"}
    BY <1>9 DEF PutWakes, Awake
  <2>2. waiter[obj[t]].cond # "spurious"
    BY <2>1 DEF Sleepers, OwnersStand, OwnerStands, OwnerLocations, PutterSleeps
  <2>3. Given(t)
    BY <2>1, <2>2 DEF Given
  <2> QED
    BY <1>6, <1>9, <2>3 DEF PutWakes, PutLeaves, queueVars
<1>10. CASE PutTimesOut(t) \/ GetTimesOut(t)
  BY <1>0, <1>10, <1>b DEF PutTimesOut, GetTimesOut, TimesOut, queueVars, historyVars, RefillLocations
<1>11. CASE PutGivesUp(t) \/ GetGivesUp(t)
  BY <1>0, <1>11, <1>b DEF PutGivesUp, GetGivesUp, Idle, historyVars, RefillLocations
<1>12. CASE GetListsGetter(t)
  BY <1>0, <1>12, <1>b DEF GetListsGetter, historyVars, RefillLocations
<1>13. CASE GetPops(t)
  <2>1. CASE Fails("pop")
    BY <1>d, <2>1
  <2>2. CASE ~Fails("pop")
    <3>1. PICK r \in Pops(chain) : /\ chain' = r.rest /\ msg'[t] = r.item /\ pc'[t] = "refill"
                                   /\ temp' = temp /\ UNCHANGED historyVars
      BY <1>0, <1>13, <2>2 DEF GetPops
    <3>2. chain.count # 0 /\ quelock = None
      BY <1>13 DEF GetPops
    <3> DEFINE e == r.item
    <3>3. /\ Kept(Messages, chain') /\ e \in Members(chain) /\ Members(chain') = Members(chain) \ {e}
      BY <1>0, <3>1, <3>2, PopsKept DEF Apart
    <3>4. Hand = {} /\ Hand' = {e}
      <4>1. Hand = {}
        BY <3>2, HandIs DEF IInv
      <4>2. Control' /\ pc'[t] \in RefillLocations
        BY <1>0, <3>1 DEF IInv, RefillLocations
      <4>3. Hand' = {msg'[t]}
        <5>1. \A u \in Threads : pc'[u] \in RefillLocations <=> u = t
          BY <4>1, <4>2, <1>0 DEF Hand, Others
        <5> QED
          BY <5>1 DEF Hand
      <4> QED
        BY <3>1, <4>1, <4>3
    <3> HIDE DEF e
    <3>5. e \notin Range(temp) /\ Apart'
      BY <1>0, <3>1, <3>3, <3>4 DEF Apart
    <3>6. Held' = Held
      BY <3>1, <3>3, <3>4 DEF Held
    <3>7. ~Signals(t)
      BY <3>1 DEF Signals
    <3> QED
      BY <3>1, <3>5, <3>6, <3>7 DEF Flows, Stays, historyVars
  <2> QED
    BY <2>1, <2>2
<1>14. CASE GetSleeps(t)
  <2>1. Sleeps(t, "get_wait") /\ pc[t] = "get_sleep" /\ UNCHANGED queueVars
    BY <1>14, <1>a DEF GetSleeps, OwnerLocations, GetterSleeps
  <2> QED
    BY <1>0, <1>b, <2>1 DEF Sleeps, queueVars, historyVars, RefillLocations
<1>15. CASE GetWakes(t)
  <2>1. CASE Fails("get")
    BY <1>d, <2>1
  <2>2. CASE ~Fails("get")
    <3>1. /\ temp # <<>> /\ temp' = Tail(temp) /\ chain' = chain
          /\ pc[t] = "get_wait" /\ pc'[t] = "idle"
          /\ accepted' = accepted /\ delivered' = delivered \cup {Head(temp)}
      BY <1>0, <1>15, <2>2 DEF GetWakes, GetLeaves, GetReturns, Idle, TempTaken
    <3>2. Hand' = Hand
      BY <1>0, <3>1, HandKept DEF RefillLocations
    <3>3. ~Signals(t)
      BY <3>1 DEF Signals
    <3> QED
      BY <1>0, <3>1, <3>2, <3>3, LeavesTemp
  <2> QED
    BY <2>1, <2>2
<1>16. ASSUME pc[t] \in RefillLocations, GetReturns(t, msg[t]), UNCHANGED <<chain, temp>>
       PROVE  Flows(t)
  <2>1. Hand = {msg[t]}
    BY <1>16, HandIs DEF IInv
  <2>2. pc'[t] \notin RefillLocations /\ ~Signals(t)
    BY <1>0, <1>16 DEF GetReturns, Idle, RefillLocations, Signals
  <2>3. \A u \in Threads : pc'[u] \notin RefillLocations
    BY <1>0, <1>16, <2>2, OneRefills DEF Others, LockedLocations
  <2>4. Hand' = {}
    BY <2>3 DEF Hand
  <2> QED
    BY <1>0, <1>16, <2>1, <2>2, <2>4, LeavesHand DEF GetReturns
<1>17. CASE GetEnds(t)
  BY <1>16, <1>17 DEF GetEnds, RefillLocations
<1>18. CASE GetPopsPutter(t)
  <2>1. CASE \E why : Fails(why)
    BY <1>d, <2>1
  <2>2. CASE ~\E why : Fails(why)
    <3>1. /\ UNCHANGED <<chain, temp, accepted, delivered, msg>>
          /\ pc[t] = "refill" /\ pc'[t] = "lock_putter"
      BY <1>0, <1>18, <2>2 DEF GetPopsPutter, historyVars
    <3> QED
      BY <1>c, <3>1 DEF RefillLocations
  <2> QED
    BY <2>1, <2>2
<1>19. CASE GetLocksPutter(t)
  <2>1. CASE Fails("push")
    BY <1>d, <2>1
  <2>2. CASE Abandoned(obj[t])
    <3>1. UNCHANGED <<chain, temp, accepted, delivered, msg>>
      BY <1>19, <2>2 DEF GetLocksPutter, queueVars, historyVars
    <3>2. pc[t] = "lock_putter" /\ pc'[t] = "skip_putter"
      BY <1>0, <1>19, <2>2 DEF GetLocksPutter
    <3> QED
      BY <1>c, <3>1, <3>2 DEF RefillLocations
  <2>3. CASE ~Fails("push") /\ ~Abandoned(obj[t])
    <3> DEFINE m == waiter[obj[t]].message
    <3>1. /\ pc[t] = "lock_putter" /\ waiter[obj[t]].condlock = None
          /\ UNCHANGED <<temp, accepted, delivered, msg, obj, getters, putters>>
          /\ chain' = Pushed(chain, Prio[m], m)
          /\ waiter' = [waiter EXCEPT ![obj[t]] = Signalled(@)]
      BY <1>19, <2>3 DEF GetLocksPutter, historyVars
    <3>2. pc'[t] = "drop_putter"
      BY <1>0, <1>19, <2>3 DEF GetLocksPutter
    <3>3. Signals(t)
      BY <3>1, <3>2 DEF Signals, SameLists
    <3>4. PICK s \in Threads : pc[s] = "put_wait" /\ obj[s] = obj[t] /\ Carrying(s) /\ msg[s] = m
      BY <2>3, <3>1, AdmittedWaits DEF Placement
    <3>5. m \in Messages /\ m \notin Held
      BY <3>4, ThreadFacts DEF PutLocations, Placement, Puts, Seen
    <3>6. Hand' = Hand
      BY <1>0, <3>1, <3>2, HandKept DEF RefillLocations
    <3> HIDE DEF m
    <3>7. Apart' /\ Held' = Held \cup {m}
      BY <1>0, <3>1, <3>5, <3>6, EntersChain, QcQueueAssumption
    <3>8. Enters(t)
      BY <3>1, <3>3, <3>4, <3>7 DEF Enters
    <3> QED
      BY <3>7, <3>8 DEF Flows
  <2> QED
    BY <2>1, <2>2, <2>3
<1>20. CASE GetDropsPutter(t)
  <2>1. CASE pc[t] = "drop_putter"
    BY <1>16, <1>20, <2>1 DEF GetDropsPutter, RefillLocations
  <2>2. CASE pc[t] # "drop_putter"
    <3>1. /\ UNCHANGED <<chain, temp, accepted, delivered, msg>>
          /\ pc[t] = "skip_putter" /\ pc'[t] = "refill"
      BY <1>0, <1>20, <2>2 DEF GetDropsPutter, historyVars
    <3> QED
      BY <1>c, <3>1 DEF RefillLocations
  <2> QED
    BY <2>1, <2>2
<1>21. CASE Expires(t) \/ WakesUnprompted(t)
  BY <1>0, <1>21, NothingFlows DEF Expires, WakesUnprompted, queueVars, historyVars, Signals
<1>22. ASSUME NEW m \in Messages, ForcePut(t, m) PROVE Flows(t)
  BY <1>0, <1>22, ForcesStep
<1> QED
  BY <1>1, <1>2, <1>3, <1>4, <1>5, <1>7, <1>8, <1>9, <1>10, <1>11, <1>12, <1>13, <1>14, <1>15,
     <1>17, <1>18, <1>19, <1>20, <1>21, <1>22 DEF Step, PutStep, GetStep, GetCall

(* Only a call brings a thread a message to put. *)
LEMMA PutMessageKept ==
    ASSUME NEW t \in Threads, Moves(t), Others(t), NEW s \in Threads, pc'[s] \in PutLocations
    PROVE  \/ pc[s] \in PutLocations /\ msg'[s] = msg[s]
           \/ s = t /\ \E m \in Messages : PutCall(t, m)
<1>1. CASE s # t
  BY <1>1 DEF Others
<1>2. CASE s = t
  <2>1. CASE Halts
    BY <1>2, <2>1 DEF Halts
  <2>2. CASE Passes(t)
    BY <1>2, <2>2 DEF Passes, PutLocations, WaiterLocations
  <2>3. CASE ListsPutter(t) \/ PopsGetter(t) \/ LocksGetter(t) \/ Skips(t) \/ Signals(t)
    BY <1>2, <2>3 DEF ListsPutter, PopsGetter, LocksGetter, Skips, Signals, PutLocations
  <2>4. CASE ListsGetter(t) \/ PopsPutter(t) \/ Wakes(t) \/ GivesUp(t)
    BY <1>2, <2>4 DEF ListsGetter, PopsPutter, Wakes, GivesUp, PutLocations
  <2>5. CASE DropsPopped(t)
    BY <1>2, <2>5 DEF DropsPopped, PutLocations, WaiterLocations
  <2>6. CASE FallsAsleep(t) \/ Misses(t) \/ Abandons(t)
    BY <1>2, <2>6 DEF FallsAsleep, Misses, Abandons, PutLocations
  <2> QED
    BY <2>1, <2>2, <2>3, <2>4, <2>5, <2>6 DEF Moves
<1> QED
  BY <1>1, <1>2

(* The messages seen after each way a step moves messages. *)
LEMMA SeenStep ==
    ASSUME NEW t \in Threads, Flows(t), accepted \subseteq Seen, delivered \cap Held = {}
    PROVE  /\ accepted' \subseteq Seen' \/ Reports(t)
           /\ delivered' \cap Held' = {} \/ Enters(t)
           /\ Stays \/ Reports(t) \/ Delivers => Seen' = Seen
           /\ \A s \in Threads : Held' = Held \cup {msg[s]} /\ delivered' = delivered
                 => Seen' = Seen \cup {msg[s]}
           /\ \A m \in Messages : PutCall(t, m) /\ Held' = Held => Seen' = Seen \ {m}
<1>1. Stays \/ Reports(t) \/ Delivers => Seen' = Seen
  BY DEF Stays, Reports, Delivers, Seen
<1>2. \A s \in Threads : Held' = Held \cup {msg[s]} /\ delivered' = delivered
                 => Seen' = Seen \cup {msg[s]}
  BY DEF Seen
<1>3. ASSUME NEW m \in Messages, PutCall(t, m), Held' = Held
      PROVE  /\ Seen' = Seen \ {m} /\ accepted' \subseteq Seen' /\ delivered' \cap Held' = {}
  <2>1. m \notin Held
    BY <1>3, ReusableIsOut DEF PutCall
  <2> QED
    BY <1>3, <2>1 DEF PutCall, Forgotten, Seen
<1>4. ASSUME Stays \/ Delivers PROVE accepted' \subseteq Seen' /\ delivered' \cap Held' = {}
  <2>1. Seen' = Seen /\ accepted' = accepted
    BY <1>1, <1>4 DEF Stays, Delivers
  <2>2. delivered' \cap Held' = {}
    BY <1>4 DEF Stays, Delivers
  <2> QED
    BY <2>1, <2>2
<1>5. ASSUME Brings(t) PROVE accepted' \subseteq Seen' /\ delivered' \cap Held' = {}
  BY <1>3, <1>5 DEF Brings
<1>6. ASSUME Enters(t) PROVE accepted' \subseteq Seen'
  <2>1. PICK s \in Threads : /\ Held' = Held \cup {msg[s]} /\ delivered' = delivered
                             /\ accepted' \subseteq accepted \cup {msg[s]}
    BY <1>6 DEF Enters
  <2>2. Seen' = Seen \cup {msg[s]}
    BY <1>2, <2>1
  <2> QED
    BY <2>1, <2>2
<1>7. ASSUME Reports(t) PROVE delivered' \cap Held' = {}
  BY <1>7 DEF Reports
<1>8. ASSUME Forces PROVE accepted' \subseteq Seen' /\ delivered' \cap Held' = {}
  <2>1. PICK m \in Messages :
           /\ Reusable(m) /\ accepted' = accepted \cup {m}
           /\ \/ Held' = Held \cup {m} /\ delivered' = delivered \ {m}
              \/ \E e \in Held : /\ Held' = (Held \ {e}) \cup {m}
                                 /\ delivered' = (delivered \ {m}) \cup {e}
    BY <1>8 DEF Forces
  <2>2. m \notin Held
    BY <2>1, ReusableIsOut
  <2>3. delivered' \cap Held' = {}
    BY <2>1, <2>2
  <2>4. Seen' = Seen \cup {m}
    BY <2>1 DEF Seen
  <2> QED
    BY <2>1, <2>3, <2>4
<1>9. /\ accepted' \subseteq Seen' \/ Reports(t)
      /\ delivered' \cap Held' = {} \/ Enters(t)
  BY <1>4, <1>5, <1>6, <1>7, <1>8 DEF Flows
<1> QED
  BY <1>1, <1>2, <1>3, <1>9

LEMMA PutsStep ==
    ASSUME IInv, ExactWaits, Sleepers, Placement, NEW t \in Threads, Step(t), Flows(t)
    PROVE  Puts'
<1>0. /\ Moves(t) /\ Others(t) /\ Puts /\ accepted \subseteq Seen /\ delivered \cap Held = {}
      /\ pc \in [Threads -> Locations] /\ msg \in [Threads -> Messages \cup {None}]
  BY StepFacts DEF Placement, IInv, TypeOK, Locations
<1>1. ASSUME NEW s \in Threads, Carrying(s) PROVE pc[s] \in PutLocations /\ msg[s] \notin Seen
  BY <1>0, <1>1 DEF Carrying, PutLocations, Puts
<1>2. ASSUME NEW s \in Threads, NEW u \in Threads,
             pc[s] \in PutLocations, pc[u] \in PutLocations, msg[s] = msg[u]
      PROVE  s = u
  BY <1>0, <1>2 DEF Puts
<1>3. ASSUME NEW m \in Messages, PutCall(t, m)
      PROVE  /\ msg'[t] = m /\ pc[t] = "idle" /\ pc'[t] = "put_loop" /\ Reusable(m)
             /\ m \notin accepted' /\ m \notin Held
             /\ (\A s \in Threads : msg[s] # m) /\ accepted' \subseteq accepted
             /\ delivered' = delivered \ {m}
  BY <1>0, <1>3, ReusableIsOut DEF PutCall, At, GoTo, Forgotten
<1>4. ASSUME NEW s \in Threads, pc'[s] \in PutLocations PROVE msg'[s] \notin accepted'
  <2>1. CASE pc[s] \in PutLocations /\ msg'[s] = msg[s]
    <3>1. msg[s] \notin accepted
      BY <1>0, <2>1 DEF Puts
    <3>2. CASE accepted' \subseteq accepted
      BY <2>1, <3>1, <3>2
    <3>3. CASE accepted' = accepted \cup {msg[t]} /\ pc'[t] = "idle" /\ pc[t] \in PutLocations
      <4>1. s # t
        BY <1>4, <3>3 DEF PutLocations
      <4> QED
        BY <1>2, <2>1, <3>1, <3>3, <4>1
    <3>4. CASE Forces
      BY <2>1, <3>1, <3>4, ReusableIsOut DEF Forces
    <3>5. accepted' \subseteq accepted
          \/ (accepted' = accepted \cup {msg[t]} /\ pc'[t] = "idle" /\ pc[t] \in PutLocations)
          \/ Forces
      <4>1. CASE Enters(t)
        BY <4>1 DEF Enters, PutLocations
      <4>2. CASE Reports(t)
        BY <4>2 DEF Reports, Given, PutLocations
      <4> QED
        BY <1>3, <4>1, <4>2 DEF Flows, Stays, Brings, Delivers
    <3> QED
      BY <3>2, <3>3, <3>4, <3>5
  <2>2. CASE s = t /\ \E m \in Messages : PutCall(t, m)
    BY <1>3, <2>2
  <2> QED
    BY <1>0, <1>4, <2>1, <2>2, PutMessageKept
<1>5. ASSUME NEW s \in Threads, NEW u \in Threads, s # t,
             pc'[s] \in PutLocations, pc'[u] \in PutLocations, msg'[s] = msg'[u]
      PROVE  s = u
  <2>1. pc[s] \in PutLocations /\ msg'[s] = msg[s]
    BY <1>0, <1>5 DEF Others
  <2>2. \/ pc[u] \in PutLocations /\ msg'[u] = msg[u]
        \/ u = t /\ \E m \in Messages : PutCall(t, m)
    BY <1>0, <1>5, PutMessageKept
  <2> QED
    BY <1>2, <1>3, <1>5, <2>1, <2>2
<1>6. ASSUME NEW s \in Threads, Carrying(s)' PROVE msg'[s] \notin Seen'
  <2>1. /\ \/ Carrying(s) /\ msg'[s] = msg[s]
           \/ s = t /\ \E m \in Messages : PutCall(t, m)
        /\ ~(Signals(t) /\ s = t)
        /\ ~(/\ Signals(t) /\ pc[t] = "lock_putter"
             /\ pc[s] \in {"put_sleep", "put_wait"} /\ obj[s] = obj[t])
    BY <1>0, <1>6, CarryingStep
  <2>2. CASE Carrying(s) /\ msg'[s] = msg[s]
    <3>1. pc[s] \in PutLocations /\ msg[s] \notin Seen
      BY <1>1, <2>2
    <3>2. CASE Stays \/ Reports(t) \/ Delivers
      BY <1>0, <2>2, <3>1, <3>2, SeenStep
    <3>3. CASE Brings(t)
      BY <1>0, <2>2, <3>1, <3>3, SeenStep DEF Brings
    <3>4. CASE Enters(t)
      <4>1. PICK u \in Threads :
              /\ Carrying(u) /\ Held' = Held \cup {msg[u]} /\ delivered' = delivered
              /\ \/ u = t /\ pc'[t] = "idle"
                 \/ u = t /\ Signals(t)
                 \/ Signals(t) /\ pc[t] = "lock_putter" /\ pc[u] = "put_wait" /\ obj[u] = obj[t]
        BY <3>4 DEF Enters
      <4>2. u # s
        BY <1>6, <2>1, <4>1 DEF Carrying
      <4>3. msg[s] # msg[u]
        BY <1>1, <1>2, <3>1, <4>1, <4>2
      <4>4. Seen' = Seen \cup {msg[u]}
        BY <1>0, <4>1, SeenStep
      <4> QED
        BY <2>2, <3>1, <4>3, <4>4
    <3>5. CASE Forces
      <4>1. PICK m \in Messages :
               /\ Reusable(m)
               /\ \/ Held' = Held \cup {m} /\ delivered' = delivered \ {m}
                  \/ \E e \in Held : /\ Held' = (Held \ {e}) \cup {m}
                                     /\ delivered' = (delivered \ {m}) \cup {e}
        BY <3>5 DEF Forces
      <4>2. msg[s] # m
        BY <4>1, ReusableIsOut
      <4>3. Seen' \subseteq Seen \cup {m}
        BY <4>1 DEF Seen
      <4> QED
        BY <2>2, <3>1, <4>2, <4>3
    <3> QED
      BY <3>2, <3>3, <3>4, <3>5 DEF Flows
  <2>3. ASSUME s = t, NEW m \in Messages, PutCall(t, m) PROVE msg'[s] \notin Seen'
    <3>1. Held' = Held
      <4>1. chain' = chain /\ temp' = temp
        BY <2>3 DEF PutCall, queueVars
      <4>2. Hand' = Hand
        BY <1>0, <1>3, <2>3, HandKept DEF RefillLocations
      <4> QED
        BY <4>1, <4>2 DEF Held
    <3> QED
      BY <1>3, <2>3, <3>1 DEF Seen
  <2> QED
    BY <2>1, <2>2, <2>3
<1>7. ASSUME NEW s \in Threads, Given(s)' PROVE msg'[s] \in Seen'
  <2>1. /\ msg'[s] = msg[s]
        /\ \/ Given(s)
           \/ s = t /\ Signals(t) /\ pc[t] = "hand_over"
           \/ /\ Signals(t) /\ pc[t] = "lock_putter"
              /\ pc[s] = "put_wait" /\ obj[s] = obj[t]
    BY <1>0, <1>7, GivenStep
  <2>2. CASE Given(s)
    <3>1. msg[s] \in Seen
      BY <1>0, <2>2 DEF Puts
    <3>2. CASE Stays \/ Reports(t) \/ Delivers
      BY <1>0, <2>1, <3>1, <3>2, SeenStep
    <3>3. CASE Brings(t)
      BY <1>0, <1>3, <2>1, <3>1, <3>3, SeenStep DEF Brings
    <3>4. CASE Enters(t) \/ Forces
      <4>1. Seen \subseteq Seen'
        BY <3>4 DEF Enters, Forces, Seen
      <4> QED
        BY <2>1, <3>1, <4>1
    <3> QED
      BY <3>2, <3>3, <3>4 DEF Flows
  <2>3. ASSUME Signals(t), pc[t] \in {"hand_over", "lock_putter"},
               \/ s = t /\ pc[t] = "hand_over"
               \/ pc[t] = "lock_putter" /\ pc[s] = "put_wait" /\ obj[s] = obj[t]
        PROVE  msg[s] \in Seen'
    <3>1. Enters(t)
      BY <2>3 DEF Flows
    <3>2. PICK u \in Threads :
            /\ Held' = Held \cup {msg[u]}
            /\ \/ u = t /\ pc[t] = "hand_over"
               \/ pc[t] = "lock_putter" /\ pc[u] = "put_wait" /\ obj[u] = obj[t]
      BY <2>3, <3>1 DEF Enters
    <3>3. u = s
      BY <2>3, <3>2 DEF Sleepers, OneOwner, OwnerLocations, PutterSleeps
    <3> QED
      BY <3>2, <3>3 DEF Seen
  <2> QED
    BY <2>1, <2>2, <2>3
<1> QED
  BY <1>4, <1>5, <1>6, <1>7 DEF Puts

LEMMA PlacementStep ==
    ASSUME IInv, ExactWaits, Sleepers, Placement, NEW t \in Threads, Step(t)
    PROVE  Placement'
<1>1. Moves(t) /\ Others(t) /\ IInv' /\ Flows(t)
  BY StepFacts, FlowStep
<1>2. Apart' /\ PopperAdmits' /\ Puts'
  BY <1>1, AdmitsStep, PutsStep DEF Flows, Placement
<1>3. accepted \subseteq Seen /\ delivered \cap Held = {} /\ Puts
  BY DEF Placement
<1>4. accepted' \subseteq Seen'
  <2>1. CASE Reports(t)
    <3>1. msg[t] \in Seen /\ accepted' = accepted \cup {msg[t]}
      BY <1>3, <2>1 DEF Reports, Puts
    <3>2. Seen' = Seen
      BY <1>1, <1>3, <2>1, SeenStep
    <3> QED
      BY <1>3, <3>1, <3>2
  <2> QED
    BY <1>1, <1>3, <2>1, SeenStep
<1>5. delivered' \cap Held' = {}
  <2>1. CASE Enters(t)
    <3>1. PICK s \in Threads : Carrying(s) /\ Held' = Held \cup {msg[s]} /\ delivered' = delivered
      BY <2>1 DEF Enters
    <3>2. msg[s] \notin delivered
      BY <1>3, <3>1 DEF Puts, Seen
    <3> QED
      BY <1>3, <3>1, <3>2
  <2> QED
    BY <1>1, <1>3, <2>1, SeenStep
<1> QED
  BY <1>2, <1>4, <1>5 DEF Placement

LEMMA InitPlacement == Init => Placement
<1> SUFFICES ASSUME Init PROVE Placement
  OBVIOUS
<1>1. Kept(Messages, chain) /\ Members(chain) = {}
  BY EmptyChainKept DEF Init
<1>2. IsInjective(temp) /\ Range(temp) = {}
  BY DEF Init, IsInjective, Range
<1>3. pc = [t \in Threads |-> "idle"] /\ accepted = {} /\ delivered = {}
  BY DEF Init
<1>4. Hand = {}
  BY <1>3 DEF Hand, RefillLocations
<1>5. Apart /\ Held = {} /\ Seen = {}
  BY <1>1, <1>2, <1>3, <1>4 DEF Apart, Held, Seen
<1>6. PopperAdmits /\ Puts
  BY <1>3 DEF PopperAdmits, Puts, Carrying, Given, PutLocations
<1> QED
  BY <1>3, <1>5, <1>6 DEF Placement

(* A message is in at most one place (the chain, the tempList or the hands *)
(* of the thread that popped it), leaves it only when it is delivered, and *)
(* is not there before its put gives it away: in a queue whose waits end   *)
(* only by a signal or at their deadline.                                  *)
THEOREM MessagesArePlaced ==
    ASSUME ExactWaits
    PROVE  Spec => []Placement
<1>1. Init => Placement
  BY InitPlacement
<1>2. IInv /\ Sleepers /\ Placement /\ [Next]_vars => Placement'
  <2>1. ASSUME IInv, Sleepers, Placement, Next PROVE Placement'
    BY <2>1, PlacementStep DEF Next
  <2>2. ASSUME Placement, UNCHANGED vars PROVE Placement'
    <3>1. Held' = Held /\ Hand' = Hand
      BY <2>2 DEF vars, Held, Hand
    <3>2. Apart' /\ Seen' = Seen
      BY <2>2, <3>1 DEF vars, Placement, Apart, Seen
    <3>3. PopperAdmits'
      BY <2>2 DEF vars, Placement, PopperAdmits, Awaited
    <3>4. Puts'
      BY <2>2, <3>2 DEF vars, Placement, Puts, Carrying, Popped, Given
    <3> QED
      BY <2>2, <3>1, <3>2, <3>3, <3>4 DEF vars, Placement
  <2> QED
    BY <2>1, <2>2
<1> QED
  BY <1>1, <1>2, Invariant, WaitersStand, PTL DEF Spec

-----------------------------------------------------------------------------
(* Copies of a message. *)

(* A set whose elements are equal counts none or one. *)
LEMMA AtMostOne ==
    ASSUME NEW S, \A x, y \in S : x = y
    PROVE  Cardinality(S) = IF S = {} THEN 0 ELSE 1
<1>1. CASE S = {}
  BY <1>1, FS_EmptySet
<1>2. CASE S # {}
  <2>1. PICK x \in S : S = {x}
    BY <1>2
  <2> QED
    BY <2>1, FS_Singleton
<1> QED
  BY <1>1, <1>2

(* The copies of a message: one where it is, none elsewhere. *)
LEMMA CopiesPlaced ==
    ASSUME IInv, Apart, NEW m \in Messages
    PROVE  /\ Copies(m) \in {0, 1}
           /\ Copies(m) = 1 <=> m \in Held
<1> DEFINE hand == InHand(m)
           taken == InTemp(m)
           queued == InChain(m)
<1>1. Cardinality(hand) = IF m \in Hand THEN 1 ELSE 0
  <2>1. \A x, y \in hand : x = y
    BY OneRefills DEF InHand, LockedLocations
  <2>2. hand = {} <=> m \notin Hand
    BY DEF InHand, Hand
  <2> HIDE DEF hand
  <2> QED
    BY <2>1, <2>2, AtMostOne
<1>2. Cardinality(taken) = IF m \in Range(temp) THEN 1 ELSE 0
  <2>1. \A x, y \in taken : x = y
    BY DEF InTemp, Apart, IsInjective
  <2>2. taken = {} <=> m \notin Range(temp)
    BY DEF InTemp, Range
  <2> HIDE DEF taken
  <2> QED
    BY <2>1, <2>2, AtMostOne
<1>3. Cardinality(queued) = IF m \in Members(chain) THEN 1 ELSE 0
  <2>1. Kept(Messages, chain)
    BY DEF Apart
  <2>2. ASSUME NEW x \in queued, NEW y \in queued PROVE x = y
    <3>1. /\ x[1] \in Prios /\ x[2] \in DOMAIN chain.bucket[x[1]] /\ x = <<x[1], x[2]>>
          /\ chain.bucket[x[1]][x[2]] = m
      BY <2>2 DEF InChain
    <3>2. /\ y[1] \in Prios /\ y[2] \in DOMAIN chain.bucket[y[1]] /\ y = <<y[1], y[2]>>
          /\ chain.bucket[y[1]][y[2]] = m
      BY <2>2 DEF InChain
    <3>3. x[1] = y[1] /\ x[2] = y[2]
      BY <2>1, <3>1, <3>2 DEF Kept, NoneTwice
    <3> QED
      BY <3>1, <3>2, <3>3
  <2>3. queued # {} => m \in Members(chain)
    BY DEF InChain, Members
  <2>4. ASSUME m \in Members(chain) PROVE queued # {}
    <3>1. PICK p \in Prios : \E i \in DOMAIN chain.bucket[p] : chain.bucket[p][i] = m
      BY <2>4 DEF Members
    <3>2. PICK i \in DOMAIN chain.bucket[p] : chain.bucket[p][i] = m
      BY <3>1
    <3>3. /\ DOMAIN chain.bucket[p] = 1..Len(chain.bucket[p]) /\ Len(chain.bucket[p]) \in Nat
          /\ Len(chain.bucket[p]) <= chain.count /\ chain.count \in 0..Limit /\ Limit \in Nat
      BY <2>1, BucketTyped, ListWithinCount, QcQueueAssumption DEF Kept, IInv, LimitKept
    <3>4. i \in 1..Limit
      BY <3>3
    <3>5. <<p, i>> \in queued
      BY <3>2, <3>4 DEF InChain
    <3> QED
      BY <3>5
  <2> HIDE DEF queued
  <2> QED
    BY <2>2, <2>3, <2>4, AtMostOne
<1>4. Copies(m) = Cardinality(hand) + Cardinality(taken) + Cardinality(queued)
  BY DEF Copies
<1>5. /\ ~(m \in Members(chain) /\ m \in Range(temp)) /\ ~(m \in Members(chain) /\ m \in Hand)
      /\ ~(m \in Range(temp) /\ m \in Hand)
      /\ m \in Held <=> m \in Members(chain) \/ m \in Range(temp) \/ m \in Hand
  BY DEF Apart, Held
<1> HIDE DEF hand, taken, queued
<1> QED
  BY <1>1, <1>2, <1>3, <1>4, <1>5

(* Exactly once: a message whose put reported success is in one place until*)
(* it is delivered and in none afterwards, across hand-overs, admissions,  *)
(* time-outs and force-puts: never lost, never delivered twice.            *)
THEOREM MessagesArePassedOnce ==
    ASSUME ExactWaits
    PROVE  Spec => []ExactlyOnce
<1>1. IInv /\ Placement => ExactlyOnce
  <2> SUFFICES ASSUME IInv, Placement, NEW m \in Messages
               PROVE  /\ Copies(m) <= 1
                      /\ m \in delivered => Copies(m) = 0
                      /\ m \in accepted \ delivered => Copies(m) = 1
    BY DEF ExactlyOnce
  <2>1. Copies(m) \in {0, 1} /\ (Copies(m) = 1 <=> m \in Held)
    BY CopiesPlaced DEF Placement
  <2>2. /\ m \in delivered => m \notin Held
        /\ m \in accepted \ delivered => m \in Held
    BY DEF Placement, Seen
  <2> QED
    BY <2>1, <2>2
<1> QED
  BY <1>1, Invariant, MessagesArePlaced, PTL

-----------------------------------------------------------------------------
(* What can stop the process. *)

(* A listed waiter has an owner, whose reference keeps it. *)
LEMMA ListedAreAlive ==
    ASSUME IInv, Sleepers, NEW w \in Listed
    PROVE  waiter[w].ref \in Nat \ {0}
<1>1. w \in Range(getters) \/ w \in Members(putters)
  BY DEF Listed, Range
<1>2. PICK s \in Threads : pc[s] \in OwnerLocations /\ obj[s] = w
  BY <1>1 DEF Sleepers, GettersListed, PuttersListed, Awaited, OwnerLocations
<1> QED
  BY <1>2, ThreadFacts DEF OwnerLocations, PutterSleeps, GetterSleeps, WaiterLocations

(* No step fails but a pop whose search ends below the lowest priority. *)
LEMMA FailsStep ==
    ASSUME IInv, ExactWaits, Sleepers, SignalBacked, Apart, NEW t \in Threads, Step(t)
    PROVE  \/ failed' = failed
           \/ failed' = "pop" /\ chain.count # 0 /\ Pops(chain) = {}
           \/ failed' = "pop_putter" /\ putters.count # 0 /\ Pops(putters) = {}
<1>a. ~(DeadlineRejected(t) /\ pc[t] \in OwnerLocations)
  BY DEF DeadlineRejected, Sleepers, OwnersStand, OwnerStands, ExactWaits
<1>1. ASSUME NEW m \in Messages, PutCall(t, m) \/ ForcePut(t, m) PROVE failed' = failed
  BY <1>1 DEF PutCall, ForcePut
<1>2. CASE PutPopsGetter(t)
  <2>1. waiter[Head(getters)].ref # 0
    <3>1. Head(getters) \in Listed
      BY <1>2, HeadLeftOut DEF PutPopsGetter, NoGetterListed, IInv, TypeOK, Sleepers,
         GettersListed, Listed, Range
    <3> QED
      BY <3>1, ListedAreAlive
  <2> QED
    BY <1>2, <2>1 DEF PutPopsGetter
<1>3. CASE PutPushes(t) \/ PutListsPutter(t) \/ PutLocksGetter(t) \/ PutHandsOver(t)
           \/ PutDropsGetter(t) \/ PutSleeps(t) \/ PutWakes(t) \/ PutTimesOut(t) \/ PutGivesUp(t)
  BY <1>3 DEF PutPushes, PutListsPutter, PutLocksGetter, PutHandsOver, PutDropsGetter, PutSleeps,
     PutWakes, PutTimesOut, PutGivesUp, TimesOut
<1>4. CASE GetListsGetter(t) \/ GetTimesOut(t) \/ GetGivesUp(t) \/ GetEnds(t) \/ GetDropsPutter(t)
           \/ Expires(t) \/ WakesUnprompted(t)
  BY <1>4 DEF GetListsGetter, GetTimesOut, TimesOut, GetGivesUp, GetEnds, GetDropsPutter, Expires,
     WakesUnprompted
<1>5. CASE GetSleeps(t)
  BY <1>5, <1>a DEF GetSleeps, At, OwnerLocations, GetterSleeps
<1>6. CASE GetWakes(t)
  <2>1. temp # <<>>
    <3>1. pc[t] = "get_wait" /\ waiter[obj[t]].cond \in {"signalled", "spurious"}
      BY <1>6 DEF GetWakes, At, Awake
    <3>2. waiter[obj[t]].cond # "spurious"
      BY <3>1 DEF Sleepers, OwnersStand, OwnerStands, OwnerLocations, GetterSleeps
    <3>3. t \in SignalledGetters
      BY <3>1, <3>2 DEF SignalledGetters
    <3>4. IsFiniteSet(SignalledGetters)
      BY QcQueueAssumption, FS_Subset DEF SignalledGetters
    <3>5. Cardinality(SignalledGetters) \in Nat \ {0}
      BY <3>3, <3>4, FS_CardinalityType, FS_EmptySet
    <3>6. Len(temp) # 0 /\ Len(temp) \in Nat
      BY <3>5, LenProperties DEF SignalBacked, IInv, TypeOK
    <3> QED
      BY <3>6
  <2> QED
    BY <1>6, <2>1 DEF GetWakes, GetLeaves
<1>7. CASE GetPops(t)
  BY <1>7 DEF GetPops, Fails
<1>8. CASE GetPopsPutter(t)
  <2>1. putters.count # 0
    BY <1>8 DEF GetPopsPutter, NoPutterListed
  <2>2. ASSUME NEW r \in Pops(putters) PROVE waiter[r.item].ref # 0
    <3>1. r.item \in Listed
      BY <2>1, <2>2, PopsKept DEF Sleepers, PuttersListed, Listed
    <3> QED
      BY <3>1, ListedAreAlive
  <2> QED
    BY <1>8, <2>1, <2>2 DEF GetPopsPutter, Fails
<1>9. CASE GetLocksPutter(t)
  <2>1. chain.count < Limit
    BY <1>9 DEF GetLocksPutter, At, IInv, LimitKept
  <2>2. chain.count \in Int /\ Limit \in Int
    BY QcQueueAssumption DEF IInv, LimitKept
  <2> QED
    BY <1>9, <2>1, <2>2 DEF GetLocksPutter, queueVars
<1> QED
  BY <1>1, <1>2, <1>3, <1>4, <1>5, <1>6, <1>7, <1>8, <1>9
  DEF Step, PutStep, GetStep, GetCall

(* With any number of priorities, one assertion of the queue can fail, the *)
(* one at the end of the pop search; no freed waiter is reached, no getter *)
(* wakes to an empty tempList, and no admitted message lacks room.         *)
OnlyPopsAbort == /\ failed \in {"none", "pop", "pop_putter"}
                 /\ \A w \in Listed : waiter[w].ref > 0

THEOREM OnlyPopsFail ==
    ASSUME ExactWaits
    PROVE  Spec => []OnlyPopsAbort
<1> DEFINE Good == failed \in {"none", "pop", "pop_putter"}
<1>1. Init => Good
  BY DEF Init
<1>2. IInv /\ Sleepers /\ SignalBacked /\ Placement /\ Good /\ [Next]_vars => Good'
  <2>1. ASSUME IInv, Sleepers, SignalBacked, Placement, Good, Next PROVE Good'
    BY <2>1, FailsStep DEF Next, Placement
  <2>2. ASSUME Good, UNCHANGED vars PROVE Good'
    BY <2>2 DEF vars
  <2> QED
    BY <2>1, <2>2
<1>3. IInv /\ Sleepers /\ Good => OnlyPopsAbort
  BY ListedAreAlive DEF OnlyPopsAbort
<1> HIDE DEF Good
<1> QED
  BY <1>1, <1>2, <1>3, Invariant, WaitersStand, SignalsAreBacked, MessagesArePlaced, PTL DEF Spec

(* The priorities that messages have.                                      *)
Used == {Prio[m] : m \in Messages}

LevelsUsed == NonEmpty(chain) \subseteq Used /\ NonEmpty(putters) \subseteq Used

(* Only they have entries: messages and putters are listed by the priority *)
(* of a message.                                                           *)
LEMMA LevelsStep ==
    ASSUME IInv, Sleepers, Apart, LevelsUsed, NEW t \in Threads, Step(t)
    PROVE  LevelsUsed'
<1> USE DEF LevelsUsed
<1>1. chain \in Chains(Messages) /\ putters \in Chains(Waiters)
  BY DEF IInv, TypeOK
<1>2. \A m \in Messages : Prio[m] \in Prios /\ Prio[m] \in Used
  BY QcQueueAssumption DEF Used
<1>3. ASSUME NEW m \in Messages, NEW b \in Chains(Messages), NonEmpty(b) \subseteq Used
      PROVE  NonEmpty(Pushed(b, Prio[m], m)) \subseteq Used
  BY <1>2, <1>3, PushedLevels
<1>4. ASSUME NEW m \in Messages, PutCall(t, m) PROVE LevelsUsed'
  BY <1>4 DEF PutCall, queueVars
<1>5. ASSUME NEW m \in Messages, ForcePut(t, m) PROVE LevelsUsed'
  <2>1. putters' = putters
    BY <1>5 DEF ForcePut
  <2>2. ASSUME NEW r \in Evictions(chain), chain' = Pushed(r.rest, Prio[m], m) PROVE LevelsUsed'
    <3>1. r.rest \in Chains(Messages) /\ NonEmpty(r.rest) \subseteq Used
      BY <1>1, EvictionsTyped, EvictionsLevels
    <3> QED
      BY <1>3, <2>1, <2>2, <3>1
  <2>3. CASE chain' = Pushed(chain, Prio[m], m)
    BY <1>1, <1>3, <2>1, <2>3
  <2> QED
    BY <1>5, <2>2, <2>3 DEF ForcePut
<1>6. CASE PutPushes(t)
  <2>1. msg[t] \in Messages /\ chain' = Pushed(chain, Prio[msg[t]], msg[t]) /\ putters' = putters
    BY <1>6, ThreadFacts DEF PutPushes, At, PutLocations
  <2> QED
    BY <1>1, <1>3, <2>1
<1>7. CASE PutListsPutter(t)
  <2>1. msg[t] \in Messages /\ chain' = chain
    BY <1>7, ThreadFacts DEF PutListsPutter, At, PutLocations
  <2>2. PICK w \in Available : putters' = Pushed(putters, Prio[msg[t]], w)
    BY <1>7 DEF PutListsPutter
  <2> QED
    BY <1>1, <1>2, <2>1, <2>2, PushedLevels
<1>8. CASE PutGivesUp(t)
  <2>1. pc[t] = "put_expired" /\ UnlistPutter(obj[t]) /\ chain' = chain
    BY <1>8 DEF PutGivesUp, At
  <2>2. waiter[obj[t]].message = msg[t] /\ msg[t] \in Messages
    BY <2>1, ThreadFacts DEF Sleepers, OwnersStand, OwnerStands, OwnerLocations, PutterSleeps,
       PutLocations
  <2>3. CASE putters' \in Removals(putters, Prio[msg[t]], obj[t])
    BY <1>1, <1>2, <2>1, <2>2, <2>3, RemovalsLevels
  <2> QED
    BY <2>1, <2>2, <2>3 DEF UnlistPutter
<1>9. CASE GetPops(t)
  <2>1. ASSUME NEW r \in Pops(chain), chain' = r.rest, chain.count # 0
        PROVE  NonEmpty(chain') \subseteq Used
    BY <2>1, PopsLevels DEF Apart
  <2> QED
    BY <1>9, <2>1 DEF GetPops, Fails, queueVars
<1>10. CASE GetPopsPutter(t)
  <2>1. ASSUME NEW r \in Pops(putters), putters' = r.rest, putters.count # 0
        PROVE  NonEmpty(putters') \subseteq Used
    BY <2>1, PopsLevels DEF Sleepers, PuttersListed
  <2> QED
    BY <1>10, <2>1 DEF GetPopsPutter, NoPutterListed, Fails, queueVars
<1>11. CASE GetLocksPutter(t)
  <2>1. waiter[obj[t]].message \in Messages
    BY <1>11 DEF GetLocksPutter, At, IInv, PuttersCarryMessages, PutterLocations
  <2>2. CASE UNCHANGED queueVars
    BY <2>2 DEF queueVars
  <2>3. CASE /\ putters' = putters
             /\ chain' = Pushed(chain, Prio[waiter[obj[t]].message], waiter[obj[t]].message)
    BY <1>1, <1>3, <2>1, <2>3
  <2> QED
    BY <1>11, <2>2, <2>3 DEF GetLocksPutter, Fails
<1>12. CASE PutPopsGetter(t) \/ PutLocksGetter(t) \/ PutHandsOver(t) \/ PutDropsGetter(t)
            \/ PutSleeps(t) \/ PutWakes(t) \/ PutTimesOut(t)
  BY <1>12 DEF PutPopsGetter, PutLocksGetter, PutHandsOver, PutDropsGetter, PutSleeps, PutWakes,
     PutTimesOut, TimesOut, Fails, queueVars
<1>13. CASE GetListsGetter(t) \/ GetSleeps(t) \/ GetWakes(t) \/ GetTimesOut(t) \/ GetGivesUp(t)
            \/ GetEnds(t) \/ GetDropsPutter(t) \/ Expires(t) \/ WakesUnprompted(t)
  BY <1>13 DEF GetListsGetter, GetSleeps, GetWakes, GetLeaves, GetTimesOut, TimesOut, GetGivesUp,
     GetEnds, GetDropsPutter, Expires, WakesUnprompted, Fails, queueVars
<1> QED
  BY <1>4, <1>5, <1>6, <1>7, <1>8, <1>9, <1>10, <1>11, <1>12, <1>13
  DEF Step, PutStep, GetStep, GetCall

(* When messages have at most one priority besides the lowest, as those of *)
(* every program in the repository do, nothing stops the process: no       *)
(* assertion fails and no freed waiter is reached or listed, whatever the  *)
(* interleaving.                                                           *)
THEOREM NothingFails ==
    ASSUME ExactWaits, FewLevels(Used)
    PROVE  Spec => []NeverFails
<1> DEFINE Good == failed = "none"
<1>1. Init => Good /\ LevelsUsed
  BY EmptyChainLevels DEF Init, EmptyPutters, LevelsUsed
<1>2. /\ IInv /\ Sleepers /\ SignalBacked /\ Placement /\ Good /\ LevelsUsed /\ [Next]_vars
      => Good' /\ LevelsUsed'
  <2>1. ASSUME IInv, Sleepers, SignalBacked, Placement, Good, LevelsUsed, Next
        PROVE  Good' /\ LevelsUsed'
    <3>1. PICK t \in Threads : Step(t)
      BY <2>1 DEF Next
    <3>2. FewLevels(NonEmpty(chain)) /\ FewLevels(NonEmpty(putters))
      BY <2>1 DEF FewLevels, LevelsUsed
    <3>3. chain.count # 0 => Pops(chain) # {}
      BY <2>1, <3>2, FewLevelsPop DEF Placement, Apart
    <3>4. putters.count # 0 => Pops(putters) # {}
      BY <2>1, <3>2, FewLevelsPop DEF Sleepers, PuttersListed
    <3>5. Good'
      BY <2>1, <3>1, <3>3, <3>4, FailsStep DEF Placement
    <3> QED
      BY <2>1, <3>1, <3>5, LevelsStep DEF Placement
  <2>2. ASSUME Good, LevelsUsed, UNCHANGED vars PROVE Good' /\ LevelsUsed'
    BY <2>2 DEF vars, queueVars, LevelsUsed
  <2> QED
    BY <2>1, <2>2
<1>3. IInv /\ Sleepers /\ Good => NeverFails
  BY ListedAreAlive DEF NeverFails
<1> HIDE DEF Good
<1> QED
  BY <1>1, <1>2, <1>3, Invariant, WaitersStand, SignalsAreBacked, MessagesArePlaced, PTL DEF Spec

-----------------------------------------------------------------------------
(* Hand-overs when no wait has a deadline. *)

(* Between popping a getter and signalling it, a putter has it to itself,  *)
(* and its owner waits for the signal.                                     *)
Handing == {"lock_getter", "hand_over"}

HandedOnce ==
    /\ \A s, u \in Threads :
          pc[s] \in Handing /\ pc[u] \in Handing /\ obj[s] = obj[u] => s = u
    /\ \A s \in Threads : pc[s] \in Handing => Awaited(obj[s], GetterSleeps)

ForeverOnly == ~SpuriousWakeups /\ Waits \subseteq {"forever"}

LEMMA ForeverIsExact ==
    ASSUME ForeverOnly
    PROVE  ExactWaits
BY DEF ForeverOnly, ExactWaits

(* No deadline expires. *)
LEMMA NoneExpires ==
    ASSUME ForeverOnly, Sleepers, NEW s \in Threads, pc[s] \in OwnerLocations
    PROVE  /\ pc[s] \notin {"put_expired", "get_expired"}
           /\ waiter[obj[s]].cond # "expired"
BY DEF ForeverOnly, Sleepers, OwnersStand, OwnerStands

LEMMA HandedOnceStep ==
    ASSUME IInv, ForeverOnly, Sleepers, HandedOnce, NEW t \in Threads, Moves(t), Others(t)
    PROVE  HandedOnce'
<1>1. ~GivesUp(t)
  BY NoneExpires DEF GivesUp, OwnerLocations, PutterSleeps, GetterSleeps
<1>2. ASSUME NEW s \in Threads \ {t}, pc[s] \in Handing, NEW w, w = obj[s]
      PROVE  Awaited(w, GetterSleeps)' /\ Awaited(w, GetterSleeps)
  <2>1. Awaited(w, GetterSleeps)
    BY <1>2 DEF HandedOnce
  <2>2. waiter[w].message = None
    BY <1>2 DEF Sleepers, PoppersStand, PopperStands, GetterPoppers, Handing
  <2>3. ~(Signals(t) /\ obj[t] = w)
    <3>1. ASSUME obj[t] = w PROVE pc[t] # "hand_over"
      BY <1>2, <3>1 DEF HandedOnce, Handing
    <3>2. ASSUME obj[t] = w PROVE pc[t] # "lock_putter"
      BY <2>2, <3>2, QcQueueAssumption DEF IInv, PuttersCarryMessages, PutterLocations
    <3> QED
      BY <3>1, <3>2 DEF Signals
  <2> QED
    BY <1>1, <2>1, <2>3, StillAwaited
<1>3. ASSUME pc'[t] \in Handing, NEW w, w = obj'[t]
      PROVE  /\ Awaited(w, GetterSleeps)'
             /\ \A s \in Threads \ {t} : pc[s] \in Handing => obj[s] # w
  <2>1. CASE pc[t] \in Handing /\ obj'[t] = obj[t]
    <3>1. Awaited(w, GetterSleeps) /\ \A s \in Threads \ {t} : pc[s] \in Handing => obj[s] # w
      BY <1>3, <2>1 DEF HandedOnce
    <3>2. ~Signals(t)
      BY <1>3 DEF Signals, Handing
    <3> QED
      BY <1>1, <3>1, <3>2, StillAwaited
  <2>2. CASE PopsGetter(t)
    <3>1. w \in Range(getters) /\ w \in Listed
      BY <1>3, <2>2, HeadLeftOut DEF PopsGetter, IInv, TypeOK, Sleepers, GettersListed, Listed, Range
    <3>2. Awaited(w, GetterSleeps)
      BY <3>1 DEF Sleepers, GettersListed
    <3>3. \A s \in Threads \ {t} : pc[s] \in Handing => obj[s] # w
      BY <3>1 DEF Sleepers, PoppersStand, Handing, GetterPoppers
    <3> QED
      BY <1>1, <3>1, <3>2, <3>3, StillAwaited
  <2>3. PopsGetter(t) \/ (pc[t] \in Handing /\ obj'[t] = obj[t])
    BY <1>3 DEF Moves, Halts, Passes, ListsGetter, ListsPutter, PopsPutter, LocksGetter, Skips,
       Signals, DropsPopped, FallsAsleep, Misses, Abandons, Wakes, GivesUp, Handing, WaiterLocations
  <2> QED
    BY <2>1, <2>2, <2>3
<1>4. ASSUME NEW s \in Threads, NEW u \in Threads, s # t,
             pc'[s] \in Handing, pc'[u] \in Handing, obj'[s] = obj'[u]
      PROVE  s = u
  <2>1. pc[s] \in Handing /\ obj'[s] = obj[s]
    BY <1>4 DEF Others
  <2>2. u # t
    BY <1>3, <1>4, <2>1
  <2> QED
    BY <1>4, <2>1, <2>2 DEF Others, HandedOnce
<1>5. ASSUME NEW s \in Threads, pc'[s] \in Handing, NEW w, w = obj'[s]
      PROVE  Awaited(w, GetterSleeps)'
  BY <1>2, <1>3, <1>5 DEF Others
<1> QED
  BY <1>4, <1>5 DEF HandedOnce, Awaited

(* A hand-over signals one getter more, and no message is taken but by one.*)
LEMMA ReachesStep ==
    ASSUME IInv, ForeverOnly, Sleepers, HandedOnce, HandoffReachesGetter,
           NEW t \in Threads, Step(t)
    PROVE  HandoffReachesGetter'
<1> DEFINE Sig == SignalledGetters
           n == Len(temp)
           k == Cardinality(Sig)
<1>0. ExactWaits
  BY ForeverIsExact
<1>1. Moves(t) /\ Others(t)
  BY <1>0, StepFacts
<1>2. IsFiniteSet(Sig) /\ n \in Nat /\ n = k
  <2>1. IsFiniteSet(Sig)
    BY QcQueueAssumption, FS_Subset DEF SignalledGetters
  <2>2. n \in Nat
    BY LenProperties DEF IInv, TypeOK
  <2> QED
    BY <2>1, <2>2 DEF HandoffReachesGetter
<1>3. CASE Wakes(t)
  <2>1. SignalledGetters' = Sig \ {t}
    BY <1>1, <1>3, SignalledStep
  <2>2. CASE pc[t] = "get_wait"
    <3>1. t \in Sig
      BY <1>3, <2>2 DEF Wakes, SignalledGetters
    <3>2. Cardinality(SignalledGetters') = k - 1
      BY <1>2, <2>1, <3>1, FS_RemoveElement
    <3>3. temp # <<>> /\ temp' = Tail(temp)
      BY <1>0, <1>3, <2>2, TempStep
    <3>4. Len(temp') = n - 1
      BY <3>3, HeadTailProperties DEF IInv, TypeOK
    <3> HIDE DEF n, k
    <3> QED
      BY <1>2, <3>2, <3>4 DEF HandoffReachesGetter
  <2>3. CASE pc[t] # "get_wait"
    <3>1. SignalledGetters' = Sig
      BY <2>1, <2>3 DEF SignalledGetters
    <3>2. temp' = temp
      BY <1>0, <2>3, <1>3, TempStep DEF Wakes, Signals
    <3> QED
      BY <1>2, <3>1, <3>2 DEF HandoffReachesGetter
  <2> QED
    BY <2>2, <2>3
<1>4. CASE Signals(t) /\ pc[t] = "hand_over"
  <2> DEFINE New == {s \in Threads : /\ pc[s] = "get_wait" /\ obj[s] = obj[t]
                                     /\ waiter[obj[t]].cond = "waiting"}
  <2>1. SignalledGetters' = Sig \cup New
    BY <1>1, <1>4, SignalledStep
  <2>2. Len(temp') = n + 1
    <3>1. temp' = Append(temp, msg[t]) /\ msg[t] \in Messages
      BY <1>0, <1>4, TempStep, ThreadFacts DEF PutLocations
    <3> QED
      BY <3>1, AppendProperties DEF IInv, TypeOK
  <2>3. PICK u \in Threads : pc[u] \in GetterSleeps /\ obj[u] = obj[t]
                             /\ waiter[obj[t]].cond # "signalled"
    BY <1>4 DEF HandedOnce, Handing, Awaited
  <2>4. pc[u] \in OwnerLocations /\ u # t
    BY <1>4, <2>3 DEF OwnerLocations, GetterSleeps
  <2>5. OwnerStands(pc[u], u, waiter[obj[t]], msg[u]) /\ waiter[obj[t]].condlock = t
    BY <1>4, <2>3, <2>4 DEF Sleepers, OwnersStand, PoppersStand, PopperStands, GetterPoppers
  <2>6. pc[u] = "get_wait" /\ waiter[obj[t]].cond = "waiting"
    <3>1. pc[u] # "get_sleep"
      BY <2>4, <2>5 DEF OwnerStands
    <3>2. pc[u] # "get_expired" /\ waiter[obj[t]].cond # "expired"
      BY <2>3, <2>4, NoneExpires
    <3> QED
      BY <2>3, <2>5, <3>1, <3>2 DEF OwnerStands, GetterSleeps
  <2>7. New = {u}
    BY <2>3, <2>4, <2>6 DEF Sleepers, OneOwner, OwnerLocations, GetterSleeps
  <2>8. u \notin Sig
    BY <2>3 DEF SignalledGetters
  <2> HIDE DEF New, Sig
  <2>9. Cardinality(Sig \cup {u}) = k + 1
    BY <1>2, <2>8, FS_AddElement
  <2> HIDE DEF n, k
  <2> QED
    BY <1>2, <2>1, <2>2, <2>7, <2>9 DEF HandoffReachesGetter
<1>5. CASE ~Wakes(t) /\ ~(Signals(t) /\ pc[t] = "hand_over")
  <2>1. SignalledGetters' = Sig /\ temp' = temp
    BY <1>0, <1>1, <1>5, SignalledStep, TempStep
  <2> QED
    BY <1>2, <2>1 DEF HandoffReachesGetter
<1> QED
  BY <1>3, <1>4, <1>5

(* When every wait is for ever, the tempList has exactly one message for   *)
(* every getter that was signalled: none is handed to a getter that will   *)
(* not take it (with deadlines one may be, as the run stranded shows).     *)
THEOREM HandoversReachGetters ==
    ASSUME ForeverOnly
    PROVE  Spec => []HandoffReachesGetter
<1>1. Init => HandedOnce /\ HandoffReachesGetter
  <2>1. ASSUME Init PROVE HandoffReachesGetter
    <3>1. SignalledGetters = {} /\ Len(temp) = 0
      BY <2>1 DEF Init, SignalledGetters
    <3> QED
      BY <3>1, FS_EmptySet DEF HandoffReachesGetter
  <2>2. Init => HandedOnce
    BY DEF Init, HandedOnce, Handing
  <2> QED
    BY <2>1, <2>2
<1>2. IInv /\ Sleepers /\ HandedOnce /\ HandoffReachesGetter /\ [Next]_vars
         => (HandedOnce /\ HandoffReachesGetter)'
  <2>1. ASSUME IInv, Sleepers, HandedOnce, HandoffReachesGetter, Next
        PROVE  (HandedOnce /\ HandoffReachesGetter)'
    <3>1. PICK t \in Threads : Step(t)
      BY <2>1 DEF Next
    <3>2. Moves(t) /\ Others(t)
      BY <2>1, <3>1, ForeverIsExact, StepFacts
    <3>3. HandedOnce'
      BY <2>1, <3>2, HandedOnceStep
    <3>4. HandoffReachesGetter'
      BY <2>1, <3>1, ReachesStep
    <3> QED
      BY <3>3, <3>4
  <2>2. ASSUME HandedOnce, HandoffReachesGetter, UNCHANGED vars
        PROVE  (HandedOnce /\ HandoffReachesGetter)'
    BY <2>2 DEF vars, HandedOnce, HandoffReachesGetter, Awaited, SignalledGetters
  <2> QED
    BY <2>1, <2>2
<1>3. Spec => []Sleepers
  BY ForeverIsExact, WaitersStand
<1> QED
  BY <1>1, <1>2, <1>3, Invariant, PTL DEF Spec

=============================================================================
