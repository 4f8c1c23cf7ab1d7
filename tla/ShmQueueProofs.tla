--------------------------- MODULE ShmQueueProofs ---------------------------
(***************************************************************************)
(* Proofs about ShmQueue, for any processes, messages and number of slots: *)
(* the slots are partitioned, the tokens of sem_que are the messages a     *)
(* puller may take, and the queue implements SharedFifo.  Nothing is       *)
(* assumed of the processes but the order of their own steps: any of them  *)
(* may stop for ever at any point.                                         *)
(*                                                                         *)
(* The invariants of the runs speak of the links of the two lists; IInv    *)
(* adds that the lists are well-formed, which is what makes the links and  *)
(* the counts mean anything, and what each process has at each point of    *)
(* its call.                                                               *)
(***************************************************************************)
EXTENDS ShmQueue, ListProofs

(* The points at which a process has a slot. *)
Holding == PushLocations \cup {"pulled", "read"}

SlotsInHand == \A p \in Processes : IF pc[p] \in Holding THEN idx[p] \in Cells
                                                         ELSE idx[p] = Invalid

ListsIntact == WellFormed(used) /\ WellFormed(free)

SlotsApart ==
    /\ Linked(used) \cap Linked(free) = {}
    /\ \A p \in Processes : idx[p] \notin Linked(used) \cup Linked(free)
    /\ \A p, q \in Processes : idx[p] = idx[q] => p = q \/ idx[p] = Invalid

NoSlotLost == \A c \in Cells :
    c \in Linked(used) \cup Linked(free) \/ \E p \in Processes : idx[p] = c

(* What has been written of the message at each point of a push. *)
MessagesKept == \A p \in Processes :
    /\ pc[p] \in PushLocations => msg[p] \in Messages
    /\ pc[p] = "written" => slot[idx[p]].body = msg[p]

IInv == /\ TypeOK /\ SlotsInHand /\ ListsIntact /\ SlotsApart /\ NoSlotLost
        /\ TokensMatch /\ MessagesKept

-----------------------------------------------------------------------------
(* The pullers between sem_que and sem_lst: there are finitely many. *)
LEMMA EnteredFinite ==
    IsFiniteSet(Entered) /\ Cardinality(Entered) \in Nat
<1>1. IsFiniteSet(Entered)
  BY ShmQueueAssumption, FS_Subset DEF Entered
<1> QED
  BY <1>1, FS_CardinalityType

(* A step elsewhere leaves them and their tokens alone. *)
LEMMA TokensUnchanged ==
    ASSUME IInv, NEW p \in Processes, NEW where, where # "pull_lock",
           pc[p] # "pull_lock", GoTo(p, where), UNCHANGED <<used, semQue, failed>>
    PROVE  TokensMatch'
<1>1. Entered' = Entered
  BY DEF IInv, TypeOK, GoTo, Entered
<1> QED
  BY <1>1 DEF IInv, TokensMatch

-----------------------------------------------------------------------------
(* A list that is not empty has a cell to take, and a slot in hand is in no*)
(* list.                                                                   *)
LEMMA ListFacts ==
    ASSUME IInv
    PROVE  /\ QueSize \in Nat \ {0}
           /\ Linked(used) \subseteq Cells /\ Linked(free) \subseteq Cells
           /\ used.num # 0 => used.head \in Linked(used)
           /\ free.num # 0 => free.head \in Linked(free)
           /\ used.head # Invalid => used.head \in Linked(used)
           /\ free.head # Invalid => free.head \in Linked(free)
           /\ used.num \in Nat /\ free.num \in Nat
<1>1. used \in StaticLists(QueSize) /\ free \in StaticLists(QueSize) /\ QueSize \in Nat \ {0}
  BY ShmQueueAssumption DEF IInv, TypeOK
<1>2. Linked(used) \subseteq Cells /\ Linked(free) \subseteq Cells
  BY <1>1 DEF Linked, Cells, StaticLists
<1> QED
  BY <1>1, <1>2, HeadOfList DEF IInv, ListsIntact

(* No assertion fails: what a push or a pull takes from a list is a cell.  *)
LEMMA PushFindsSlot ==
    ASSUME IInv, free.num # 0
    PROVE  NextToPush \in Linked(free) /\ ~(NextToPush < 0)
BY ListFacts DEF NextToPush, Cells, CellsOf

(* A puller that was let in finds a message. *)
LEMMA PullFindsMessage ==
    ASSUME IInv, NEW p \in Processes, pc[p] = "pull_lock"
    PROVE  NextToPull \in Linked(used) /\ ~(NextToPull < 0)
<1>1. p \in Entered
  BY DEF Entered
<1>2. Cardinality(Entered) \in Nat \ {0}
  BY <1>1, EnteredFinite, FS_EmptySet
<1>3. used.num # 0
  BY <1>2 DEF IInv, TokensMatch, TypeOK
<1> QED
  BY <1>3, ListFacts DEF NextToPull, Cells, CellsOf

-----------------------------------------------------------------------------
(* The steps. *)

(* A step of one process that takes no slot and gives none up. *)
LEMMA LocalStep ==
    ASSUME IInv, NEW p \in Processes, NEW where \in Locations,
           GoTo(p, where), where \in Holding <=> pc[p] \in Holding,
           UNCHANGED <<used, free, idx>>
    PROVE  SlotsInHand' /\ ListsIntact' /\ SlotsApart' /\ NoSlotLost'
<1>1. SlotsInHand'
  BY DEF IInv, SlotsInHand, GoTo, TypeOK
<1>2. ListsIntact'
  BY DEF IInv, ListsIntact
<1>3. SlotsApart'
  BY DEF IInv, SlotsApart
<1>4. NoSlotLost'
  BY DEF IInv, NoSlotLost
<1> QED
  BY <1>1, <1>2, <1>3, <1>4

(* A push takes the head of the free list in hand. *)
LEMMA PushBeginsInv ==
    ASSUME IInv, NEW p \in Processes, NEW m \in Messages, PushBegins(p, m)
    PROVE  IInv'
<1> DEFINE c == free.head
<1>1. /\ c \in Linked(free) /\ c \in Cells /\ c # Invalid
      /\ idx' = [idx EXCEPT ![p] = c]
      /\ free' = WithoutHead(free)
      /\ msg' = [msg EXCEPT ![p] = m]
      /\ GoTo(p, "begun")
      /\ UNCHANGED <<used, semQue, slot, failed>>
      /\ pc[p] = "idle"
  BY PushFindsSlot, ListFacts DEF PushBegins, NextToPush, At, Cells, CellsOf, Invalid
<1>2. /\ free' \in StaticLists(QueSize)
      /\ WellFormed(free')
      /\ Linked(free') = Linked(free) \ {c}
  BY <1>1, ShmQueueAssumption, HeadTaken DEF IInv, TypeOK, ListsIntact
<1> HIDE DEF c
<1>3. TypeOK'
  BY <1>1, <1>2 DEF IInv, TypeOK, GoTo, Locations
<1>4. SlotsInHand' /\ ListsIntact'
  BY <1>1, <1>2 DEF IInv, SlotsInHand, ListsIntact, TypeOK, GoTo, Holding, PushLocations
<1>5. SlotsApart'
  BY <1>1, <1>2 DEF IInv, SlotsApart, TypeOK
<1>6. NoSlotLost'
  <2>1. idx[p] = Invalid
    BY <1>1 DEF IInv, SlotsInHand, Holding, PushLocations
  <2> QED
    BY <1>1, <1>2, <2>1 DEF IInv, NoSlotLost, TypeOK, Cells, CellsOf, Invalid
<1>7. TokensMatch'
  BY <1>1, TokensUnchanged
<1>8. MessagesKept'
  BY <1>1 DEF IInv, MessagesKept, TypeOK, GoTo
<1> QED
  BY <1>3, <1>4, <1>5, <1>6, <1>7, <1>8 DEF IInv

(* The length field written is that of the slot in hand ... *)
LEMMA PushMarksInv ==
    ASSUME IInv, NEW p \in Processes, PushMarks(p)
    PROVE  IInv'
<1> USE DEF PushMarks, At
<1>1. idx[p] \in Cells
  BY DEF IInv, SlotsInHand, Holding, PushLocations
<1>2. TypeOK'
  BY <1>1 DEF IInv, TypeOK, GoTo, Locations, Slots
<1>3. SlotsInHand' /\ ListsIntact' /\ SlotsApart' /\ NoSlotLost'
  BY LocalStep DEF Holding, PushLocations, Locations
<1>4. TokensMatch'
  BY TokensUnchanged
<1>5. MessagesKept'
  BY <1>1 DEF IInv, MessagesKept, TypeOK, GoTo, PushLocations, Slots
<1> QED
  BY <1>2, <1>3, <1>4, <1>5 DEF IInv

(* ... as are the bytes: no other process has that slot. *)
LEMMA WritesInv ==
    ASSUME IInv, NEW p \in Processes, Writes(p)
    PROVE  IInv'
<1> USE DEF Writes, At
<1>1. idx[p] \in Cells /\ msg[p] \in Messages
  BY DEF IInv, SlotsInHand, Holding, PushLocations, MessagesKept
<1>2. TypeOK'
  BY <1>1 DEF IInv, TypeOK, GoTo, Locations, Slots
<1>3. SlotsInHand' /\ ListsIntact' /\ SlotsApart' /\ NoSlotLost'
  BY LocalStep DEF Holding, PushLocations, Locations
<1>4. TokensMatch'
  BY TokensUnchanged
<1>5. MessagesKept'
  <2>1. \A q \in Processes : pc[q] = "written" => idx[q] \in Cells /\ idx[q] # idx[p]
    BY <1>1 DEF IInv, SlotsInHand, SlotsApart, Holding, PushLocations, Cells, CellsOf, Invalid
  <2> QED
    BY <1>1, <2>1 DEF IInv, MessagesKept, TypeOK, GoTo, PushLocations, Slots
<1> QED
  BY <1>2, <1>3, <1>4, <1>5 DEF IInv

(* The slot goes to the used list together with its token. *)
LEMMA PushEndsInv ==
    ASSUME IInv, NEW p \in Processes, PushEnds(p)
    PROVE  IInv'
<1> USE DEF PushEnds, At
<1> DEFINE c == idx[p]
<1>1. c \in Cells /\ msg[p] \in Messages /\ c \notin Linked(used) \cup Linked(free)
  BY DEF IInv, SlotsInHand, SlotsApart, Holding, PushLocations, MessagesKept
<1>2. /\ used' \in StaticLists(QueSize)
      /\ WellFormed(used')
      /\ Linked(used') = Linked(used) \cup {c}
      /\ used'.num = used.num + 1
  <2>1. used \in StaticLists(QueSize) /\ WellFormed(used) /\ QueSize \in Nat
    BY ShmQueueAssumption DEF IInv, TypeOK, ListsIntact
  <2>2. c \in CellsOf(QueSize) /\ c \notin Linked(used) /\ used' = WithTail(used, c)
    BY <1>1 DEF Cells
  <2> HIDE DEF c
  <2> QED
    BY <2>1, <2>2, TailAdded
<1>3. TypeOK'
  BY <1>1, <1>2 DEF IInv, TypeOK, GoTo, Locations, Slots, Posted
<1>4. SlotsInHand' /\ ListsIntact'
  BY <1>2 DEF IInv, SlotsInHand, ListsIntact, TypeOK, GoTo, Holding, PushLocations
<1>5. SlotsApart'
  BY <1>1, <1>2, ListFacts DEF IInv, SlotsApart, TypeOK, Cells, CellsOf, Invalid
<1>6. NoSlotLost'
  BY <1>1, <1>2 DEF IInv, NoSlotLost, TypeOK
<1>7. TokensMatch'
  <2>1. Entered' = Entered
    BY DEF IInv, TypeOK, GoTo, Entered
  <2>2. Cardinality(Entered') = Cardinality(Entered) /\ Cardinality(Entered) \in Nat
    BY <2>1, EnteredFinite
  <2> QED
    BY <1>2, <2>2 DEF IInv, TokensMatch, TypeOK, Posted
<1>8. MessagesKept'
  BY <1>1 DEF IInv, MessagesKept, TypeOK, GoTo, PushLocations, Slots
<1> QED
  BY <1>3, <1>4, <1>5, <1>6, <1>7, <1>8 DEF IInv

(* A puller that waits has no slot. *)
LEMMA PullCallsInv ==
    ASSUME IInv, NEW p \in Processes, PullCalls(p)
    PROVE  IInv'
<1>1. PICK where \in {"pull_wait", "pull_timed"} : GoTo(p, where)
  BY DEF PullCalls
<1> USE DEF PullCalls, At
<1>2. TypeOK'
  BY <1>1 DEF IInv, TypeOK, GoTo, Locations
<1>3. SlotsInHand' /\ ListsIntact' /\ SlotsApart' /\ NoSlotLost'
  BY <1>1, LocalStep DEF Holding, PushLocations, Locations
<1>4. TokensMatch'
  BY <1>1, TokensUnchanged
<1>5. MessagesKept'
  BY <1>1 DEF IInv, MessagesKept, TypeOK, GoTo, PushLocations
<1> QED
  BY <1>2, <1>3, <1>4, <1>5 DEF IInv

(* A token is exchanged for the right to take a message ... *)
LEMMA PullEntersInv ==
    ASSUME IInv, NEW p \in Processes, PullEnters(p)
    PROVE  IInv'
<1> USE DEF PullEnters, At
<1>1. TypeOK'
  BY DEF IInv, TypeOK, GoTo, Locations
<1>2. SlotsInHand' /\ ListsIntact' /\ SlotsApart' /\ NoSlotLost'
  BY LocalStep DEF Holding, PushLocations, Locations
<1>3. TokensMatch'
  <2>1. Entered' = Entered \cup {p} /\ p \notin Entered
    BY DEF IInv, TypeOK, GoTo, Entered
  <2>2. Cardinality(Entered') = Cardinality(Entered) + 1 /\ Cardinality(Entered) \in Nat
    BY <2>1, EnteredFinite, FS_AddElement
  <2> QED
    BY <2>2 DEF IInv, TokensMatch, TypeOK
<1>4. MessagesKept'
  BY DEF IInv, MessagesKept, TypeOK, GoTo, PushLocations
<1> QED
  BY <1>1, <1>2, <1>3, <1>4 DEF IInv

(* ... or the wait ends without one ... *)
LEMMA PullGivesUpInv ==
    ASSUME IInv, NEW p \in Processes, PullTimesOut(p) \/ PullRejected(p)
    PROVE  IInv'
<1> USE DEF PullTimesOut, PullRejected, At
<1>1. TypeOK'
  BY DEF IInv, TypeOK, GoTo, Locations
<1>2. SlotsInHand' /\ ListsIntact' /\ SlotsApart' /\ NoSlotLost'
  BY LocalStep DEF Holding, PushLocations, Locations
<1>3. TokensMatch'
  BY TokensUnchanged
<1>4. MessagesKept'
  BY DEF IInv, MessagesKept, TypeOK, GoTo, PushLocations
<1> QED
  BY <1>1, <1>2, <1>3, <1>4 DEF IInv

(* ... and that right for the head of the used list. *)
LEMMA PullTakesInv ==
    ASSUME IInv, NEW p \in Processes, PullTakes(p)
    PROVE  IInv'
<1> DEFINE c == used.head
<1>1. /\ c \in Linked(used) /\ c \in Cells /\ c # Invalid
      /\ idx' = [idx EXCEPT ![p] = c]
      /\ used' = WithoutHead(used)
      /\ GoTo(p, "pulled")
      /\ UNCHANGED <<free, semQue, slot, msg, failed>>
      /\ pc[p] = "pull_lock"
  BY PullFindsMessage, ListFacts DEF PullTakes, NextToPull, At, Cells, CellsOf, Invalid
<1>2. /\ used' \in StaticLists(QueSize)
      /\ WellFormed(used')
      /\ Linked(used') = Linked(used) \ {c}
      /\ used'.num = used.num - 1
  BY <1>1, ShmQueueAssumption, HeadTaken DEF IInv, TypeOK, ListsIntact
<1> HIDE DEF c
<1>3. TypeOK'
  BY <1>1, <1>2 DEF IInv, TypeOK, GoTo, Locations
<1>4. SlotsInHand' /\ ListsIntact'
  BY <1>1, <1>2 DEF IInv, SlotsInHand, ListsIntact, TypeOK, GoTo, Holding, PushLocations
<1>5. SlotsApart'
  BY <1>1, <1>2 DEF IInv, SlotsApart, TypeOK
<1>6. NoSlotLost'
  <2>1. idx[p] = Invalid
    BY <1>1 DEF IInv, SlotsInHand, Holding, PushLocations
  <2> QED
    BY <1>1, <1>2, <2>1 DEF IInv, NoSlotLost, TypeOK, Cells, CellsOf, Invalid
<1>7. TokensMatch'
  <2>1. Entered' = Entered \ {p} /\ p \in Entered
    BY <1>1 DEF IInv, TypeOK, GoTo, Entered
  <2>2. Cardinality(Entered') = Cardinality(Entered) - 1 /\ Cardinality(Entered) \in Nat
    BY <2>1, EnteredFinite, FS_RemoveElement
  <2> QED
    BY <1>1, <1>2, <2>2 DEF IInv, TokensMatch, TypeOK
<1>8. MessagesKept'
  BY <1>1 DEF IInv, MessagesKept, TypeOK, GoTo, PushLocations
<1> QED
  BY <1>3, <1>4, <1>5, <1>6, <1>7, <1>8 DEF IInv

(* Reading changes no slot and no list. *)
LEMMA PullReadsInv ==
    ASSUME IInv, NEW p \in Processes, PullReads(p)
    PROVE  IInv'
<1> USE DEF PullReads, At
<1>1. idx[p] \in Cells
  BY DEF IInv, SlotsInHand, Holding, PushLocations
<1>2. Content(idx[p]) \in Messages \cup {None}
  BY <1>1 DEF IInv, TypeOK, Content, Slots
<1>3. TypeOK'
  BY <1>2 DEF IInv, TypeOK, GoTo, Locations
<1>4. SlotsInHand' /\ ListsIntact' /\ SlotsApart' /\ NoSlotLost'
  BY LocalStep DEF Holding, PushLocations, Locations
<1>5. TokensMatch'
  BY TokensUnchanged
<1>6. MessagesKept'
  BY DEF IInv, MessagesKept, TypeOK, GoTo, PushLocations
<1> QED
  BY <1>3, <1>4, <1>5, <1>6 DEF IInv

(* The slot goes back to the free list. *)
LEMMA PullEndsInv ==
    ASSUME IInv, NEW p \in Processes, PullEnds(p)
    PROVE  IInv'
<1> USE DEF PullEnds, At
<1> DEFINE c == idx[p]
<1>1. c \in Cells /\ c \notin Linked(used) \cup Linked(free)
  BY DEF IInv, SlotsInHand, SlotsApart, Holding, PushLocations
<1>2. /\ free' \in StaticLists(QueSize)
      /\ WellFormed(free')
      /\ Linked(free') = Linked(free) \cup {c}
  BY <1>1, ShmQueueAssumption, TailAdded DEF IInv, TypeOK, ListsIntact, Cells, GivenBack
<1>3. TypeOK'
  BY <1>2 DEF IInv, TypeOK, GoTo, Locations
<1>4. SlotsInHand' /\ ListsIntact'
  BY <1>2 DEF IInv, SlotsInHand, ListsIntact, TypeOK, GoTo, Holding, PushLocations
<1>5. SlotsApart'
  BY <1>1, <1>2, ListFacts DEF IInv, SlotsApart, TypeOK, Cells, CellsOf, Invalid
<1>6. NoSlotLost'
  BY <1>1, <1>2 DEF IInv, NoSlotLost, TypeOK
<1>7. TokensMatch'
  BY TokensUnchanged
<1>8. MessagesKept'
  BY DEF IInv, MessagesKept, TypeOK, GoTo, PushLocations
<1> QED
  BY <1>3, <1>4, <1>5, <1>6, <1>7, <1>8 DEF IInv

-----------------------------------------------------------------------------
(* The lists are made full and empty, every slot free. *)
LEMMA InitInv == Init => IInv
<1> SUFFICES ASSUME Init PROVE IInv
  OBVIOUS
<1> USE DEF Init
<1>1. /\ QueSize \in Nat \ {0}
      /\ used \in StaticLists(QueSize) /\ WellFormed(used) /\ Linked(used) = {}
      /\ free \in StaticLists(QueSize) /\ WellFormed(free) /\ Linked(free) = Cells
      /\ used.num = 0
  BY ShmQueueAssumption, ClearedListOrder, FullListOrder DEF Cells, ClearedList
<1>2. TypeOK
  BY <1>1 DEF TypeOK, Slots, Locations
<1>3. SlotsInHand /\ ListsIntact /\ SlotsApart /\ NoSlotLost
  BY <1>1 DEF SlotsInHand, ListsIntact, SlotsApart, NoSlotLost, Holding, PushLocations,
              Cells, CellsOf, Invalid
<1>4. TokensMatch
  <2>1. Entered = {}
    BY DEF Entered
  <2> QED
    BY <1>1, <2>1, FS_EmptySet DEF TokensMatch
<1>5. MessagesKept
  BY DEF MessagesKept, PushLocations
<1> QED
  BY <1>2, <1>3, <1>4, <1>5 DEF IInv

(* No step breaks the invariant. *)
LEMMA NextInv == IInv /\ [Next]_vars => IInv'
<1> SUFFICES ASSUME IInv, [Next]_vars PROVE IInv'
  OBVIOUS
<1>1. ASSUME NEW p \in Processes, NEW m \in Messages, PushBegins(p, m) PROVE IInv'
  BY <1>1, PushBeginsInv
<1>2. ASSUME NEW p \in Processes, PushStep(p) PROVE IInv'
  BY <1>2, PushMarksInv, WritesInv, PushEndsInv DEF PushStep
<1>3. ASSUME NEW p \in Processes, PullStep(p) PROVE IInv'
  BY <1>3, PullCallsInv, PullEntersInv, PullGivesUpInv, PullTakesInv, PullReadsInv,
     PullEndsInv DEF PullStep
<1>4. CASE UNCHANGED vars
  BY <1>4 DEF vars, IInv, TypeOK, SlotsInHand, ListsIntact, SlotsApart, NoSlotLost,
              TokensMatch, Entered, MessagesKept
<1> QED
  BY <1>1, <1>2, <1>3, <1>4 DEF Next

(* Every reachable state satisfies the inductive invariant. *)
THEOREM Invariant == Spec => []IInv
BY InitInv, NextInv, PTL DEF Spec

(* A slot is free, used, or with one process, and never two of these       *)
(* (shm_queue_push_begin to shm_queue_pull_end), for any number of slots   *)
(* and processes, whichever of them stop half way.                         *)
THEOREM SlotsArePartitioned == Spec => []SlotsPartition
<1>1. IInv => SlotsPartition
  <2> SUFFICES ASSUME IInv PROVE SlotsPartition
    OBVIOUS
  <2>1. ASSUME NEW c \in Cells PROVE Cardinality(Holders(c)) <= 1
    <3>1. CASE Holders(c) = {}
      BY <3>1, FS_EmptySet
    <3>2. CASE Holders(c) # {}
      <4>1. PICK p \in Processes : idx[p] = c
        BY <3>2 DEF Holders
      <4>2. Holders(c) = {p}
        BY <2>1, <4>1 DEF IInv, SlotsApart, Holders, Cells, CellsOf, Invalid
      <4> QED
        BY <4>2, FS_Singleton
    <3> QED
      BY <3>1, <3>2
  <2>2. ASSUME NEW c \in Cells
        PROVE  /\ c \in Linked(free) => c \notin Linked(used) /\ Holders(c) = {}
               /\ c \in Linked(used) => Holders(c) = {}
               /\ c \in Linked(free) \cup Linked(used) \/ Holders(c) # {}
    BY <2>2 DEF IInv, SlotsApart, NoSlotLost, Holders
  <2> QED
    BY <2>1, <2>2 DEF SlotsPartition, IInv
<1> QED
  BY <1>1, Invariant, PTL

(* sem_que never lets in a puller for whom there is no message, and leaves *)
(* no message without a token; no qc_assert of push or pull fails.         *)
THEOREM TokensAreMessages == Spec => []TokensMatch
<1>1. IInv => TokensMatch
  BY DEF IInv
<1> QED
  BY <1>1, Invariant, PTL

-----------------------------------------------------------------------------
(* The refinement of SharedFifo. *)

Pushes == {p \in Processes : Pushing[p] # {}}
Pulls  == {p \in Processes : Pulling[p] # {}}

(* What a process has in the FIFO follows its location. *)
LEMMA InHand ==
    ASSUME NEW p \in Processes
    PROVE  /\ Pushing[p] = IF pc[p] \in PushLocations THEN {msg[p]} ELSE {}
           /\ Pulling[p] = IF pc[p] = "pulled" THEN {Content(idx[p])}
                           ELSE IF pc[p] = "read" THEN {msg[p]} ELSE {}
BY DEF Pushing, Pulling

(* SharedFifo counts as this module does. *)
LEMMA FifoCounts ==
    ASSUME NEW S PROVE Fifo!Cardinality(S) = Cardinality(S)
BY DEF Cardinality, Fifo!Cardinality

(* The slots of the FIFO's messages, and of the processes that push or pull*)
(* one, are different cells; so while the free list has one more, the FIFO *)
(* has room.                                                               *)
LEMMA RoomTaken ==
    ASSUME IInv, free.num # 0
    PROVE  Fifo!Occupied < QueSize
<1> DEFINE H     == {p \in Processes : pc[p] \in Holding}
           f     == [p \in H |-> idx[p]]
           Hands == {f[p] : p \in H}
           Taken == Linked(used) \cup Hands
<1>1. /\ used \in StaticLists(QueSize) /\ WellFormed(used) /\ QueSize \in Nat \ {0}
      /\ free.head \in Linked(free) /\ Linked(free) \subseteq Cells
      /\ Linked(used) \subseteq Cells
  BY ListFacts DEF IInv, TypeOK, ListsIntact
<1>2. Len(Published) = used.num /\ used.num \in Nat
  <2>1. Order(used) \in Seq(Cells) /\ Represents(used, Order(used))
    BY <1>1, OrderRepresents DEF Cells
  <2>2. Len(Order(used)) = used.num
    BY <2>1 DEF Represents
  <2>3. DOMAIN Published = 1..Len(Order(used)) /\ Len(Order(used)) \in Nat
    BY <2>1 DEF Published
  <2> QED
    BY <2>2, <2>3 DEF Published
<1>3. IsFiniteSet(Linked(used)) /\ Cardinality(Linked(used)) = used.num
  BY <1>1, LinkedCounted
<1>4. Pushes \cup Pulls = H /\ Pushes \cap Pulls = {}
  BY InHand DEF Pushes, Pulls, Holding, PushLocations
<1>5. /\ IsFiniteSet(H) /\ IsFiniteSet(Pushes) /\ IsFiniteSet(Pulls)
      /\ Cardinality(Pushes) \in Nat /\ Cardinality(Pulls) \in Nat
      /\ Cardinality(H) = Cardinality(Pushes) + Cardinality(Pulls)
  <2>1. H \subseteq Processes /\ Pushes \subseteq Processes /\ Pulls \subseteq Processes
    BY DEF Pushes, Pulls
  <2>2. IsFiniteSet(H) /\ IsFiniteSet(Pushes) /\ IsFiniteSet(Pulls)
    BY <2>1, ShmQueueAssumption, FS_Subset
  <2>3. Cardinality(Pushes) \in Nat /\ Cardinality(Pulls) \in Nat
    BY <2>2, FS_CardinalityType
  <2>4. Cardinality(Pushes \cup Pulls) =
            Cardinality(Pushes) + Cardinality(Pulls) - Cardinality(Pushes \cap Pulls)
    BY <2>2, FS_Union
  <2>5. Cardinality(Pushes \cap Pulls) = 0
    BY <1>4, FS_EmptySet
  <2>6. Cardinality(H) = Cardinality(Pushes \cup Pulls)
    BY <1>4
  <2> HIDE DEF H
  <2> QED
    BY <2>1, <2>2, <2>3, <2>4, <2>5, <2>6
<1>6. IsFiniteSet(Hands) /\ Cardinality(Hands) = Cardinality(H)
  <2>1. \A x, y \in H : f[x] = f[y] => x = y
    BY DEF IInv, SlotsApart, SlotsInHand, Cells, CellsOf, Invalid
  <2> HIDE DEF H
  <2> QED
    BY <1>5, <2>1, OneToOneCounted
<1>7. Hands \subseteq Cells /\ Hands \cap Linked(used) = {} /\ free.head \notin Taken
  BY <1>1 DEF IInv, SlotsInHand, SlotsApart
<1>8. IsFiniteSet(Taken) /\ Cardinality(Taken) = used.num + Cardinality(H)
  <2> HIDE DEF H, Hands
  <2>1. /\ IsFiniteSet(Taken)
        /\ Cardinality(Taken) = Cardinality(Linked(used)) + Cardinality(Hands)
                                    - Cardinality(Linked(used) \cap Hands)
    BY <1>3, <1>6, FS_Union
  <2>2. Cardinality(Linked(used) \cap Hands) = 0
    BY <1>7, FS_EmptySet
  <2> QED
    BY <1>2, <1>3, <1>5, <1>6, <2>1, <2>2
<1>9. /\ IsFiniteSet(Cells) /\ Cardinality(Cells) = QueSize
      /\ Taken \cup {free.head} \subseteq Cells
  <2>1. 0 \in Int /\ QueSize - 1 \in Int
    BY <1>1
  <2>2. /\ IsFiniteSet(0..(QueSize - 1))
        /\ Cardinality(0..(QueSize - 1)) = IF 0 > QueSize - 1 THEN 0 ELSE QueSize - 1 - 0 + 1
    BY <2>1, FS_Interval
  <2> QED
    BY <1>1, <1>7, <2>2 DEF Cells, CellsOf
<1> HIDE DEF H, Hands, Taken
<1>10. Cardinality(Taken \cup {free.head}) = Cardinality(Taken) + 1
  BY <1>7, <1>8, FS_AddElement
<1>11. Cardinality(Taken \cup {free.head}) <= Cardinality(Cells)
  BY <1>9, FS_Subset
<1>12. Fifo!Occupied = used.num + Cardinality(Pushes) + Cardinality(Pulls)
  BY <1>2, FifoCounts DEF Fifo!Occupied, Pushes, Pulls
<1> QED
  BY <1>1, <1>2, <1>5, <1>8, <1>9, <1>10, <1>11, <1>12

(* Publishing and pulling aside, a step leaves the FIFO's queue alone: it  *)
(* writes no slot of the used list.                                        *)
LEMMA PublishedKept ==
    ASSUME IInv, used' = used, \A c \in Linked(used) : slot'[c] = slot[c]
    PROVE  Published' = Published
<1> DEFINE s == Order(used)
<1>1. s \in Seq(Cells) /\ Represents(used, s) /\ Linked(used) = CellsIn(s)
  BY ShmQueueAssumption, OrderRepresents, LinkedIsListed DEF IInv, TypeOK, ListsIntact, Cells
<1>2. Order(used)' = s
  OBVIOUS
<1>3. \A i \in DOMAIN s : s[i] \in Linked(used)
  BY <1>1 DEF CellsIn
<1>4. Published' = [i \in DOMAIN s |-> Content(s[i])']
  BY <1>2 DEF Published, Content
<1> HIDE DEF s
<1>5. \A i \in DOMAIN s : Content(s[i])' = Content(s[i])
  BY <1>3 DEF Content, s
<1> QED
  BY <1>4, <1>5 DEF Published, s

(* A step of one process changes nothing in the hands of the others ...    *)
LEMMA PushingKept ==
    ASSUME IInv, NEW p \in Processes, NEW where,
           pc[p] \notin PushLocations, where \notin PushLocations, GoTo(p, where),
           \A q \in Processes \ {p} : msg'[q] = msg[q]
    PROVE  Pushing' = Pushing
<1>1. \A q \in Processes : pc'[q] = IF q = p THEN where ELSE pc[q]
  BY DEF GoTo, IInv, TypeOK
<1> QED
  BY <1>1 DEF Pushing

(* ... and the slot of a message that is being pulled is not written.      *)
LEMMA PullingKept ==
    ASSUME IInv, NEW p \in Processes, NEW where,
           pc[p] \notin {"pulled", "read"}, where \notin {"pulled", "read"},
           GoTo(p, where),
           \A q \in Processes \ {p} :
              /\ idx'[q] = idx[q] /\ msg'[q] = msg[q]
              /\ pc[q] = "pulled" => slot'[idx[q]] = slot[idx[q]]
    PROVE  Pulling' = Pulling
<1>1. \A q \in Processes : pc'[q] = IF q = p THEN where ELSE pc[q]
  BY DEF GoTo, IInv, TypeOK
<1> DEFINE Has(q) == IF pc[q] = "pulled" THEN {Content(idx[q])}
                     ELSE IF pc[q] = "read" THEN {msg[q]} ELSE {}
<1>2. Pulling = [q \in Processes |-> Has(q)]
  BY DEF Pulling
<1>3. Pulling' = [q \in Processes |-> Has(q)']
  BY DEF Pulling
<1>4. ASSUME NEW q \in Processes PROVE Has(q)' = Has(q)
  BY <1>1 DEF Content
<1> HIDE DEF Has
<1> QED
  BY <1>2, <1>3, <1>4

(* A push takes the FIFO's room when it begins ... *)
LEMMA PushBeginsReserves ==
    ASSUME IInv, NEW p \in Processes, NEW m \in Messages, PushBegins(p, m)
    PROVE  Fifo!Reserve(p, m)
<1>1. /\ pc[p] = "idle" /\ free.num # 0
      /\ GoTo(p, "begun") /\ msg' = [msg EXCEPT ![p] = m]
      /\ UNCHANGED <<used, slot>>
      /\ \A q \in Processes \ {p} : idx'[q] = idx[q] /\ msg'[q] = msg[q]
  BY PushFindsSlot DEF PushBegins, At, IInv, TypeOK
<1>2. Pushing[p] = {} /\ Pulling[p] = {}
  BY <1>1, InHand DEF PushLocations
<1>3. Fifo!Occupied < QueSize
  BY <1>1, RoomTaken
<1>4. Pushing' = [Pushing EXCEPT ![p] = {m}]
  BY <1>1 DEF Pushing, GoTo, PushLocations, IInv, TypeOK
<1>5. Published' = Published
  BY <1>1, PublishedKept
<1>6. Pulling' = Pulling
  BY <1>1, PullingKept
<1> QED
  BY <1>2, <1>3, <1>4, <1>5, <1>6 DEF Fifo!Reserve

(* ... has nothing to show for it while the slot is written ... *)
LEMMA WritingIsHidden ==
    ASSUME IInv, NEW p \in Processes, PushMarks(p) \/ Writes(p)
    PROVE  UNCHANGED Fifo!vars
<1>1. /\ pc[p] \in {"begun", "writing"} /\ UNCHANGED <<used, idx, msg>>
      /\ \E where \in {"writing", "written"} : GoTo(p, where)
      /\ \A c \in Cells \ {idx[p]} : slot'[c] = slot[c]
      /\ idx[p] \in Cells
  BY DEF PushMarks, Writes, At, IInv, TypeOK, SlotsInHand, Holding, PushLocations
<1>2. \A c \in Linked(used) : slot'[c] = slot[c]
  BY <1>1, ListFacts DEF IInv, SlotsApart
<1>3. Published' = Published
  BY <1>1, <1>2, PublishedKept
<1>4. Pushing' = Pushing
  BY <1>1 DEF Pushing, GoTo, PushLocations, IInv, TypeOK
<1>5. \A q \in Processes \ {p} : pc[q] = "pulled" => slot'[idx[q]] = slot[idx[q]]
  BY <1>1 DEF IInv, SlotsInHand, SlotsApart, Holding, Cells, CellsOf, Invalid
<1>6. Pulling' = Pulling
  BY <1>1, <1>5, PullingKept
<1> QED
  BY <1>3, <1>4, <1>6 DEF Fifo!vars

(* ... and puts its message, whole, at the end of the FIFO's queue.        *)
LEMMA PushEndsPublishes ==
    ASSUME IInv, NEW p \in Processes, PushEnds(p)
    PROVE  msg[p] \in Messages /\ Fifo!Publish(p, msg[p])
<1> DEFINE c == idx[p]
           s == Order(used)
           Shown(x) == IF slot'[x].len = slot'[x].body THEN slot'[x].body ELSE None
<1>1. /\ pc[p] = "written" /\ GoTo(p, "idle")
      /\ used' = WithTail(used, c)
      /\ slot' = [slot EXCEPT ![c].len = msg[p]]
      /\ \A q \in Processes \ {p} : idx'[q] = idx[q] /\ msg'[q] = msg[q]
  BY DEF PushEnds, At, IInv, TypeOK
<1>2. /\ c \in Cells /\ c \notin Linked(used) /\ msg[p] \in Messages
      /\ slot[c].body = msg[p]
  BY <1>1 DEF IInv, SlotsInHand, SlotsApart, MessagesKept, Holding, PushLocations
<1>3. /\ slot' \in [Cells -> Slots] /\ slot \in [Cells -> Slots]
      /\ slot'[c].len = msg[p] /\ slot'[c].body = msg[p]
      /\ \A x \in Cells \ {c} : slot'[x] = slot[x]
  BY <1>1, <1>2 DEF IInv, TypeOK, Slots
<1>4. Order(used)' = Append(s, c)
  <2>1. Order(WithTail(used, c)) = Append(s, c)
    BY <1>2, ShmQueueAssumption, TailAdded DEF IInv, TypeOK, ListsIntact, Cells
  <2> QED
    BY <1>1, <2>1
<1>5. s \in Seq(Cells) /\ \A i \in DOMAIN s : s[i] # c /\ s[i] \in Cells
  <2>1. s \in Seq(Cells) /\ Linked(used) = CellsIn(s)
    BY ShmQueueAssumption, OrderRepresents, LinkedIsListed
       DEF IInv, TypeOK, ListsIntact, Cells
  <2> QED
    BY <1>2, <2>1 DEF CellsIn
<1>6. Published' = Append(Published, msg[p])
  <2> DEFINE a == Append(s, c)
  <2>1. /\ DOMAIN a = 1..(Len(s) + 1) /\ DOMAIN s = 1..Len(s) /\ Len(s) \in Nat
        /\ \A i \in 1..Len(s) : a[i] = s[i]
        /\ a[Len(s) + 1] = c
    BY <1>2, <1>5
  <2>2. Published' = [i \in DOMAIN a |-> Shown(a[i])]
    BY <1>4 DEF Published, Content
  <2>3. Published = [i \in DOMAIN s |-> Content(s[i])]
    BY DEF Published
  <2>4. Shown(c) = msg[p]
    BY <1>3
  <2>5. \A i \in DOMAIN s : Shown(s[i]) = Content(s[i])
    BY <1>3, <1>5 DEF Content
  <2> HIDE DEF a, s, c, Shown
  <2>6. Len(Published) = Len(s) /\ Append(Published, msg[p]) =
            [i \in 1..(Len(s) + 1) |-> IF i = Len(s) + 1 THEN msg[p] ELSE Published[i]]
    BY <2>1, <2>3
  <2>7. ASSUME NEW i \in 1..(Len(s) + 1)
        PROVE  Shown(a[i]) = IF i = Len(s) + 1 THEN msg[p] ELSE Published[i]
    <3>1. CASE i = Len(s) + 1
      BY <2>1, <2>4, <3>1
    <3>2. CASE i # Len(s) + 1
      <4>1. i \in DOMAIN s /\ a[i] = s[i]
        BY <2>1, <3>2
      <4> QED
        BY <2>3, <2>5, <3>2, <4>1
    <3> QED
      BY <3>1, <3>2
  <2> QED
    BY <2>1, <2>2, <2>6, <2>7
<1>7. Pushing[p] = {msg[p]}
  BY <1>1, InHand DEF PushLocations
<1>8. Pushing' = [Pushing EXCEPT ![p] = {}]
  BY <1>1 DEF Pushing, GoTo, PushLocations, IInv, TypeOK
<1>9. \A q \in Processes \ {p} : pc[q] = "pulled" => slot'[idx[q]] = slot[idx[q]]
  BY <1>2, <1>3 DEF IInv, SlotsInHand, SlotsApart, Holding, Cells, CellsOf, Invalid
<1>10. Pulling' = Pulling
  BY <1>1, <1>9, PullingKept
<1> QED
  BY <1>2, <1>6, <1>7, <1>8, <1>10 DEF Fifo!Publish

(* A pull shows nothing until it takes a slot ... *)
LEMMA WaitingIsHidden ==
    ASSUME IInv, NEW p \in Processes,
           PullCalls(p) \/ PullEnters(p) \/ PullTimesOut(p) \/ PullRejected(p)
    PROVE  UNCHANGED Fifo!vars
<1>1. /\ pc[p] \in {"idle", "pull_wait", "pull_timed"} /\ UNCHANGED <<used, slot, idx, msg>>
      /\ \E where \in {"idle", "pull_wait", "pull_timed", "pull_lock"} : GoTo(p, where)
  BY DEF PullCalls, PullEnters, PullTimesOut, PullRejected, At
<1>2. Published' = Published
  BY <1>1, PublishedKept
<1>3. Pushing' = Pushing
  BY <1>1, PushingKept DEF PushLocations
<1>4. Pulling' = Pulling
  BY <1>1, PullingKept
<1> QED
  BY <1>2, <1>3, <1>4 DEF Fifo!vars

(* ... which is the one of the first message in the FIFO's queue.          *)
LEMMA PullTakesFirst ==
    ASSUME IInv, NEW p \in Processes, PullTakes(p)
    PROVE  Fifo!Pull(p)
<1> DEFINE c == used.head
           s == Order(used)
<1>1. /\ pc[p] = "pull_lock" /\ GoTo(p, "pulled") /\ c \in Linked(used)
      /\ idx' = [idx EXCEPT ![p] = c] /\ used' = WithoutHead(used)
      /\ UNCHANGED <<slot, msg>>
  BY PullFindsMessage DEF PullTakes, NextToPull, At
<1>2. c # Invalid
  BY <1>1, ListFacts DEF Cells, CellsOf, Invalid
<1>3. used \in StaticLists(QueSize) /\ WellFormed(used) /\ QueSize \in Nat
  BY ShmQueueAssumption DEF IInv, TypeOK, ListsIntact
<1>4. Order(used)' = Tail(s)
  <2>1. Order(WithoutHead(used)) = Tail(s)
    BY <1>2, <1>3, HeadTaken
  <2> QED
    BY <1>1, <2>1
<1>5. s \in Seq(Cells) /\ s # <<>> /\ c = s[1]
  BY <1>2, <1>3, OrderRepresents, HeadOfList DEF Cells
<1>6. Published # <<>> /\ Head(Published) = Content(c)
  BY <1>5 DEF Published
<1>7. Published' = Tail(Published)
  <2> DEFINE a == Tail(s)
  <2>1. /\ Len(s) \in Nat \ {0} /\ DOMAIN s = 1..Len(s) /\ DOMAIN a = 1..(Len(s) - 1)
        /\ \A i \in DOMAIN a : a[i] = s[i + 1] /\ i + 1 \in DOMAIN s
    BY <1>5
  <2>2. Published' = [i \in DOMAIN a |-> Content(a[i])]
    BY <1>1, <1>4 DEF Published, Content
  <2>3. Published = [i \in DOMAIN s |-> Content(s[i])]
    BY DEF Published
  <2> HIDE DEF a, s
  <2>4. Tail(Published) = [i \in 1..(Len(s) - 1) |-> Published[i + 1]]
    BY <2>1, <2>3
  <2>5. \A i \in DOMAIN a : Content(a[i]) = Published[i + 1]
    BY <2>1, <2>3
  <2> QED
    BY <2>1, <2>2, <2>4, <2>5
<1>8. Pushing[p] = {} /\ Pulling[p] = {}
  BY <1>1, InHand DEF PushLocations
<1>9. Pushing' = Pushing
  BY <1>1, PushingKept DEF PushLocations
<1>10. Pulling' = [Pulling EXCEPT ![p] = {Content(c)}]
  <2> DEFINE Has(q) == IF pc[q] = "pulled" THEN {Content(idx[q])}
                       ELSE IF pc[q] = "read" THEN {msg[q]} ELSE {}
             After(q) == IF pc'[q] = "pulled" THEN {Content(idx'[q])}
                         ELSE IF pc'[q] = "read" THEN {msg[q]} ELSE {}
  <2>1. Pulling = [q \in Processes |-> Has(q)]
    BY DEF Pulling
  <2>2. Pulling' = [q \in Processes |-> After(q)]
    BY <1>1 DEF Pulling, Content
  <2>3. \A q \in Processes : After(q) = IF q = p THEN {Content(c)} ELSE Has(q)
    BY <1>1 DEF GoTo, IInv, TypeOK
  <2> HIDE DEF Has, After
  <2> QED
    BY <2>1, <2>2, <2>3
<1> QED
  BY <1>6, <1>7, <1>8, <1>9, <1>10 DEF Fifo!Pull

(* The message that is read is still the one that was pulled ... *)
LEMMA ReadingIsHidden ==
    ASSUME IInv, NEW p \in Processes, PullReads(p)
    PROVE  UNCHANGED Fifo!vars
<1>1. /\ pc[p] = "pulled" /\ GoTo(p, "read") /\ UNCHANGED <<used, slot, idx>>
      /\ msg' = [msg EXCEPT ![p] = Content(idx[p])]
  BY DEF PullReads, At
<1>2. Published' = Published
  BY <1>1, PublishedKept
<1>3. Pushing' = Pushing
  BY <1>1, PushingKept DEF PushLocations, IInv, TypeOK
<1>4. Pulling' = Pulling
  <2> DEFINE Has(q) == IF pc[q] = "pulled" THEN {Content(idx[q])}
                       ELSE IF pc[q] = "read" THEN {msg[q]} ELSE {}
             After(q) == IF pc'[q] = "pulled" THEN {Content(idx[q])}
                         ELSE IF pc'[q] = "read" THEN {msg'[q]} ELSE {}
  <2>1. Pulling = [q \in Processes |-> Has(q)]
    BY DEF Pulling
  <2>2. Pulling' = [q \in Processes |-> After(q)]
    BY <1>1 DEF Pulling, Content
  <2>3. \A q \in Processes : After(q) = Has(q)
    BY <1>1 DEF GoTo, IInv, TypeOK
  <2> HIDE DEF Has, After
  <2> QED
    BY <2>1, <2>2, <2>3
<1> QED
  BY <1>2, <1>3, <1>4 DEF Fifo!vars

(* ... and its room is given back when the pull ends.                      *)
LEMMA PullEndsReleases ==
    ASSUME IInv, NEW p \in Processes, PullEnds(p)
    PROVE  Fifo!Release(p)
<1>1. /\ pc[p] = "read" /\ GoTo(p, "idle") /\ UNCHANGED <<used, slot>>
      /\ \A q \in Processes \ {p} : idx'[q] = idx[q] /\ msg'[q] = msg[q]
  BY DEF PullEnds, At, IInv, TypeOK
<1>2. Published' = Published
  BY <1>1, PublishedKept
<1>3. Pushing' = Pushing
  BY <1>1, PushingKept DEF PushLocations
<1>4. Pulling[p] # {}
  BY <1>1, InHand
<1>5. Pulling' = [Pulling EXCEPT ![p] = {}]
  <2> DEFINE Has(q) == IF pc[q] = "pulled" THEN {Content(idx[q])}
                       ELSE IF pc[q] = "read" THEN {msg[q]} ELSE {}
             After(q) == IF pc'[q] = "pulled" THEN {Content(idx'[q])}
                         ELSE IF pc'[q] = "read" THEN {msg'[q]} ELSE {}
  <2>1. Pulling = [q \in Processes |-> Has(q)]
    BY DEF Pulling
  <2>2. Pulling' = [q \in Processes |-> After(q)]
    BY <1>1 DEF Pulling, Content
  <2>3. \A q \in Processes : After(q) = IF q = p THEN {} ELSE Has(q)
    BY <1>1 DEF GoTo, IInv, TypeOK
  <2> HIDE DEF Has, After
  <2> QED
    BY <2>1, <2>2, <2>3
<1> QED
  BY <1>2, <1>3, <1>4, <1>5 DEF Fifo!Release

(* At first nothing is published, pushed or pulled. *)
LEMMA InitEmpty == Init => Fifo!Init
<1> SUFFICES ASSUME Init PROVE Fifo!Init
  OBVIOUS
<1>1. Order(used) = <<>>
  BY ShmQueueAssumption, ClearedListOrder DEF Init
<1>2. Published = <<>>
  BY <1>1 DEF Published
<1>3. Pushing = [p \in Processes |-> {}] /\ Pulling = [p \in Processes |-> {}]
  BY DEF Pushing, Pulling, Init, PushLocations
<1> QED
  BY <1>2, <1>3 DEF Fifo!Init

(* Every step is one of the FIFO's or leaves it alone. *)
LEMMA StepRefines == IInv /\ [Next]_vars => [Fifo!Next]_(Fifo!vars)
<1> SUFFICES ASSUME IInv, [Next]_vars PROVE [Fifo!Next]_(Fifo!vars)
  OBVIOUS
<1>1. ASSUME NEW p \in Processes, NEW m \in Messages, PushBegins(p, m) PROVE Fifo!Next
  BY <1>1, PushBeginsReserves DEF Fifo!Next
<1>2. ASSUME NEW p \in Processes, PushStep(p) PROVE [Fifo!Next]_(Fifo!vars)
  <2>1. CASE PushMarks(p) \/ Writes(p)
    BY <2>1, WritingIsHidden
  <2>2. CASE PushEnds(p)
    BY <2>2, PushEndsPublishes DEF Fifo!Next
  <2> QED
    BY <1>2, <2>1, <2>2 DEF PushStep
<1>3. ASSUME NEW p \in Processes, PullStep(p) PROVE [Fifo!Next]_(Fifo!vars)
  <2>1. CASE PullCalls(p) \/ PullEnters(p) \/ PullTimesOut(p) \/ PullRejected(p)
    BY <2>1, WaitingIsHidden
  <2>2. CASE PullTakes(p)
    BY <2>2, PullTakesFirst DEF Fifo!Next
  <2>3. CASE PullReads(p)
    BY <2>3, ReadingIsHidden
  <2>4. CASE PullEnds(p)
    BY <2>4, PullEndsReleases DEF Fifo!Next
  <2> QED
    BY <1>3, <2>1, <2>2, <2>3, <2>4 DEF PullStep
<1>4. CASE UNCHANGED vars
  BY <1>4 DEF vars, Fifo!vars, Published, Pushing, Pulling, Content
<1> QED
  BY <1>1, <1>2, <1>3, <1>4 DEF Next

(* The shared-memory queue is the bounded FIFO of SharedFifo: messages are *)
(* pulled whole, in the order in which their pushes ended, each by one     *)
(* puller, and a process that stops half way keeps one place and no more.  *)
THEOREM Implementation == Spec => ImplementsFifo
BY InitEmpty, StepRefines, Invariant, PTL DEF Spec, ImplementsFifo, Fifo!Spec
=============================================================================
