--------------------------- MODULE MsgChainProofs ---------------------------
(***************************************************************************)
(* Proofs about MsgChain, for any number of priority levels, any messages  *)
(* and any limit: what the search of qc_msgchain_popmsg relies on without  *)
(* looking holds whatever is pushed, popped and evicted; and the search can*)
(* end in its assertion only with messages of two levels above the lowest. *)
(*                                                                         *)
(* ChainCoherent counts messages, the code counts entries of the lists.    *)
(* The invariant keeps the two together: msg_count is the number of        *)
(* entries (Counted), and no message is listed twice (NoneTwice).          *)
(***************************************************************************)
EXTENDS MsgChain, ListProofs

IInv == /\ TypeOK
        /\ Kept(Messages, chain)
        /\ chain.count <= CountLimit

-----------------------------------------------------------------------------
(* The invariant. *)

(* The history's counters stay within their bound. *)
LEMMA ServedTyped ==
    ASSUME TypeOK, NEW p, Served(p)
    PROVE  bypassed' \in [Prios -> 0..BypassCap]
<1>1. BypassCap \in Nat /\ bypassed \in [Prios -> 0..BypassCap]
  BY MsgChainAssumption DEF TypeOK
<1>2. \A n \in 0..BypassCap : CountedOn(n) \in 0..BypassCap
  BY <1>1 DEF CountedOn
<1>3. ASSUME NEW q \in Prios
      PROVE  (IF q = p \/ chain.bucket[q] = <<>> THEN 0 ELSE CountedOn(bypassed[q]))
                \in 0..BypassCap
  BY <1>1, <1>2
<1> QED
  BY <1>3 DEF Served

(* The first chain is empty. *)
LEMMA InitKept ==
    ASSUME Init
    PROVE  IInv
<1>1. Kept(Messages, EmptyChain) /\ Members(EmptyChain) = {} /\ EmptyChain.count = 0
  BY EmptyChainKept
<1>2. bypassed \in [Prios -> 0..BypassCap] /\ 0 <= CountLimit
  BY MsgChainAssumption DEF Init
<1> QED
  BY <1>1, <1>2 DEF Init, IInv, Kept, TypeOK

(* qc_msgchain_pushmsg, onto the chain it is called with. *)
LEMMA PushOntoKeeps ==
    ASSUME IInv, NEW b, Kept(Messages, b), NEW m \in Messages, m \notin Members(b),
           PushOnto(b, m), UNCHANGED bypassed
    PROVE  IInv'
<1>1. bypassed' \in [Prios -> 0..BypassCap] /\ failed \in {"none", "push", "pop"}
  BY DEF IInv, TypeOK
<1>2. CASE Pushable(b, m)
  <2>1. chain' = Pushed(b, Prio[m], m) /\ failed' = failed /\ Prio[m] \in Prios
        /\ b.count < CountLimit
    BY <1>2 DEF PushOnto, Pushable
  <2>2. Kept(Messages, chain') /\ chain'.count = b.count + 1
    BY <2>1, PushedKept
  <2>3. chain'.count <= CountLimit
    BY <2>1, <2>2, CountedNat, MsgChainAssumption DEF Kept
  <2> QED
    BY <1>1, <2>1, <2>2, <2>3 DEF IInv, TypeOK, Kept
<1>3. CASE ~Pushable(b, m)
  BY <1>1, <1>3 DEF PushOnto, IInv, TypeOK, Kept
<1> QED
  BY <1>2, <1>3

(* The push a put makes, *)
LEMMA PushMsgKeeps ==
    ASSUME IInv, NEW m \in Messages, PushMsg(m)
    PROVE  IInv'
BY PushOntoKeeps DEF PushMsg, IInv

(* the pop a get makes, *)
LEMMA PopMsgKeeps ==
    ASSUME IInv, PopMsg
    PROVE  IInv'
<1>1. /\ Kept(Messages, chain) /\ chain.count > 0 /\ chain.count <= CountLimit /\ chain.count \in Nat
      /\ failed \in {"none", "push", "pop"} /\ TypeOK
  BY CountedNat DEF IInv, PopMsg, Kept, TypeOK
<1>2. CASE \E r \in Pops(chain) : chain' = r.rest /\ Served(Prio[r.item]) /\ UNCHANGED failed
  <2>1. PICK r \in Pops(chain) : chain' = r.rest /\ Served(Prio[r.item]) /\ failed' = failed
    BY <1>2
  <2>2. Kept(Messages, chain') /\ chain'.count = chain.count - 1
    BY <1>1, <2>1, PopsKept
  <2>3. bypassed' \in [Prios -> 0..BypassCap]
    BY <1>1, <2>1, ServedTyped
  <2>4. chain'.count <= CountLimit
    BY <1>1, <2>2, MsgChainAssumption
  <2> QED
    BY <1>1, <2>1, <2>2, <2>3, <2>4 DEF IInv, TypeOK, Kept
<1>3. CASE failed' = "pop" /\ UNCHANGED <<chain, bypassed>>
  BY <1>1, <1>3 DEF IInv, TypeOK
<1> QED
  BY <1>2, <1>3 DEF PopMsg

(* and the push a force-put makes, on a full chain after an eviction. *)
LEMMA ForcePushKeeps ==
    ASSUME IInv, NEW m \in Messages, ForcePush(m)
    PROVE  IInv'
<1>1. Kept(Messages, chain) /\ m \notin Members(chain) /\ UNCHANGED bypassed
  BY DEF IInv, ForcePush
<1>2. CASE PushOnto(chain, m)
  BY <1>1, <1>2, PushOntoKeeps
<1>3. CASE \E r \in Evictions(chain) : PushOnto(r.rest, m)
  <2>1. PICK r \in Evictions(chain) : PushOnto(r.rest, m)
    BY <1>3
  <2>2. Kept(Messages, r.rest) /\ m \notin Members(r.rest)
    BY <1>1, EvictionsKept
  <2> QED
    BY <1>1, <2>1, <2>2, PushOntoKeeps
<1> QED
  BY <1>2, <1>3 DEF ForcePush

(* Every reachable chain lists no message twice, counts what it lists and  *)
(* is ruled by its cursor and its counters.                                *)
THEOREM Invariant == Spec => []IInv
<1>1. Init => IInv
  BY InitKept
<1>2. IInv /\ [Next]_vars => IInv'
  <2> SUFFICES ASSUME IInv, [Next]_vars PROVE IInv'
    OBVIOUS
  <2>1. CASE PopMsg
    BY <2>1, PopMsgKeeps
  <2>2. ASSUME NEW m \in Messages, PushMsg(m) PROVE IInv'
    BY <2>2, PushMsgKeeps
  <2>3. ASSUME NEW m \in Messages, ForcePush(m) PROVE IInv'
    BY <2>3, ForcePushKeeps
  <2>4. CASE UNCHANGED vars
    BY <2>4 DEF vars, IInv, TypeOK
  <2> QED
    BY <2>1, <2>2, <2>3, <2>4 DEF Next
<1> QED
  BY <1>1, <1>2, PTL DEF Spec

(* What qc_msgchain_popmsg relies on without looking: no message above the *)
(* cursor, msg_count the number of messages and within the limit, no turn  *)
(* overdrawn.                                                              *)
THEOREM Coherent == Spec => []ChainCoherent
<1>1. IInv => ChainCoherent
  <2> SUFFICES ASSUME IInv PROVE ChainCoherent
    OBVIOUS
  <2>1. chain.count = Cardinality(Members(chain))
    BY MembersCounted DEF IInv, Kept
  <2> QED
    BY <2>1 DEF IInv, Kept, Ruled, ChainCoherent
<1> QED
  BY <1>1, Invariant, PTL

-----------------------------------------------------------------------------
(* When the search aborts. *)

(* The priorities of messages that have a bucket; others are not pushed.   *)
Used == {Prio[m] : m \in Messages} \cap Prios

(* If messages have at most one priority besides the lowest, as those of   *)
(* every program in the repository do, and in any chain of one or two      *)
(* levels, no search ends in qc_assert(bucket_sn>=0); with two others one  *)
(* can, as the run with three levels shows.                                *)
THEOREM FewPrioritiesNeverAbort ==
    ASSUME FewLevels(Used)
    PROVE  Spec => []PopNeverAborts
<1> DEFINE Levels == NonEmpty(chain) \subseteq Used
<1>1. Init => Levels /\ PopNeverAborts
  BY EmptyChainLevels DEF Init, PopNeverAborts
<1>2. IInv /\ Levels /\ PopNeverAborts /\ [Next]_vars => Levels' /\ PopNeverAborts'
  <2> SUFFICES ASSUME IInv, Levels, PopNeverAborts, [Next]_vars
               PROVE  Levels' /\ PopNeverAborts'
    OBVIOUS
  <2>1. CASE PopMsg
    <3>1. Kept(Messages, chain) /\ chain.count # 0
      BY <2>1, CountedNat DEF PopMsg, IInv, Kept
    <3>2. FewLevels(NonEmpty(chain))
      BY DEF FewLevels
    <3>3. Pops(chain) # {}
      BY <3>1, <3>2, FewLevelsPop
    <3>4. PICK r \in Pops(chain) : chain' = r.rest /\ UNCHANGED failed
      BY <2>1, <3>3 DEF PopMsg
    <3> QED
      BY <3>1, <3>4, PopsLevels DEF PopNeverAborts
  <2>2. ASSUME NEW b \in Chains(Messages), NonEmpty(b) \subseteq Used, NEW m \in Messages,
               PushOnto(b, m)
        PROVE  Levels' /\ PopNeverAborts'
    <3>1. CASE Pushable(b, m)
      BY <2>2, <3>1, PushedLevels DEF PushOnto, Pushable, Used, PopNeverAborts
    <3>2. CASE ~Pushable(b, m)
      BY <2>2, <3>2 DEF PushOnto, PopNeverAborts
    <3> QED
      BY <3>1, <3>2
  <2>3. chain \in Chains(Messages)
    BY DEF IInv, Kept
  <2>4. ASSUME NEW m \in Messages, PushMsg(m) PROVE Levels' /\ PopNeverAborts'
    BY <2>2, <2>3, <2>4 DEF PushMsg
  <2>5. ASSUME NEW m \in Messages, ForcePush(m) PROVE Levels' /\ PopNeverAborts'
    <3>1. PushOnto(chain, m) \/ \E r \in Evictions(chain) : PushOnto(r.rest, m)
      BY <2>5 DEF ForcePush
    <3>2. ASSUME NEW r \in Evictions(chain), PushOnto(r.rest, m) PROVE Levels' /\ PopNeverAborts'
      <4>1. r.rest \in Chains(Messages) /\ NonEmpty(r.rest) \subseteq Used
        BY <2>3, EvictionsTyped, EvictionsLevels
      <4> QED
        BY <2>2, <3>2, <4>1
    <3> QED
      BY <2>2, <2>3, <3>1, <3>2
  <2>6. CASE UNCHANGED vars
    BY <2>6 DEF vars, PopNeverAborts
  <2> QED
    BY <2>1, <2>4, <2>5, <2>6 DEF Next
<1> HIDE DEF Levels
<1> QED
  BY <1>1, <1>2, Invariant, PTL DEF Spec
=============================================================================
