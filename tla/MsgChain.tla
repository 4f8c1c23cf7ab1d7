------------------------------ MODULE MsgChain ------------------------------
(***************************************************************************)
(* The message chain of one queue (qc_msgchain.c) driven by the calls      *)
(* qc_queue.c makes under the queue lock: push when there is room, pop     *)
(* when there is a message, force-push at any time.  The queue lock makes  *)
(* the calls atomic, so this module is sequential.                         *)
(***************************************************************************)
EXTENDS PriorityBuckets, FiniteSets

CONSTANTS Messages,           \* message objects; one is reused once it has left
          Prio,               \* what qc_message_priority returns for each
          CountLimit,         \* count_limit
          BypassCap           \* bound: the history counts no further than this

ASSUME MsgChainAssumption ==
    /\ CountLimit \in Nat \ {0}
    /\ BypassCap \in Nat
    /\ Prio \in [Messages -> Nat]   \* qc_message_setpriority admits any >= 0

VARIABLES chain,
          failed,             \* the qc_assert that aborted the process, or "none"
          bypassed            \* history: pops by others since p was last served

vars == <<chain, failed, bypassed>>

-----------------------------------------------------------------------------
Init == /\ chain = EmptyChain
        /\ failed = "none"
        /\ bypassed = [p \in Prios |-> 0]

(* The two assertions of qc_msgchain_pushmsg. *)
Pushable(b, m) == b.count < CountLimit /\ Prio[m] \in Prios

PushOnto(b, m) ==
    IF Pushable(b, m)
    THEN chain' = Pushed(b, Prio[m], m) /\ UNCHANGED failed
    ELSE failed' = "push" /\ UNCHANGED chain

(* qc_queue_msgput calls it only when msg_count differs from the limit. *)
PushMsg(m) ==
    /\ failed = "none"
    /\ m \notin Members(chain)
    /\ chain.count # CountLimit
    /\ PushOnto(chain, m)
    /\ UNCHANGED bypassed

(* Once popped, p is served and every other nonempty bucket was passed by. *)
CountedOn(n) == IF n < BypassCap THEN n + 1 ELSE n
Served(p) == bypassed' = [q \in Prios |-> IF q = p \/ chain.bucket[q] = <<>>
                                          THEN 0 ELSE CountedOn(bypassed[q])]

(* qc_queue_msgget calls it only when there is a message. *)
PopMsg ==
    /\ failed = "none"
    /\ chain.count > 0
    /\ \/ \E r \in Pops(chain) : /\ chain' = r.rest
                                 /\ Served(Prio[r.item])
                                 /\ UNCHANGED failed
       \/ /\ Pops(chain) = {}
          /\ failed' = "pop"
          /\ UNCHANGED <<chain, bypassed>>

(* A full chain gives up the head of its lowest nonempty bucket. *)
ForcePush(m) ==
    /\ failed = "none"
    /\ m \notin Members(chain)
    /\ \/ chain.count < CountLimit /\ PushOnto(chain, m)
       \/ /\ chain.count >= CountLimit
          /\ \E r \in Evictions(chain) : PushOnto(r.rest, m)
    /\ UNCHANGED bypassed

Next == \/ PopMsg
        \/ \E m \in Messages : PushMsg(m)
        \/ \E m \in Messages : ForcePush(m)

Spec == Init /\ [][Next]_vars

(* Consumers that keep calling qc_queue_msgget, as the test's do. *)
FairSpec == Spec /\ WF_vars(PopMsg)

-----------------------------------------------------------------------------
TypeOK == /\ chain \in Chains(Messages)
          /\ failed \in {"none", "push", "pop"}
          /\ bypassed \in [Prios -> 0..BypassCap]

(* What the search relies on without looking: no message lies above the    *)
(* cursor, msg_count is the number of listed messages, the limit holds,    *)
(* no bucket has overdrawn its turn, and the cursor is a bucket there is.  *)
ChainCoherent ==
    /\ TypeOK
    /\ \A p \in NonEmpty(chain) : p <= chain.cursor
    /\ chain.count = Cardinality(Members(chain))
    /\ chain.count <= CountLimit
    /\ \A p \in Prios : chain.popc[p] <= p

(* popmsg never runs its search below bucket 1: the qc_assert(bucket_sn>=0)*)
(* inside its retry loop holds whatever was pushed, popped and evicted.    *)
PopNeverAborts == failed # "pop"

(* While consumers keep popping, a pushed message eventually leaves, unless*)
(* the process aborts.                                                     *)
EventuallyServed == \A m \in Messages :
    m \in Members(chain) ~> m \notin Members(chain) \/ failed # "none"
=============================================================================
