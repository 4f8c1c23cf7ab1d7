----------------------------- MODULE SharedFifo -----------------------------
(***************************************************************************)
(* What a shared-memory queue promises: a bounded first-in first-out queue *)
(* of messages whose room is taken when a push begins and given back when  *)
(* the pull of its message has ended.  A process that stops half way keeps *)
(* the room it has, and nothing more.                                      *)
(***************************************************************************)
EXTENDS Naturals, Sequences, FiniteSets

CONSTANTS Processes, Messages, Capacity

VARIABLES queue,     \* messages published and not yet pulled
          pushing,   \* process -> set of the message it has room for, or {}
          pulling    \* process -> set of the message it has pulled, or {}

vars == <<queue, pushing, pulling>>

Occupied == Len(queue) + Cardinality({p \in Processes : pushing[p] # {}})
                       + Cardinality({p \in Processes : pulling[p] # {}})

Init == /\ queue = <<>>
        /\ pushing = [p \in Processes |-> {}]
        /\ pulling = [p \in Processes |-> {}]

Reserve(p, m) == /\ pushing[p] = {} /\ pulling[p] = {}
                 /\ Occupied < Capacity
                 /\ pushing' = [pushing EXCEPT ![p] = {m}]
                 /\ UNCHANGED <<queue, pulling>>

Publish(p, m) == /\ pushing[p] = {m}
                 /\ queue' = Append(queue, m)
                 /\ pushing' = [pushing EXCEPT ![p] = {}]
                 /\ UNCHANGED pulling

Pull(p) == /\ pushing[p] = {} /\ pulling[p] = {}
           /\ queue # <<>>
           /\ pulling' = [pulling EXCEPT ![p] = {Head(queue)}]
           /\ queue' = Tail(queue)
           /\ UNCHANGED pushing

Release(p) == /\ pulling[p] # {}
              /\ pulling' = [pulling EXCEPT ![p] = {}]
              /\ UNCHANGED <<queue, pushing>>

Next == \E p \in Processes : \/ \E m \in Messages : Reserve(p, m) \/ Publish(p, m)
                             \/ Pull(p) \/ Release(p)

Spec == Init /\ [][Next]_vars
=============================================================================
