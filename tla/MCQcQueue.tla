----------------------------- MODULE MCQcQueue -----------------------------
(* TLC instances of QcQueue: which threads, messages, waits and bounds. *)
EXTENDS QcQueue, TLC

CONSTANTS p1, p2, g1, g2, f1,            \* threads
          h1, h2, l1, l2,                \* messages, of priority 2 and 1
          w1, w2, w3, w4                 \* waiter objects

OnePutter == {p1}
TwoPutters == {p1, p2}
OneGetter == {g1}
TwoGetters == {g1, g2}
OneForcer == {f1}
Nobody == {}

TwoMessages == {h1, l1}
ThreeMessages == {h1, h2, l1}
FourMessages == {h1, h2, l1, l2}
MixedPrio == [m \in Messages |-> IF m \in {h1, h2} THEN 2 ELSE 1]

TwoWaiters == {w1, w2}
ThreeWaiters == {w1, w2, w3}
FourWaiters == {w1, w2, w3, w4}

Forever == {"forever"}
Timed == {"timed"}
AnyWait == {"forever", "timed", "carry"}

(* Threads of one role, messages of one priority and waiter objects are    *)
(* interchangeable; only safety runs use this.                             *)
Symmetry == Permutations({p1, p2}) \cup Permutations({g1, g2})
            \cup Permutations({h1, h2}) \cup Permutations({l1, l2})
            \cup Permutations(Waiters)
=============================================================================
