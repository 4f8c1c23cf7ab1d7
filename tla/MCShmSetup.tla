----------------------------- MODULE MCShmSetup -----------------------------
(* TLC instance of ShmSetup: one or two queues, two starts, two attaches. *)
EXTENDS ShmSetup, TLC

CONSTANTS p1, p2

TwoAttachers == {p1, p2}
OneOrTwo == {<<[queuesize |-> 2, msgsize |-> 3]>>,
             <<[queuesize |-> 3, msgsize |-> 2], [queuesize |-> 1, msgsize |-> 5]>>}
Interchangeable == Permutations(TwoAttachers)
=============================================================================
