------------------------------ MODULE MCPsist ------------------------------
(* TLC instances of Psist. *)
EXTENDS Psist, TLC

CONSTANTS m1, m2, m3

ThreeMessages == {m1, m2, m3}
Symmetry == Permutations(Messages)
=============================================================================
