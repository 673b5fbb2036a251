------------------------- MODULE MCConfirmationGate -------------------------
(***************************************************************************)
(* Instances of ConfirmationGate for TLC.                                  *)
(***************************************************************************)
EXTENDS ConfirmationGate, TLC

CONSTANTS p1, p2, c1, c2, k1, k2

AllCalls == {c1, c2}

OneProcess == [c \in AllCalls |-> p1]

ProcessPerCall == [c \in AllCalls |-> IF c = c1 THEN p1 ELSE p2]

OpsAndKeys == Permutations(Ops) \cup Permutations(Keys)

Symmetry == Permutations(Calls) \cup Permutations(Ops) \cup Permutations(Nonces)

=============================================================================
