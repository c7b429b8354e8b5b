--------------------------- MODULE MCRegistration ---------------------------
(***************************************************************************)
(* Instances of Registration for TLC.                                      *)
(***************************************************************************)
EXTENDS Registration, TLC

CONSTANTS e1, e2, k1, k2

\* A deployment may move the agent to another URL.
OwnURL == [k \in {k1, k2} |-> IF k = k1 THEN {e1} ELSE {e2}]

Symmetry == Permutations(Runs)

=============================================================================
