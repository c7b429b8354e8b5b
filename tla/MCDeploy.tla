------------------------------ MODULE MCDeploy ------------------------------
(***************************************************************************)
(* Instances of Deploy for TLC.                                            *)
(***************************************************************************)
EXTENDS Deploy, TLC

CONSTANTS i1, i2, i3

\* Two images of one commit, the second built from edited files, and one of
\* another commit.
RefOf == [i \in {i1, i2, i3} |-> IF i = i3 THEN "b" ELSE "a"]

Symmetry == Permutations(Gens)

=============================================================================
