------------------------------ MODULE MCAgent ------------------------------
(***************************************************************************)
(* Instances of Agent for TLC.                                             *)
(***************************************************************************)
EXTENDS Agent

CONSTANTS n1, c1, c2

By(b, k) == [bearer |-> b, context |-> None, kind |-> k]

\* A tenant's broadcast, which uses the pool; and a read without a bearer,
\* which dials for itself and may be made again.
TwoCalls == [c \in {c1, c2} |-> IF c = c1 THEN {By(n1, "build")} ELSE {By(n1, "build"), By(None, "read")}]

=============================================================================
