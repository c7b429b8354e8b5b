--------------------------- MODULE MCSessionPool ---------------------------
(***************************************************************************)
(* Instances of SessionPool for TLC.  Callers are described by what        *)
(* matters to the pool: a bearer, a conversation, or neither, and a tool   *)
(* that may or may not be repeated.                                        *)
(***************************************************************************)
EXTENDS SessionPoolRefines, TLC

CONSTANTS n1, n2

By(b, x, k) == [bearer |-> b, context |-> x, kind |-> k]

\* Every call may be any of these requests.
Each(requests) == [c \in Calls |-> requests]

\* One conversation that authenticates while another, whose id is the same
\* string as a bearer in use, reads; and a caller with no identity.
IdentityRequests == Each(
  {By(None, n1, "auth"), By(None, n1, "read"), By(None, n2, "read"),
   By(n1, None, "read"), By(None, None, "auth")})

\* One tenant's reads and broadcasts on one bearer.
TenantRequests == Each({By(n1, None, "read"), By(n1, n2, "build")})

\* Two tenants, reading.
TwoTenants == Each({By(n1, None, "read"), By(n2, None, "read")})

\* One tenant only.
ReadRequests == Each({By(n1, None, "read")})

Symmetry == Permutations(Calls)

=============================================================================
