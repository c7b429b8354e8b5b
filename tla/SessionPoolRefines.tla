------------------------- MODULE SessionPoolRefines -------------------------
(***************************************************************************)
(* SessionPool keeps the promise of ToolCalls.                             *)
(***************************************************************************)
EXTENDS SessionPool, FiniteSets

RunsOf(c) == {r \in ran : r.msg.call = c}

\* The refinement mapping: each of the promise's variables in terms of the pool.
Status == [c \in Calls |-> IF pc[c] = "idle" \/ Returned(c) THEN pc[c] ELSE "active"]
Callers == [c \in Calls |-> IF pc[c] = "idle" THEN Nobody ELSE Caller(c)]
Limit == [c \in Calls |-> IF pc[c] = "idle" THEN 0 ELSE IF req[c].kind = "read" THEN 2 ELSE 1]
Runs == [c \in Calls |-> Cardinality(RunsOf(c))]
ActedAs == [c \in Calls |-> {r.as : r \in RunsOf(c)}]

Promise == INSTANCE ToolCalls WITH
  status <- Status, caller <- Callers, limit <- Limit, runs <- Runs, actedAs <- ActedAs

\* Every behaviour of the pool, with its sweeps, evictions, restarts and
\* shutdown, is one of the promise: answers only to what ran, never more runs
\* than the caller allowed, never as anyone but the caller or nobody.
KeepsPromise == Promise!PSpec

=============================================================================
