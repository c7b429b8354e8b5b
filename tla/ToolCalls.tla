----------------------------- MODULE ToolCalls -----------------------------
(***************************************************************************)
(* What mcpclient.Client promises to the callers of CallTool, with no word *)
(* about sessions, locks or sweeps: a call ends with an answer or an error *)
(* if it ends; the remote runs it at most once, or at most twice when the  *)
(* caller said that it may be repeated, possibly after the call has        *)
(* failed; and each time it runs as the caller or as nobody.               *)
(***************************************************************************)
EXTENDS Naturals

CONSTANTS
  Calls,        \* the invocations
  Identities,   \* who a call may run as
  Nobody        \* a caller the remote has not authenticated

VARIABLES
  status,   \* idle, active, answered or failed
  caller,   \* who makes the call
  limit,    \* how often it may run
  runs,     \* how often it ran
  actedAs   \* as whom it ran

promiseVars == <<status, caller, limit, runs, actedAs>>

PInit ==
  /\ status = [c \in Calls |-> "idle"]
  /\ caller = [c \in Calls |-> Nobody]
  /\ limit = [c \in Calls |-> 0]
  /\ runs = [c \in Calls |-> 0]
  /\ actedAs = [c \in Calls |-> {}]

Accept(c) ==
  /\ status[c] = "idle"
  /\ status' = [status EXCEPT ![c] = "active"]
  /\ \E i \in Identities : caller' = [caller EXCEPT ![c] = i]
  /\ \E n \in {1, 2} : limit' = [limit EXCEPT ![c] = n]
  /\ UNCHANGED <<runs, actedAs>>

RunOnce(c) ==
  /\ runs[c] < limit[c]
  /\ runs' = [runs EXCEPT ![c] = @ + 1]
  /\ \E i \in {caller[c], Nobody} : actedAs' = [actedAs EXCEPT ![c] = @ \cup {i}]
  /\ UNCHANGED <<status, caller, limit>>

End(c) ==
  /\ status[c] = "active"
  /\ \/ status' = [status EXCEPT ![c] = "failed"]
     \/ runs[c] > 0 /\ status' = [status EXCEPT ![c] = "answered"]
  /\ UNCHANGED <<caller, limit, runs, actedAs>>

PNext == \E c \in Calls : Accept(c) \/ RunOnce(c) \/ End(c)

PSpec == PInit /\ [][PNext]_promiseVars

=============================================================================
