------------------------------ MODULE Planner ------------------------------
(***************************************************************************)
(* The planner of internal/assistant: Ask, ensureCatalog, runTools and     *)
(* dispatch, with the transcript that a provider's session keeps.          *)
(*                                                                         *)
(* Questions are answered at the same time.  Each waits for the tool       *)
(* catalog, which is read from the MCP server by whichever question comes  *)
(* first, and then takes turns with the model: send what is new, read the  *)
(* reply, run the tools the reply asks for all at once, and go round until *)
(* the model answers or a bound is met.                                    *)
(***************************************************************************)
EXTENDS Naturals, Sequences

CONSTANTS
  Asks,           \* the questions, one goroutine each
  Served,         \* tools the MCP server may serve and the planner may use
  Withheld,       \* WithheldTools
  Nobody,         \* the free lock
  MaxIterations,  \* Config.MaxIterations
  MaxToolCalls,   \* Config.MaxToolCalls
  MaxFanout       \* bound: tools one reply asks for

ASSUME ToolsAssumption == Served \cap Withheld = {}
ASSUME BoundsAssumption ==
  MaxIterations \in Nat \ {0} /\ MaxToolCalls \in Nat \ {0} /\ MaxFanout \in Nat
ASSUME NobodyAssumption == Nobody \notin Asks

VARIABLES
  provider,            \* the API the model is reached by, one for all questions
  catalog, catalogMu,  \* Assistant: the tools read ({}: none yet), its lock
  pc,                  \* where a question is
  iter, records,       \* Ask: turns done, ans.ToolCalls
  asked, results,      \* runTools: the calls and their results (0: running)
  transcript,          \* the provider's session
  expired,             \* questions whose deadline has passed
  why,                 \* why a question ended without an answer
  dispatched           \* the calls that reached the MCP server

askVars == <<pc, iter, records, asked, results, transcript, why>>
vars == <<provider, catalog, catalogMu, askVars, expired, dispatched>>

Tools == Served \cup Withheld
Replies == UNION {[1..n -> Tools] : n \in 0..MaxFanout}

\* One call of one turn, as the model and the records know it.
CallOf(a, i) == [turn |-> iter[a], index |-> i, tool |-> asked[a][i]]

System == [by |-> "system"]
User(text) == [by |-> "user", text |-> text]
Result(turn, calls) == [by |-> "tool", turn |-> turn, answers |-> calls]
Model(turn, n) == [by |-> "model", turn |-> turn, calls |-> n]

Init ==
  /\ provider \in {"openai", "anthropic"}
  /\ catalog = {}
  /\ catalogMu = Nobody
  /\ pc = [a \in Asks |-> "idle"]
  /\ iter = [a \in Asks |-> 0]
  /\ records = [a \in Asks |-> <<>>]
  /\ asked = [a \in Asks |-> <<>>]
  /\ results = [a \in Asks |-> <<>>]
  /\ transcript = [a \in Asks |-> <<>>]
  /\ why = [a \in Asks |-> "none"]
  /\ expired = {}
  /\ dispatched = {}

Goto(a, label) == pc' = [pc EXCEPT ![a] = label]
Fail(a, reason) == Goto(a, "failed") /\ why' = [why EXCEPT ![a] = reason]

\* A call that fails after the deadline fails because of it.
Reason(a, reason) == IF a \in expired THEN "deadline" ELSE reason

(***************************************************************************)
(* The catalog.                                                            *)
(***************************************************************************)
Begin(a) ==
  /\ pc[a] = "idle"
  /\ \/ Goto(a, "lock") /\ UNCHANGED why
     \/ Fail(a, "blank")
  /\ UNCHANGED <<provider, catalog, catalogMu, iter, records, asked, results, transcript,
                 expired, dispatched>>

\* Variant: the lock is taken, and the catalog not looked at again.
Lock_NoCheck(a) ==
  /\ pc[a] = "lock" /\ catalogMu = Nobody
  /\ Goto(a, "load") /\ catalogMu' = a
  /\ UNCHANGED <<provider, catalog, iter, records, asked, results, transcript, why, expired,
                 dispatched>>

Lock(a) ==
  /\ pc[a] = "lock" /\ catalogMu = Nobody
  /\ IF catalog # {} THEN Goto(a, "plan") /\ UNCHANGED catalogMu
                     ELSE Goto(a, "load") /\ catalogMu' = a
  /\ UNCHANGED <<provider, catalog, iter, records, asked, results, transcript, why, expired,
                 dispatched>>

\* Variant: whatever the server serves may be used.
Usable_All(tools) == tools

\* BuildCatalog leaves out what is withheld.
Usable(tools) == tools \ Withheld

\* Variant: only a catalog that is read gives the lock back.
Unlock_OnSuccess(a) == catalogMu' = IF pc'[a] = "plan" THEN Nobody ELSE catalogMu

Unlock(a) == catalogMu' = Nobody

\* The server's catalog is read with the lock held; a failure is not kept.
Load(a) ==
  /\ pc[a] = "load"
  /\ \/ /\ a \notin expired
        /\ \E tools \in SUBSET Tools : Usable(tools) # {} /\ catalog' = Usable(tools)
        /\ Goto(a, "plan") /\ UNCHANGED why
     \/ Fail(a, Reason(a, "catalog")) /\ UNCHANGED catalog
  /\ Unlock(a)
  /\ UNCHANGED <<provider, iter, records, asked, results, transcript, expired, dispatched>>

(***************************************************************************)
(* Turns with the model.                                                   *)
(***************************************************************************)

\* Variant: one turn too many.
Last_Late(a) == iter[a] >= MaxIterations \/ Len(records[a]) >= MaxToolCalls

\* Variant: only calls are counted.
Last_CallsOnly(a) == Len(records[a]) >= MaxToolCalls

\* Variant: only turns are counted.
Last_TurnsOnly(a) == iter[a] >= MaxIterations - 1

Last(a) == iter[a] >= MaxIterations - 1 \/ Len(records[a]) >= MaxToolCalls

\* What Send appends before it asks: the text, then the results.  Chat
\* completions have the system prompt as their first message.
Opening(a) == IF provider = "openai" /\ iter[a] = 0 THEN <<System>> ELSE <<>>
Text(a) == IF Last(a) THEN <<User("budget")>>
           ELSE IF iter[a] = 0 THEN <<User("question")>> ELSE <<>>

\* One message for each result, or one for all of a turn.
OpenAIResults(turn, calls) == [p \in DOMAIN calls |-> Result(turn, <<calls[p]>>)]
AnthropicResults(turn, calls) == IF calls = <<>> THEN <<>> ELSE <<Result(turn, calls)>>
ResultsOf(a) ==
  IF provider = "openai" THEN OpenAIResults(iter[a] - 1, results[a])
                         ELSE AnthropicResults(iter[a] - 1, results[a])

Send(a) ==
  /\ pc[a] = "plan"
  /\ transcript' = [transcript EXCEPT ![a] = @ \o Opening(a) \o Text(a) \o ResultsOf(a)]
  /\ Goto(a, "model")
  /\ UNCHANGED <<provider, catalog, catalogMu, iter, records, asked, results, why, expired,
                 dispatched>>

Deny(a) ==
  /\ \/ Fail(a, Reason(a, "provider"))
     \/ a \notin expired /\ Fail(a, "refusal")
  /\ UNCHANGED <<asked, results, transcript>>

\* Any stop but tool_use ends the loop, and so does any stop on the last turn.
Answer(a) ==
  /\ a \notin expired
  /\ \/ Goto(a, "answered") /\ UNCHANGED why
     \/ Fail(a, "silent")
  /\ UNCHANGED <<asked, results, transcript>>

UseTools(a) ==
  /\ a \notin expired /\ ~Last(a)
  /\ \E calls \in Replies :
       /\ asked' = [asked EXCEPT ![a] = calls]
       /\ results' = [results EXCEPT ![a] = [p \in DOMAIN calls |-> 0]]
       /\ transcript' = [transcript EXCEPT ![a] = Append(@, Model(iter[a], Len(calls)))]
  /\ Goto(a, "tools") /\ UNCHANGED why

Reply(a) ==
  /\ pc[a] = "model"
  /\ Deny(a) \/ Answer(a) \/ UseTools(a)
  /\ UNCHANGED <<provider, catalog, catalogMu, iter, records, expired, dispatched>>

(***************************************************************************)
(* runTools: one goroutine per call, and a wait for all of them.           *)
(***************************************************************************)
Allows(tool) == tool \in catalog

\* Variant: a result goes to the first free place.
Place_Append(a, i) ==
  CHOOSE p \in DOMAIN results[a] :
    results[a][p] = 0 /\ \A q \in DOMAIN results[a] : results[a][q] = 0 => p <= q

\* Where the result of the i-th call goes.
Place(a, i) == i

\* A tool that fails, or that may not be called, is a result like any other.
RunTool(a, i) ==
  /\ pc[a] = "tools" /\ \A p \in DOMAIN results[a] : results[a][p] # i
  /\ results' = [results EXCEPT ![a][Place(a, i)] = i]
  /\ dispatched' = IF Allows(asked[a][i])
                     THEN dispatched \cup {[ask |-> a, call |-> CallOf(a, i)]}
                     ELSE dispatched
  /\ UNCHANGED <<provider, catalog, catalogMu, pc, iter, records, asked, transcript, why, expired>>

\* Variant: the records of this turn replace those of the last.
Recorded_Replaced(a) == [i \in DOMAIN asked[a] |-> CallOf(a, i)]

Recorded(a) == records[a] \o [i \in DOMAIN asked[a] |-> CallOf(a, i)]

\* Variant: a turn in which no tool was called is not counted.
Join_OnlyCalls(a) ==
  /\ pc[a] = "tools" /\ \A p \in DOMAIN results[a] : results[a][p] # 0
  /\ records' = [records EXCEPT ![a] = Recorded(a)]
  /\ iter' = IF asked[a] = <<>> THEN iter ELSE [iter EXCEPT ![a] = @ + 1]
  /\ Goto(a, "plan")
  /\ UNCHANGED <<provider, catalog, catalogMu, asked, results, transcript, why, expired, dispatched>>

Join(a) ==
  /\ pc[a] = "tools" /\ \A p \in DOMAIN results[a] : results[a][p] # 0
  /\ records' = [records EXCEPT ![a] = Recorded(a)]
  /\ iter' = [iter EXCEPT ![a] = @ + 1]
  /\ Goto(a, "plan")
  /\ UNCHANGED <<provider, catalog, catalogMu, asked, results, transcript, why, expired, dispatched>>

Over(a) == pc[a] \in {"answered", "failed"}

\* The wall clock for the whole request.
Expire(a) ==
  /\ a \notin expired /\ pc[a] # "idle" /\ ~Over(a)
  /\ expired' = expired \cup {a}
  /\ UNCHANGED <<provider, catalog, catalogMu, askVars, dispatched>>

Stopped == (\A a \in Asks : Over(a)) /\ UNCHANGED vars

Progress(a) ==
  \/ Lock(a) \/ Load(a) \/ Send(a) \/ Reply(a) \/ Join(a)
  \/ \E i \in DOMAIN asked[a] : RunTool(a, i)

Next == Stopped \/ \E a \in Asks : Begin(a) \/ Progress(a) \/ Expire(a)

Spec == Init /\ [][Next]_vars

\* A question waits for the MCP server, through the pool of sessions: its
\* deadline ends neither the wait for the pool's locks nor a session's close.
Away(a) ==
  \/ pc[a] = "load"
  \/ pc[a] = "tools" /\ \E p \in DOMAIN results[a] : results[a][p] = 0

\* Goroutines run, the lock does not starve a waiter, the deadline comes, and
\* ends a request to the model, which may never reply.  What a question is away
\* for is not fair.
Fairness ==
  \A a \in Asks :
    /\ SF_vars(Progress(a) /\ ~Away(a) /\ (pc[a] = "model" => a \in expired))
    /\ WF_vars(Expire(a))

FairSpec == Spec /\ Fairness

(***************************************************************************)
(* What holds.                                                             *)
(***************************************************************************)
Reasons == {"none", "blank", "catalog", "provider", "refusal", "silent", "deadline"}
Records == [turn : Nat, index : Nat, tool : Tools]
Users == [by : {"user"}, text : {"question", "budget"}]
Messages == {System} \cup Users
                  \cup [by : {"tool"}, turn : Nat, answers : Seq(Nat)]
                  \cup [by : {"model"}, turn : Nat, calls : Nat]

\* Every variable stays in its type.
TypeOK ==
  /\ provider \in {"openai", "anthropic"}
  /\ catalog \subseteq Tools /\ catalogMu \in Asks \cup {Nobody}
  /\ pc \in [Asks -> {"idle", "lock", "load", "plan", "model", "tools", "answered", "failed"}]
  /\ iter \in [Asks -> 0..MaxIterations] /\ records \in [Asks -> Seq(Records)]
  /\ asked \in [Asks -> Seq(Tools)] /\ results \in [Asks -> Seq(Nat)]
  /\ transcript \in [Asks -> Seq(Messages)]
  /\ why \in [Asks -> Reasons]
  /\ expired \subseteq Asks /\ dispatched \subseteq [ask : Asks, call : Records]

\* dispatch: "the withheld set is a boundary, so it has to hold here too":
\* whatever the server serves and whatever the model names, no call of a
\* withheld tool leaves the agent.
Boundary == \A d \in dispatched : d.call.tool \notin Withheld

\* The message at p is the model's, and the answers to its calls come after q,
\* which is p or the notice that follows it: with OpenAI a message for each, with
\* Anthropic one for all, or none if there were no calls.
InOrder(api, T, q, turn, n) ==
  \/ api = "openai" /\ \A i \in 1..n : T[q + i] = Result(turn, <<i>>)
  \/ api = "anthropic" /\ (n > 0 => T[q + 1] = Result(turn, [i \in 1..n |-> i]))
End(api, T, p, q) == q + IF api = "openai" \/ T[p].calls = 0 THEN T[p].calls ELSE 1
SettledAt(api, T, p, q) ==
  /\ End(api, T, p, q) <= Len(T)
  /\ q = p + 1 => q <= Len(T) /\ T[q] = User("budget")
  /\ InOrder(api, T, q, T[p].turn, T[p].calls)
  /\ End(api, T, p, q) < Len(T) => T[End(api, T, p, q) + 1].by # "tool"
Settled(api, T) ==
  \A p \in DOMAIN T : T[p].by = "model" => \E q \in {p, p + 1} : SettledAt(api, T, p, q)

\* runTools "returns their results in the order the model asked for them", and
\* "they go back in ONE turn": when the model is asked again, each of its calls
\* has exactly one result, and they come in order, after the calls and before
\* its next words, however the goroutines finished; with Anthropic in one
\* message, though a reply may ask for no tool at all.
AnswersInOrder == \A a \in Asks : pc[a] = "model" => Settled(provider, transcript[a])

\* The invariant behind it: from the reply to the next turn, what came before
\* the reply is settled; each goroutine has put its result in its own place.
Pending(a) ==
  LET T == transcript[a]
      turn == IF pc[a] = "tools" THEN iter[a] ELSE iter[a] - 1
  IN  /\ T # <<>> /\ T[Len(T)] = Model(turn, Len(results[a]))
      /\ Settled(provider, SubSeq(T, 1, Len(T) - 1))
InTurn(a) ==
  /\ pc[a] \in {"idle", "lock", "load"} => iter[a] = 0
  /\ pc[a] \in {"idle", "lock", "load", "plan"} /\ iter[a] = 0
       => transcript[a] = <<>> /\ results[a] = <<>>
  /\ pc[a] = "plan" /\ iter[a] # 0
       => Pending(a) /\ \A p \in DOMAIN results[a] : results[a][p] = p
  /\ pc[a] = "model" => Settled(provider, transcript[a])
  /\ pc[a] = "tools" => /\ Pending(a) /\ Len(results[a]) = Len(asked[a])
                        /\ \A p \in DOMAIN results[a] : results[a][p] \in {0, p}
Ordered == \A a \in Asks : InTurn(a)

\* Config.MaxIterations "bounds trips through the model loop".
TurnsBounded == \A a \in Asks : iter[a] < MaxIterations

\* How far the tool calls of one question can go past MaxToolCalls: the reply
\* that crosses the bound is carried out in full.
OvershootBounded == \A a \in Asks : Len(records[a]) < MaxToolCalls + MaxFanout

\* doc.go: "A planning loop that will not stop is a bill", and MaxIterations
\* "bounds trips through the model loop": whatever the model replies, each step
\* of a question leaves it fewer, of three a turn for MaxIterations turns and
\* three before the first; and they never run out before the question ends.
StepsLeft == [idle |-> 6, lock |-> 5, load |-> 4, plan |-> 3, model |-> 2, tools |-> 1,
              answered |-> 0, failed |-> 0]
Left(a) == StepsLeft[pc[a]] + 3 * (MaxIterations - 1 - iter[a])
AsksGetOn == [][\A a \in Asks : pc'[a] # pc[a] => Left(a)' \in 0..(Left(a) - 1)]_vars

\* The inductive invariant behind the bounds and the boundary.  Tools run in a
\* turn that is not the last, and there are no results before the first turn.
Counted ==
  \A a \in Asks :
    /\ pc[a] = "tools" => ~Last(a) /\ Len(asked[a]) <= MaxFanout
    /\ pc[a] \in {"idle", "lock", "load", "plan"} /\ iter[a] = 0 => results[a] = <<>>
Confined == catalog \cap Withheld = {}
Bounded ==
  TypeOK /\ Counted /\ Confined /\ TurnsBounded /\ OvershootBounded /\ Boundary

\* ToolCall: "an answer can be audited back to the data it came from": every
\* call that went to the MCP server for an answer is among its records.
Audited ==
  \A a \in Asks, d \in dispatched : pc[a] = "answered" /\ d.ask = a =>
    \E p \in DOMAIN records[a] : records[a][p] = d.call

\* The invariant behind it: a call that went out and is not among the records
\* belongs to the turn whose tools still run.
Accounted ==
  \A d \in dispatched : LET a == d.ask IN
    \/ \E p \in DOMAIN records[a] : records[a][p] = d.call
    \/ pc[a] = "tools" /\ \E i \in DOMAIN asked[a] : d.call = CallOf(a, i)

\* ensureCatalog "loads the tool catalog once and caches it", however many
\* questions wait for it.
LoadedOnce ==
  [][catalog # {} => UNCHANGED catalog /\ \A a \in Asks : pc'[a] # "load"]_vars

\* The invariant behind it: who reads the catalog holds the lock, and nobody
\* has read it before.
Reading == \A a \in Asks : pc[a] = "load" => catalogMu = a /\ catalog = {}

\* What AsksEnd rests on in the state, beside AsksGetOn: no question is stuck.
\* One that waits for the lock waits for one that reads the catalog, which waits
\* for no other question; and as long as a place of runTools is empty, the tool
\* whose place it is still runs.  Everywhere else a step is not guarded.
NeverStuck ==
  \A a \in Asks :
    /\ pc[a] = "lock" /\ catalogMu # Nobody => pc[catalogMu] = "load"
    /\ pc[a] = "tools" => \A p \in DOMAIN results[a] :
         results[a][p] = 0 => /\ p \in DOMAIN asked[a]
                              /\ \A q \in DOMAIN results[a] : results[a][q] # p

\* Every question ends, with an answer or an error, though the model may never
\* reply, and though it may have waited for another question to read the
\* catalog; on the assumption, which nothing in the code gives, that every tool
\* call and every reading of the catalog ends some time, if only with an error.
AsksEnd == (\A a \in Asks : []<>~Away(a)) => \A a \in Asks : pc[a] # "idle" ~> Over(a)

(***************************************************************************)
(* What the comments say and the code does not do.                         *)
(***************************************************************************)

\* Input.Text: "Set on the first turn", so that results directly follow the
\* calls that they answer.
TextFirst ==
  \A a \in Asks : \A p, q \in DOMAIN transcript[a] :
    q < p /\ transcript[a][q].by = "model" => transcript[a][p].by # "user"

=============================================================================
