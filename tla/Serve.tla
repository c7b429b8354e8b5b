------------------------------- MODULE Serve -------------------------------
(***************************************************************************)
(* What the agent serves: the registry of operations and the card made of  *)
(* it (internal/toolbridge, card.go), the check of both against the MCP    *)
(* server at boot (wire.go), and the tasks of the executor (executor.go).  *)
(*                                                                         *)
(* The table of tools is the agent's own; the server's is compared with it *)
(* when the agent starts, before it listens, and not again.  A task        *)
(* dispatches one request into the registry.  Tasks run at the same time,  *)
(* may be canceled or left alone by their callers, and share one cache of  *)
(* tool descriptions.                                                      *)
(***************************************************************************)
EXTENDS Naturals

CONSTANTS
  Tasks,      \* A2A tasks, one goroutine each
  Proxied,    \* the tools of remoteOps
  Unknown,    \* tools a server may serve and remoteOps does not have
  Skill,      \* the skill of each tool of the agent
  Names,      \* bearers and conversation ids
  None,       \* the empty string, the nil map, the free lock
  Requests,   \* the messages that may start each task, subsets of Request
  MaxEdition, \* bound: deployments of the MCP server
  MaxStops    \* bound: times the process stops

Own == {"list_tools", "estimate_clearing_price"}
Tools == Proxied \cup Own \cup {"ask"}
Skills == {Skill[x] : x \in Tools}

\* A message: none at all, no text, text that is no envelope, an envelope.
Request ==
  [form : {"nil", "blank", "text", "envelope"},
   skill : Skills \cup {None}, tool : Tools \cup Unknown \cup {None}, query : BOOLEAN,
   bearer : Names \cup {None}, header : Names \cup {None}, context : Names \cup {None}]

ASSUME ToolsAssumption ==
  /\ Proxied \cap (Own \cup {"ask"}) = {} /\ Unknown \cap Tools = {}
  /\ \A x \in Tools : Skill[x] # None
ASSUME RequestsAssumption == Requests \in [Tasks -> SUBSET Request]
ASSUME NoneAssumption == None \notin Tasks \cup Names \cup Nat \cup Tools \cup Unknown
ASSUME BoundsAssumption == MaxEdition \in Nat \ {0} /\ MaxStops \in Nat

VARIABLES
  serves, edition,        \* the MCP server: its tools, the edition of their prose
  proc, configured,       \* the agent: how far it is; has it a model key
  read,                   \* the edition its CheckCatalog read (0: none)
  stops,                  \* how often it stopped
  ops, card,              \* Registry.ops; the tools on the card
  info, infoMu,           \* Registry.toolInfo (0: an empty one) and its lock
  pc, req,                \* a task: where it is, its request
  listing, failed,        \* list_tools: the edition of the prose; own fetch failed
  answered, reader,       \* tasks completed; who reads a task's events
  calls                   \* operations begun, and as whom

serverVars == <<serves, edition>>
bootVars == <<proc, configured, read, stops, ops, card>>
infoVars == <<info, infoMu>>
taskVars == <<pc, req, listing, failed, answered, reader, calls>>
vars == <<serverVars, bootVars, infoVars, taskVars>>

NoRequest ==
  [form |-> "nil", skill |-> None, tool |-> None, query |-> FALSE,
   bearer |-> None, header |-> None, context |-> None]

Init ==
  /\ serves \in SUBSET (Proxied \cup Unknown) /\ edition = 1
  /\ proc = "down" /\ configured \in BOOLEAN /\ read = 0 /\ stops = 0
  /\ ops = {} /\ card = {}
  /\ info = None /\ infoMu = None
  /\ pc = [t \in Tasks |-> "idle"]
  /\ req = [t \in Tasks |-> NoRequest]
  /\ listing = [t \in Tasks |-> None]
  /\ failed = {}
  /\ answered = {}
  /\ reader = [t \in Tasks |-> "waits"]
  /\ calls = {}

(***************************************************************************)
(* The MCP server.                                                         *)
(***************************************************************************)

\* A new edition: other tools, or other prose.
Redeploy ==
  /\ edition < MaxEdition
  /\ edition' = edition + 1
  /\ serves' \in SUBSET (Proxied \cup Unknown)
  /\ UNCHANGED <<bootVars, infoVars, taskVars>>

(***************************************************************************)
(* Boot.                                                                   *)
(***************************************************************************)

\* NewRemote, and RegisterAssistant where a model is configured.
Registered == Proxied \cup Own \cup IF configured THEN {"ask"} ELSE {}

\* Variant: a list of the agent's own tools, without the assistant's.
isProxied_ByHand(x) == x \notin Own

isProxied(x) == x \in Proxied

\* Variant: only tools that the agent does not know are looked for.
DiffOK_ExtraOnly(local) == serves \subseteq local

\* DiffCatalog: nothing missing, nothing extra.
DiffOK(local) == local \subseteq serves /\ serves \subseteq local

\* Variant: every skill that has a description is on the card.
CardOf_AllSkills(registered) == Tools

\* BuildAgentCardFor: a skill is on the card with the tools registered under
\* it, and one without any is left off.
CardOf(registered) ==
  UNION {{x \in registered : Skill[x] = s} : s \in {Skill[x] : x \in registered}}

\* wire.Build: the process starts, and makes its registry.
Start ==
  /\ proc \in {"down", "refused"}
  /\ proc' = "reading" /\ ops' = Registered
  /\ UNCHANGED <<serverVars, configured, read, stops, card, infoVars, taskVars>>

\* CheckCatalog: the server lists the tools that it has now, on one session and
\* so in one edition; the process goes on, or ends with what differs.
CheckCatalog ==
  /\ proc = "reading"
  /\ LET same == DiffOK({x \in ops : isProxied(x)})
     IN  \/ same /\ proc' = "checked" /\ read' = edition /\ UNCHANGED ops
         \/ ~same /\ proc' = "refused" /\ ops' = {} /\ UNCHANGED read
  /\ UNCHANGED <<serverVars, configured, stops, card, infoVars, taskVars>>

\* StartFullFor: the card is made, and serve listens.
ComeUp ==
  /\ proc = "checked"
  /\ proc' = "up" /\ card' = CardOf(ops)
  /\ UNCHANGED <<serverVars, configured, read, stops, ops, infoVars, taskVars>>

\* The catalog cannot be read, or the port cannot be had: the process ends.
BootFails ==
  /\ proc \in {"reading", "checked"}
  /\ proc' = "down" /\ ops' = {} /\ read' = 0
  /\ UNCHANGED <<serverVars, configured, stops, card, infoVars, taskVars>>

Ended(t) == pc[t] \in {"ended", "lost"}

\* The process stops, with all that it had in memory.
Stop ==
  /\ proc = "up" /\ stops < MaxStops
  /\ proc' = "down" /\ stops' = stops + 1
  /\ ops' = {} /\ card' = {} /\ read' = 0 /\ info' = None /\ infoMu' = None
  /\ pc' = [t \in Tasks |-> IF pc[t] = "idle" \/ Ended(t) THEN pc[t] ELSE "lost"]
  /\ UNCHANGED <<serverVars, configured, req, listing, failed, answered, reader, calls>>

(***************************************************************************)
(* Execute.                                                                *)
(***************************************************************************)
Goto(t, label) == pc' = [pc EXCEPT ![t] = label]
Gone(t) == reader[t] = "gone"

\* yield: an event for a reader that went away ends the task.
Publish(t, next) == Goto(t, IF Gone(t) THEN "ended" ELSE next)

\* A message arrives, for a new task or for one that is stored already; a task
\* without one ends at once, with an error.
Receive(t) ==
  /\ pc[t] = "idle" /\ proc = "up"
  /\ \E r \in Requests[t] :
       /\ req' = [req EXCEPT ![t] = r]
       /\ \/ r.form = "nil" /\ Goto(t, "ended")
          \/ r.form # "nil" /\ \E label \in {"submit", "work"} : Goto(t, label)
  /\ UNCHANGED <<serverVars, bootVars, infoVars, listing, failed, answered, reader, calls>>

Announce(t) ==
  /\ \/ pc[t] = "submit" /\ Publish(t, "work")
     \/ pc[t] = "work" /\ Publish(t, "handle")
  /\ UNCHANGED <<serverVars, bootVars, infoVars, req, listing, failed, answered, reader, calls>>

\* Variant: what names no operation is a question, too.
IsQuestion_Fallback(t) == req[t].form = "text" \/ req[t].tool \notin ops

\* asAssistantQuestion is for what is no envelope, and is not blank.
IsQuestion(t) == req[t].form = "text"

\* The operation a request is for, as an envelope or as a question.
Operation(t) ==
  IF IsQuestion(t) /\ "ask" \in ops THEN "ask"
  ELSE IF req[t].form = "envelope" THEN req[t].tool ELSE None

\* Variant: the skill is not compared.
Dispatches_AnySkill(t) == Operation(t) \in ops /\ ~req[t].query

\* handle: the request has a skill, is not of the old form, names a tool that
\* is registered, and under that skill.  A question names its own.
Dispatches(t) ==
  /\ Operation(t) \in ops
  /\ ~IsQuestion(t) => ~req[t].query /\ req[t].skill = Skill[Operation(t)]

\* Variant: the envelope wins over the header.
Attach_EnvelopeFirst(t) ==
  [bearer |-> IF req[t].bearer # None THEN req[t].bearer ELSE req[t].header,
   context |-> req[t].context]

\* The caller as the operation will know it; the Authorization header wins.
\* A question has no envelope to carry a bearer in.
Attach(t) ==
  [bearer |-> IF req[t].header # None THEN req[t].header
              ELSE IF IsQuestion(t) THEN None ELSE req[t].bearer,
   context |-> req[t].context]

Handle(t) ==
  /\ pc[t] = "handle"
  /\ \/ ~Dispatches(t) /\ Goto(t, "answer") /\ UNCHANGED calls
     \/ /\ Dispatches(t)
        /\ Goto(t, IF Operation(t) = "list_tools" THEN "list" ELSE "call")
        /\ calls' = calls \cup {[task |-> t, op |-> Operation(t), as |-> Attach(t)]}
  /\ UNCHANGED <<serverVars, bootVars, infoVars, req, listing, failed, answered, reader>>

\* A proxied tool, the estimate or the assistant returns: with a result, or
\* with an error, of which a timeout is one.
Return(t) ==
  /\ pc[t] = "call"
  /\ Goto(t, "answer")
  /\ UNCHANGED <<serverVars, bootVars, infoVars, req, listing, failed, answered, reader, calls>>

\* Any outcome completes the task, with the reason as its answer.
Answer(t) ==
  /\ pc[t] = "answer"
  /\ Publish(t, "ended")
  /\ answered' = IF Gone(t) THEN answered ELSE answered \cup {t}
  /\ UNCHANGED <<serverVars, bootVars, infoVars, req, listing, failed, reader, calls>>

(***************************************************************************)
(* list_tools: the registry's own list, with the server's prose.           *)
(***************************************************************************)
List(t, prose) == listing' = [listing EXCEPT ![t] = prose] /\ Goto(t, "answer")

\* infoMu is held across the fetch, and what was fetched is kept.
LockInfo(t) ==
  /\ pc[t] = "list" /\ infoMu = None
  /\ IF info # None THEN List(t, info) /\ UNCHANGED infoMu
     ELSE infoMu' = t /\ Goto(t, "fetch") /\ UNCHANGED listing
  /\ UNCHANGED <<serverVars, bootVars, info, req, failed, answered, reader, calls>>

FetchOk(t) ==
  /\ pc[t] = "fetch"
  /\ info' = edition /\ infoMu' = None
  /\ List(t, edition)
  /\ UNCHANGED <<serverVars, bootVars, req, failed, answered, reader, calls>>

\* Variant: an empty map is kept when the fetch fails.
Kept_Empty == info' = 0

\* A failure is not kept.
Kept == info' = info

\* Variant: only a fetch that succeeds unlocks.
UnlockInfo_OnSuccess == infoMu' = infoMu

UnlockInfo == infoMu' = None

FetchFail(t) ==
  /\ pc[t] = "fetch"
  /\ Kept /\ UnlockInfo
  /\ failed' = failed \cup {t}
  /\ List(t, 0)
  /\ UNCHANGED <<serverVars, bootVars, req, answered, reader, calls>>

(***************************************************************************)
(* What goes on beside a task.                                             *)
(***************************************************************************)

\* Cancel says that the task is canceled, and does nothing else.
Cancel(t) ==
  /\ pc[t] # "idle" /\ ~Ended(t) /\ reader[t] = "waits"
  /\ reader' = [reader EXCEPT ![t] = "canceled"]
  /\ UNCHANGED <<serverVars, bootVars, infoVars, pc, req, listing, failed, answered, calls>>

\* The reader of a task's events goes away: the caller, or the A2A library
\* once it has seen a final one.
Leave(t) ==
  /\ pc[t] # "idle" /\ ~Ended(t) /\ ~Gone(t)
  /\ reader' = [reader EXCEPT ![t] = "gone"]
  /\ UNCHANGED <<serverVars, bootVars, infoVars, pc, req, listing, failed, answered, calls>>

(***************************************************************************)
(* The specification.                                                      *)
(***************************************************************************)
Away(t) == pc[t] \in {"call", "fetch"}

Prompt(t) == Announce(t) \/ Handle(t) \/ Answer(t) \/ LockInfo(t)

Progress(t) == Prompt(t) \/ Return(t) \/ FetchOk(t) \/ FetchFail(t)

\* A server that is up waits for what may come.
Idle == proc = "up" /\ UNCHANGED vars

Next ==
  \/ Redeploy \/ Start \/ CheckCatalog \/ ComeUp \/ BootFails \/ Stop \/ Idle
  \/ \E t \in Tasks : Receive(t) \/ Progress(t) \/ Cancel(t) \/ Leave(t)

Spec == Init /\ [][Next]_vars

\* Docker restarts the process until it stays up; goroutines run, and the lock
\* does not starve a waiter.  An operation, a fetch and the reading of the
\* catalog end when the server, and the pool, let them: they are not fair.
FairSpec ==
  Spec /\ WF_vars(Start) /\ WF_vars(ComeUp \/ (BootFails /\ proc = "checked"))
       /\ \A t \in Tasks : SF_vars(Prompt(t))

(***************************************************************************)
(* What holds.                                                             *)
(***************************************************************************)
Editions == 1..MaxEdition
PCs == {"idle", "submit", "work", "handle", "call", "list", "fetch", "answer", "ended", "lost"}
Identities == [bearer : Names \cup {None}, context : Names \cup {None}]

\* Every variable stays in its type.
TypeOK ==
  /\ serves \subseteq Proxied \cup Unknown /\ edition \in Editions
  /\ proc \in {"down", "refused", "reading", "checked", "up"} /\ configured \in BOOLEAN
  /\ read \in 0..MaxEdition /\ stops \in 0..MaxStops
  /\ ops \subseteq Tools /\ card \subseteq Tools
  /\ info \in Editions \cup {None} /\ infoMu \in Tasks \cup {None}
  /\ pc \in [Tasks -> PCs] /\ req \in [Tasks -> Request]
  /\ listing \in [Tasks -> {None, 0} \cup Editions] /\ failed \subseteq Tasks
  /\ answered \subseteq Tasks /\ reader \in [Tasks -> {"waits", "canceled", "gone"}]
  /\ calls \subseteq [task : Tasks, op : Tools, as : Identities]

\* CheckCatalog: "better to refuse to start than to serve a card that lies",
\* and card.go: "a card can never advertise an operation the executor would not
\* dispatch".  As long as the agent is up, every tool on its card is registered;
\* and as long as the server is the one that CheckCatalog read, which it may not
\* be any more when the card is made, the tool is the agent's own or is served.
NoLyingCard ==
  proc = "up" => /\ card \subseteq ops
                 /\ edition = read => card \cap Proxied \subseteq serves

\* A server that serves just the tools of remoteOps is enough: the agent comes
\* up, with a model configured or without, unless the server changes first; on
\* the assumption that the server lets each reading of its catalog end, and that
\* from some time on it can be read, and the port can be had.
StartsWhenServed ==
  []<>(proc # "reading") /\ <>[][~BootFails]_vars
    => (serves = Proxied ~> proc = "up" \/ serves # Proxied)

\* What a task's caller asked for, and who the caller is: a tool under its
\* skill, or a question; the bearer of the header, or else of the envelope.
Wanted(r, op) ==
  \/ r.form = "envelope" /\ r.tool = op /\ r.skill = Skill[op] /\ ~r.query
  \/ r.form = "text" /\ op = "ask" /\ configured
Sender(r) == IF r.header # None THEN r.header
             ELSE IF r.form = "envelope" THEN r.bearer ELSE None

\* Executor: "a caller that names its tool never reaches a model": an
\* operation runs only for a task that asked for it, as that task's sender.
OnlyAsAsked ==
  \A c \in calls : /\ Wanted(req[c.task], c.op)
                   /\ c.as = [bearer |-> Sender(req[c.task]), context |-> req[c.task].context]

\* useRemoteToolInfo: "a failure is not cached": a list without the server's
\* prose is given only to the task whose own fetch failed.
OwnFailureOnly == \A t \in Tasks : listing[t] = 0 => t \in failed

\* What TasksAnswered rests on in the state: no task is stuck.  One that waits
\* for the lock of the descriptions waits for a task that fetches them, and
\* not for one that is gone; and no other task has the lock while one fetches.
NeverStuck ==
  /\ infoMu # None => proc = "up" /\ pc[infoMu] = "fetch"
  /\ \A t \in Tasks : pc[t] = "fetch" => infoMu = t

\* Execute: every task that is asked something is answered, refused or
\* canceled ones too, unless its reader goes away or the process stops; on the
\* assumption, which nothing in the code gives, that every operation and every
\* fetch of the descriptions ends some time, if only with an error.
TasksAnswered ==
  (\A t \in Tasks : []<>~Away(t))
    => \A t \in Tasks : pc[t] = "submit" \/ pc[t] = "work"
                           ~> t \in answered \/ Gone(t) \/ pc[t] = "lost"

=============================================================================
