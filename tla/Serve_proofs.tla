---------------------------- MODULE Serve_proofs ----------------------------
(***************************************************************************)
(* Proofs about Serve, for any tasks and requests, any tools under any     *)
(* skills, and any number of deployments and restarts.                     *)
(***************************************************************************)
EXTENDS Serve, TLAPS

USE ToolsAssumption, RequestsAssumption, NoneAssumption, BoundsAssumption

(***************************************************************************)
(* Types.                                                                  *)
(***************************************************************************)
ServerTypes == serves \subseteq Proxied \cup Unknown /\ edition \in Editions
BootTypes ==
  /\ proc \in {"down", "refused", "reading", "checked", "up"} /\ configured \in BOOLEAN
  /\ read \in 0..MaxEdition /\ stops \in 0..MaxStops
  /\ ops \subseteq Tools /\ card \subseteq Tools
InfoTypes == info \in Editions \cup {None} /\ infoMu \in Tasks \cup {None}
TaskTypes ==
  /\ pc \in [Tasks -> PCs] /\ req \in [Tasks -> Request]
  /\ listing \in [Tasks -> {None, 0} \cup Editions] /\ failed \subseteq Tasks
  /\ answered \subseteq Tasks /\ reader \in [Tasks -> {"waits", "canceled", "gone"}]
CallTypes == calls \subseteq [task : Tasks, op : Tools, as : Identities]

\* TypeOK, by the variables that move together.
LEMMA TypeParts == TypeOK <=> ServerTypes /\ BootTypes /\ InfoTypes /\ TaskTypes /\ CallTypes
  BY DEF TypeOK, ServerTypes, BootTypes, InfoTypes, TaskTypes, CallTypes

\* What is registered are tools of the agent's, all the proxied ones among them.
LEMMA RegisteredTools == Registered \subseteq Tools /\ Proxied \subseteq Registered
  BY DEF Registered, Tools

\* What is on the card is what is registered.
LEMMA OnTheCard == CardOf(ops) \subseteq ops
  BY DEF CardOf

\* A step of a task moves that task to a place there is.
LEMMA GotoTyped ==
  ASSUME pc \in [Tasks -> PCs], NEW t \in Tasks, NEW label \in PCs, Goto(t, label)
  PROVE  pc' \in [Tasks -> PCs]
  BY DEF Goto

\* A blank identity or one of the names.
LEMMA AttachTyped ==
  ASSUME req \in [Tasks -> Request], NEW t \in Tasks
  PROVE  Attach(t) \in Identities
  <1>1. req[t] \in Request
    OBVIOUS
  <1>2. /\ req[t].bearer \in Names \cup {None}
        /\ req[t].header \in Names \cup {None}
        /\ req[t].context \in Names \cup {None}
    BY <1>1 DEF Request
  <1>3. QED
    BY <1>2 DEF Attach, Identities

\* Nothing has been asked for.
LEMMA TypedInit == Init => TypeOK
  <1> SUFFICES ASSUME Init PROVE TypeOK
    OBVIOUS
  <1>1. NoRequest \in Request
    BY DEF NoRequest, Request
  <1>2. QED
    BY <1>1 DEF Init, TypeOK, Editions, PCs

\* What a step leaves alone keeps its type.
LEMMA Untouched ==
  ASSUME TypeOK
  PROVE  /\ UNCHANGED serverVars => ServerTypes'
         /\ UNCHANGED bootVars => BootTypes'
         /\ UNCHANGED infoVars => InfoTypes'
         /\ UNCHANGED <<pc, req, listing, failed, answered, reader>> => TaskTypes'
         /\ UNCHANGED calls => CallTypes'
  <1>1. ServerTypes /\ BootTypes /\ InfoTypes /\ TaskTypes /\ CallTypes
    BY TypeParts
  <1>2. UNCHANGED serverVars => ServerTypes'
    BY <1>1 DEF ServerTypes, serverVars
  <1>3. UNCHANGED bootVars => BootTypes'
    BY <1>1 DEF BootTypes, bootVars
  <1>4. UNCHANGED infoVars => InfoTypes'
    BY <1>1 DEF InfoTypes, infoVars
  <1>5. UNCHANGED <<pc, req, listing, failed, answered, reader>> => TaskTypes'
    BY <1>1 DEF TaskTypes
  <1>6. UNCHANGED calls => CallTypes'
    BY <1>1 DEF CallTypes
  <1>7. QED
    BY <1>2, <1>3, <1>4, <1>5, <1>6

\* TypeOK after a step, by its parts.
LEMMA TypePartsNext ==
  ASSUME ServerTypes', BootTypes', InfoTypes', TaskTypes', CallTypes'
  PROVE  TypeOK'
  BY DEF TypeOK, ServerTypes, BootTypes, InfoTypes, TaskTypes, CallTypes

\* The steps of the process from its start until it listens, or refuses to.
BootStep == Start \/ CheckCatalog \/ ComeUp \/ BootFails

\* The steps of the server and of the process.
LEMMA ProcessTyped ==
  ASSUME TypeOK, Redeploy \/ BootStep \/ Stop \/ Idle
  PROVE  TypeOK'
  <1>0. ServerTypes /\ BootTypes /\ InfoTypes /\ TaskTypes /\ CallTypes
    BY TypeParts
  <1>1. CASE Redeploy
    <2>1. edition' \in Editions
      BY <1>0, <1>1 DEF Redeploy, ServerTypes, Editions
    <2>2. ServerTypes'
      BY <1>1, <2>1 DEF Redeploy, ServerTypes, Editions
    <2>3. QED
      BY <1>1, <2>2, Untouched, TypePartsNext DEF Redeploy, taskVars
  <1>2. CASE BootStep
    <2>1. read' \in {read, edition, 0} /\ card' \in {card, CardOf(ops)}
      BY <1>2 DEF BootStep, Start, CheckCatalog, ComeUp, BootFails
    <2>2. ops' \in {ops, Registered, {}} /\ UNCHANGED <<configured, stops>>
      BY <1>2 DEF BootStep, Start, CheckCatalog, ComeUp, BootFails
    <2>3. proc' \in {"down", "refused", "reading", "checked", "up"}
      BY <1>2 DEF BootStep, Start, CheckCatalog, ComeUp, BootFails
    <2>4. BootTypes'
      BY <1>0, <2>1, <2>2, <2>3, RegisteredTools, OnTheCard DEF BootTypes, ServerTypes, Editions
    <2>5. UNCHANGED serverVars /\ UNCHANGED infoVars /\ UNCHANGED taskVars
      BY <1>2 DEF BootStep, Start, CheckCatalog, ComeUp, BootFails
    <2>6. QED
      BY <2>4, <2>5, Untouched, TypePartsNext DEF taskVars
  <1>3. CASE Stop
    <2>1. stops' \in 0..MaxStops
      BY <1>0, <1>3 DEF Stop, BootTypes
    <2>2. BootTypes' /\ InfoTypes'
      BY <1>0, <1>3, <2>1 DEF Stop, BootTypes, InfoTypes
    <2>3. TaskTypes'
      BY <1>0, <1>3 DEF Stop, TaskTypes, PCs
    <2>4. QED
      BY <1>3, <2>2, <2>3, Untouched, TypePartsNext DEF Stop
  <1>4. CASE Idle
    BY <1>4, Untouched, TypePartsNext DEF Idle, vars, taskVars
  <1>5. QED
    BY <1>1, <1>2, <1>3, <1>4

\* The steps of a task that touch no cache.
LEMMA TaskTyped ==
  ASSUME TypeOK, NEW t \in Tasks,
         Receive(t) \/ Announce(t) \/ Handle(t) \/ Return(t) \/ Answer(t) \/ Cancel(t) \/ Leave(t)
  PROVE  TypeOK'
  <1>0. TaskTypes /\ BootTypes /\ CallTypes
    BY TypeParts
  <1>1. UNCHANGED serverVars /\ UNCHANGED bootVars /\ UNCHANGED infoVars
    BY DEF Receive, Announce, Handle, Return, Answer, Cancel, Leave
  <1>2. UNCHANGED <<listing, failed>>
    BY DEF Receive, Announce, Handle, Return, Answer, Cancel, Leave
  <1>3. pc' \in [Tasks -> PCs]
    <2>1. UNCHANGED pc \/ \E label \in PCs : Goto(t, label)
      BY DEF Receive, Announce, Handle, Return, Answer, Cancel, Leave, Publish, PCs
    <2>2. QED
      BY <1>0, <2>1, GotoTyped DEF TaskTypes
  <1>4. req' \in [Tasks -> Request]
    <2>1. CASE Receive(t)
      BY <1>0, <2>1 DEF Receive, TaskTypes
    <2>2. CASE ~Receive(t)
      BY <1>0, <2>2 DEF Announce, Handle, Return, Answer, Cancel, Leave, TaskTypes
    <2>3. QED
      BY <2>1, <2>2
  <1>5. answered' \subseteq Tasks
    BY <1>0 DEF Receive, Announce, Handle, Return, Answer, Cancel, Leave, TaskTypes
  <1>6. reader' \in [Tasks -> {"waits", "canceled", "gone"}]
    BY <1>0 DEF Receive, Announce, Handle, Return, Answer, Cancel, Leave, TaskTypes
  <1>7. CallTypes'
    <2>1. CASE Handle(t) /\ Dispatches(t)
      <3>1. Operation(t) \in Tools /\ Attach(t) \in Identities
        BY <1>0, <2>1, AttachTyped DEF Dispatches, BootTypes, TaskTypes
      <3>2. calls' = calls \cup {[task |-> t, op |-> Operation(t), as |-> Attach(t)]}
        BY <2>1 DEF Handle
      <3>3. QED
        BY <1>0, <3>1, <3>2 DEF CallTypes
    <2>2. CASE ~(Handle(t) /\ Dispatches(t))
      BY <1>0, <2>2 DEF Receive, Announce, Handle, Return, Answer, Cancel, Leave, CallTypes
    <2>3. QED
      BY <2>1, <2>2
  <1>8. TaskTypes'
    BY <1>0, <1>2, <1>3, <1>4, <1>5, <1>6 DEF TaskTypes
  <1>9. QED
    BY <1>1, <1>7, <1>8, Untouched, TypePartsNext

\* The steps of list_tools.
LEMMA ListTyped ==
  ASSUME TypeOK, NEW t \in Tasks, LockInfo(t) \/ FetchOk(t) \/ FetchFail(t)
  PROVE  TypeOK'
  <1>0. TaskTypes /\ InfoTypes /\ ServerTypes
    BY TypeParts
  <1>1. UNCHANGED serverVars /\ UNCHANGED bootVars /\ UNCHANGED calls
    BY DEF LockInfo, FetchOk, FetchFail
  <1>2. info' \in {info, edition} /\ infoMu' \in {infoMu, t, None}
    BY DEF LockInfo, FetchOk, FetchFail, Kept, UnlockInfo
  <1>3. InfoTypes'
    BY <1>0, <1>2 DEF InfoTypes, ServerTypes
  <1>4. \/ UNCHANGED listing /\ Goto(t, "fetch")
        \/ \E prose \in {0} \cup Editions : List(t, prose)
    BY <1>0 DEF LockInfo, FetchOk, FetchFail, InfoTypes, ServerTypes
  <1>5. pc' \in [Tasks -> PCs]
    BY <1>0, <1>4, GotoTyped DEF List, TaskTypes, PCs
  <1>6. listing' \in [Tasks -> {None, 0} \cup Editions]
    BY <1>0, <1>4 DEF List, TaskTypes
  <1>7. UNCHANGED <<req, answered, reader>> /\ failed' \in {failed, failed \cup {t}}
    BY DEF LockInfo, FetchOk, FetchFail
  <1>8. TaskTypes'
    BY <1>0, <1>5, <1>6, <1>7 DEF TaskTypes
  <1>9. QED
    BY <1>1, <1>3, <1>8, Untouched, TypePartsNext

\* A step is one of these, or a stutter.
LEMMA Steps ==
  ASSUME [Next]_vars
  PROVE  \/ Redeploy \/ BootStep \/ Stop \/ Idle
         \/ \E t \in Tasks : \/ Receive(t) \/ Announce(t) \/ Handle(t) \/ Return(t) \/ Answer(t)
                             \/ Cancel(t) \/ Leave(t)
         \/ \E t \in Tasks : LockInfo(t) \/ FetchOk(t) \/ FetchFail(t)
         \/ UNCHANGED vars
  BY DEF Next, Progress, Prompt, BootStep

\* Every step preserves the types.
LEMMA TypedStep == TypeOK /\ [Next]_vars => TypeOK'
  <1> SUFFICES ASSUME TypeOK, [Next]_vars PROVE TypeOK'
    OBVIOUS
  <1>1. CASE UNCHANGED vars
    BY <1>1, Untouched, TypePartsNext DEF vars, taskVars
  <1>2. QED
    BY <1>1, Steps, ProcessTyped, TaskTyped, ListTyped

\* Every variable of the server stays in its type.
THEOREM ServeTyped == Spec => []TypeOK
  BY TypedInit, TypedStep, PTL DEF Spec

(***************************************************************************)
(* Operations run as they were asked for.                                  *)
(***************************************************************************)

\* What OnlyAsAsked rests on: a task that has begun an operation is not given
\* another message, and the assistant is registered only where it has a model.
Asked ==
  /\ OnlyAsAsked
  /\ \A c \in calls : pc[c.task] # "idle"
  /\ "ask" \in ops => configured

\* An operation that a request dispatches to is one that it wants.
LEMMA DispatchesWanted ==
  ASSUME TypeOK, Asked, NEW t \in Tasks, Dispatches(t)
  PROVE  Wanted(req[t], Operation(t)) /\ Attach(t).bearer = Sender(req[t])
  <1>1. Operation(t) \in ops /\ None \notin ops /\ req[t] \in Request
    BY DEF Dispatches, TypeOK
  <1>2. CASE IsQuestion(t)
    BY <1>1, <1>2 DEF Operation, IsQuestion, Wanted, Attach, Sender, Asked
  <1>3. CASE ~IsQuestion(t)
    BY <1>1, <1>3 DEF Operation, Dispatches, IsQuestion, Wanted, Attach, Sender
  <1>4. QED
    BY <1>2, <1>3

\* Only the message that starts a task changes its request, only a start of the
\* process what is registered, and nothing whether there is a model.
LEMMA AskedStep ==
  ASSUME TypeOK, Asked, [Next]_vars
  PROVE  Asked'
  <1>0. calls \subseteq [task : Tasks, op : Tools, as : Identities] /\ pc \in [Tasks -> PCs]
    BY DEF TypeOK
  <1>1. CASE Redeploy \/ BootStep \/ Stop \/ Idle \/ UNCHANGED vars
    <2>1. UNCHANGED <<calls, req, configured>>
      BY <1>1 DEF Redeploy, BootStep, Start, CheckCatalog, ComeUp, BootFails, Stop, Idle, vars, taskVars,
         bootVars
    <2>2. OnlyAsAsked'
      BY <2>1 DEF Asked, OnlyAsAsked, Wanted, Sender
    <2>3. \A c \in calls : pc[c.task] # "idle" => pc'[c.task] # "idle"
      BY <1>0, <1>1 DEF Redeploy, BootStep, Start, CheckCatalog, ComeUp, BootFails, Stop, Idle, vars,
         taskVars
    <2>4. "ask" \in ops' => configured
      BY <1>1, ToolsAssumption
         DEF Redeploy, BootStep, Start, CheckCatalog, ComeUp, BootFails, Stop, Idle, vars, bootVars,
             Asked, Registered, Own
    <2>5. QED
      BY <2>1, <2>2, <2>3, <2>4 DEF Asked
  <1>2. ASSUME NEW t \in Tasks, Receive(t) PROVE Asked'
    <2>1. UNCHANGED <<calls, ops, configured>>
      BY <1>2 DEF Receive, bootVars
    <2>2. \A c \in calls : c.task # t /\ req'[c.task] = req[c.task] /\ pc'[c.task] = pc[c.task]
      BY <1>0, <1>2 DEF Receive, Asked, Goto, TypeOK
    <2>3. OnlyAsAsked'
      BY <2>1, <2>2 DEF Asked, OnlyAsAsked, Wanted, Sender
    <2>4. QED
      BY <2>1, <2>2, <2>3 DEF Asked
  <1>3. ASSUME NEW t \in Tasks, Handle(t), Dispatches(t) PROVE Asked'
    <2> DEFINE new == [task |-> t, op |-> Operation(t), as |-> Attach(t)]
    <2>1. calls' = calls \cup {new} /\ UNCHANGED <<req, ops, configured>>
      BY <1>3 DEF Handle, bootVars
    <2>2. Wanted(req[t], new.op) /\ new.as = [bearer |-> Sender(req[t]), context |-> req[t].context]
      BY <1>3, DispatchesWanted DEF Attach
    <2>3. OnlyAsAsked'
      BY <2>1, <2>2 DEF Asked, OnlyAsAsked, Wanted, Sender
    <2>4. \A c \in calls' : pc'[c.task] # "idle"
      BY <1>0, <1>3, <2>1 DEF Handle, Goto, Asked
    <2>5. QED
      BY <2>1, <2>3, <2>4 DEF Asked
  <1>4. ASSUME NEW t \in Tasks,
               \/ Announce(t) \/ (Handle(t) /\ ~Dispatches(t)) \/ Return(t) \/ Answer(t)
               \/ Cancel(t) \/ Leave(t) \/ LockInfo(t) \/ FetchOk(t) \/ FetchFail(t)
        PROVE  Asked'
    <2>1. UNCHANGED <<calls, req, ops, configured>>
      BY <1>4 DEF Announce, Handle, Return, Answer, Cancel, Leave, LockInfo, FetchOk, FetchFail,
                  bootVars
    <2>2. OnlyAsAsked'
      BY <2>1 DEF Asked, OnlyAsAsked, Wanted, Sender
    <2>3. UNCHANGED pc \/ \E label \in PCs \ {"idle"} : Goto(t, label)
      BY <1>4 DEF Announce, Handle, Return, Answer, Cancel, Leave, LockInfo, FetchOk, FetchFail,
                  Publish, List, PCs
    <2>4. \A c \in calls : pc'[c.task] # "idle"
      BY <1>0, <2>3 DEF Goto, Asked
    <2>5. QED
      BY <2>1, <2>2, <2>4 DEF Asked
  <1>5. QED
    BY <1>1, <1>2, <1>3, <1>4, Steps

\* An operation runs only for a task that asked for it, and as that task's
\* sender, whatever else the agent is asked at the same time.
THEOREM AsAskedOnly == Spec => []OnlyAsAsked
  <1>1. Init => Asked
    BY DEF Init, Asked, OnlyAsAsked
  <1>2. TypeOK /\ Asked /\ [Next]_vars => Asked'
    BY AskedStep
  <1>3. Asked => OnlyAsAsked
    BY DEF Asked
  <1>4. QED
    BY <1>1, <1>2, <1>3, ServeTyped, PTL DEF Spec

(***************************************************************************)
(* The cache of list_tools.                                                *)
(***************************************************************************)

\* A list without the server's prose is given to the task that failed to fetch
\* it, and to no other.
THEOREM FailureIsOwn == Spec => []OwnFailureOnly
  <1>1. Init => OwnFailureOnly
    BY DEF Init, OwnFailureOnly
  <1>2. TypeOK /\ OwnFailureOnly /\ [Next]_vars => OwnFailureOnly'
    <2> SUFFICES ASSUME TypeOK, OwnFailureOnly, [Next]_vars, NEW s \in Tasks, listing'[s] = 0
                 PROVE  s \in failed'
      BY DEF OwnFailureOnly
    <2>1. failed \subseteq failed' /\ (listing[s] = 0 => s \in failed)
      BY Steps DEF OwnFailureOnly, Redeploy, BootStep, Start, CheckCatalog, ComeUp, BootFails, Stop,
         Idle, Receive, Announce, Handle, Return, Answer, Cancel, Leave, LockInfo, FetchOk, FetchFail,
         vars, taskVars
    <2>2. CASE UNCHANGED listing
      BY <2>1, <2>2
    <2>3. ASSUME NEW t \in Tasks, LockInfo(t) \/ FetchOk(t), listing' # listing PROVE s \in failed'
      <3>1. \E prose \in Editions : listing' = [listing EXCEPT ![t] = prose]
        BY <2>3 DEF LockInfo, FetchOk, List, TypeOK
      <3>2. QED
        BY <2>1, <3>1 DEF TypeOK, Editions
    <2>4. ASSUME NEW t \in Tasks, FetchFail(t) PROVE s \in failed'
      BY <2>1, <2>4 DEF FetchFail, List, TypeOK
    <2>5. QED
      BY <2>2, <2>3, <2>4, Steps DEF Redeploy, BootStep, Start, CheckCatalog, ComeUp, BootFails,
         Stop, Idle, Receive, Announce, Handle, Return, Answer, Cancel, Leave, vars, taskVars
  <1>3. QED
    BY <1>1, <1>2, ServeTyped, PTL DEF Spec

(***************************************************************************)
(* The card.                                                               *)
(***************************************************************************)

\* What NoLyingCard rests on: what is registered stays as it was made from the
\* start of the process to its end; while the server is the one that was read, it
\* serves all that is proxied, from CheckCatalog on, and not only then; and an
\* edition that was read is none that is still to come.
Checked ==
  /\ proc \in {"reading", "checked", "up"} => ops = Registered
  /\ proc \in {"checked", "up"} /\ edition = read => Proxied \subseteq serves
  /\ read <= edition
  /\ proc = "up" => card = CardOf(ops)

\* The process keeps it so, and a new edition is not the one that was read.
LEMMA CheckedStep == TypeOK /\ Checked /\ [Next]_vars => Checked'
  <1> SUFFICES ASSUME TypeOK, Checked, [Next]_vars PROVE Checked'
    OBVIOUS
  <1>1. edition \in Nat /\ edition >= 1 /\ read \in Nat
    BY DEF TypeOK, Editions
  <1>2. CASE Redeploy
    <2>1. edition' = edition + 1 /\ UNCHANGED <<proc, ops, card, read, configured>>
      BY <1>2 DEF Redeploy, bootVars
    <2>2. edition' # read
      BY <1>1, <2>1 DEF Checked
    <2>3. QED
      BY <1>1, <2>1, <2>2 DEF Checked, Registered, CardOf
  <1>3. CASE Start
    BY <1>3 DEF Start, Checked, Registered, serverVars
  <1>4. CASE CheckCatalog
    <2>1. ops = Registered /\ UNCHANGED <<serves, edition, configured, card>>
      BY <1>4 DEF CheckCatalog, Checked, serverVars
    <2>2. CASE DiffOK({x \in ops : isProxied(x)}) /\ proc' = "checked" /\ read' = edition /\ UNCHANGED ops
      <3>1. Proxied \subseteq serves
        BY <2>1, <2>2, RegisteredTools DEF DiffOK, isProxied
      <3>2. QED
        BY <1>1, <2>1, <2>2, <3>1 DEF Checked, Registered
    <2>3. CASE proc' = "refused" /\ UNCHANGED read
      BY <2>1, <2>3 DEF Checked
    <2>4. QED
      BY <1>4, <2>2, <2>3 DEF CheckCatalog
  <1>5. CASE ComeUp
    BY <1>5 DEF ComeUp, Checked, Registered, CardOf, serverVars
  <1>6. CASE BootFails \/ Stop
    <2>1. proc' \in {"refused", "down"} /\ read' = 0 /\ UNCHANGED edition
      BY <1>6 DEF BootFails, Stop, serverVars
    <2>2. QED
      BY <1>1, <2>1 DEF Checked
  <1>7. CASE UNCHANGED <<serverVars, bootVars>>
    BY <1>7 DEF serverVars, bootVars, Checked, Registered, CardOf
  <1>8. QED
    BY <1>2, <1>3, <1>4, <1>5, <1>6, <1>7, Steps DEF BootStep, Idle, Receive, Announce, Handle, Return,
       Answer, Cancel, Leave, LockInfo, FetchOk, FetchFail, vars

\* As long as the agent is up, every tool on its card is registered; and a tool
\* on it that is not its own is served by a server that is the one it read, also
\* where that was replaced between the reading and the card, or is later:
\* whatever tools and skills there are.
THEOREM CardNeverLies == Spec => []NoLyingCard
  <1>1. Init => Checked
    BY DEF Init, Checked
  <1>2. Checked => NoLyingCard
    BY OnTheCard DEF Checked, NoLyingCard
  <1>3. QED
    BY <1>1, <1>2, CheckedStep, ServeTyped, PTL DEF Spec

(***************************************************************************)
(* Nobody is stuck.                                                        *)
(***************************************************************************)

\* A task that is under way has a process that runs it.
Underway == \A t \in Tasks : pc[t] # "idle" /\ ~Ended(t) => proc = "up"

\* The process: it takes the lock with it, and the tasks.
LEMMA ProcessNotStuck ==
  ASSUME TypeOK, Underway, NeverStuck, Redeploy \/ BootStep \/ Stop \/ Idle \/ UNCHANGED vars
  PROVE  Underway' /\ NeverStuck'
  <1>1. CASE Stop
    <2>1. infoMu' = None /\ \A t \in Tasks : pc'[t] = "idle" \/ pc'[t] \in {"ended", "lost"}
      BY <1>1 DEF Stop, Ended
    <2>2. QED
      BY <2>1 DEF Underway, NeverStuck, Ended
  <1>2. CASE BootStep
    <2>1. UNCHANGED <<pc, infoMu>> /\ proc # "up"
      BY <1>2 DEF BootStep, Start, CheckCatalog, ComeUp, BootFails, infoVars, taskVars
    <2>2. infoMu = None /\ \A t \in Tasks : pc[t] = "idle" \/ Ended(t)
      BY <2>1 DEF Underway, NeverStuck
    <2>3. QED
      BY <2>1, <2>2 DEF Underway, NeverStuck, Ended
  <1>3. CASE Redeploy \/ Idle \/ UNCHANGED vars
    <2>1. UNCHANGED <<pc, infoMu, proc>>
      BY <1>3 DEF Redeploy, Idle, vars, bootVars, infoVars, taskVars
    <2>2. QED
      BY <2>1 DEF Underway, NeverStuck, Ended
  <1>4. QED
    BY <1>1, <1>2, <1>3

\* A task's own step, which takes it from one place to another: only a fetch has
\* the lock, and no fetch ends with it.
LEMMA TaskNotStuck ==
  ASSUME TypeOK, Underway, NeverStuck, NEW t \in Tasks,
         Receive(t) \/ Progress(t) \/ Cancel(t) \/ Leave(t)
  PROVE  Underway' /\ NeverStuck'
  <1>1. UNCHANGED proc /\ proc = "up"
    BY DEF Receive, Progress, Prompt, Announce, Handle, Return, Answer, LockInfo, FetchOk, FetchFail,
           Cancel, Leave, Underway, Ended, bootVars
  <1>2. Underway'
    BY <1>1 DEF Underway
  <1>3. \A s \in Tasks \ {t} : pc'[s] = pc[s]
    BY DEF TypeOK, Receive, Progress, Prompt, Announce, Publish, Handle, Return, Answer, LockInfo,
           List, FetchOk, FetchFail, Cancel, Leave, Goto
  <1>4. CASE LockInfo(t)
    <2>1. infoMu = None /\ \/ infoMu' = None /\ pc'[t] = "answer"
                           \/ infoMu' = t /\ pc'[t] = "fetch"
      BY <1>4 DEF TypeOK, LockInfo, List, Goto
    <2>2. QED
      BY <1>1, <1>2, <1>3, <2>1, NoneAssumption DEF NeverStuck
  <1>5. CASE FetchOk(t) \/ FetchFail(t)
    <2>1. infoMu = t /\ infoMu' = None /\ pc'[t] = "answer"
      BY <1>5 DEF TypeOK, FetchOk, FetchFail, UnlockInfo, List, Goto, NeverStuck
    <2>2. QED
      BY <1>2, <1>3, <2>1, NoneAssumption DEF NeverStuck
  <1>6. CASE \/ Receive(t) \/ Announce(t) \/ Handle(t) \/ Return(t) \/ Answer(t)
             \/ Cancel(t) \/ Leave(t)
    <2>1. UNCHANGED infoMu
      BY <1>6 DEF Receive, Announce, Handle, Return, Answer, Cancel, Leave, infoVars
    <2>2. UNCHANGED pc \/ (pc[t] # "fetch" /\ pc'[t] # "fetch")
      BY <1>6 DEF TypeOK, Receive, Announce, Publish, Handle, Return, Answer, Cancel, Leave, Goto
    <2>3. infoMu # t \/ UNCHANGED pc
      BY <2>2, NoneAssumption DEF NeverStuck
    <2>4. infoMu \in Tasks \cup {None}
      BY DEF TypeOK
    <2>5. QED
      BY <1>1, <1>2, <1>3, <2>1, <2>2, <2>3, <2>4 DEF NeverStuck
  <1>7. QED
    BY <1>4, <1>5, <1>6 DEF Progress, Prompt

\* No task is stuck behind the lock of the descriptions: whoever has it fetches
\* them, in a process that runs, and neither a fetch that fails nor a process that
\* stops leaves it locked.
THEOREM TasksNeverStuck == Spec => []NeverStuck
  <1>1. Init => Underway /\ NeverStuck
    BY DEF Init, Underway, NeverStuck
  <1>2. TypeOK /\ Underway /\ NeverStuck /\ [Next]_vars => Underway' /\ NeverStuck'
    BY ProcessNotStuck, TaskNotStuck DEF Next, BootStep
  <1>3. QED
    BY <1>1, <1>2, ServeTyped, PTL DEF Spec

=============================================================================
