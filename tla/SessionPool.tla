---------------------------- MODULE SessionPool ----------------------------
(***************************************************************************)
(* The pool of MCP sessions in internal/mcpclient/client.go.               *)
(*                                                                         *)
(* Many A2A requests call tools through one Client at the same time.  Each *)
(* CallTool picks a session by the caller's identity, dials it when the    *)
(* pool has none, sends the tool call, and for an idempotent tool evicts   *)
(* the session and tries once more when anything went wrong.  Meanwhile    *)
(* one goroutine sweeps idle sessions and, at shutdown, it and the main    *)
(* goroutine both close the pool.                                          *)
(*                                                                         *)
(* Locks: c.mu guards the map, e.mu guards one entry.  Sections that never *)
(* block are one step.  Two locks are held while their holder waits: e.mu  *)
(* across the dial and across the close of the entry's session, which are  *)
(* exchanges with the server that no timeout ends; and c.mu while the      *)
(* sweep visits the entries.                                               *)
(***************************************************************************)
EXTENDS Naturals

CONSTANTS
  Calls,        \* the CallTool invocations, one goroutine each
  Names,        \* strings used as bearers and as conversation ids
  None,         \* the empty string, the nil pointer, the free lock
  Requests,     \* the requests that each call may be, subsets of Request
  MaxEntries,   \* bound: entries ever put in the map
  MaxSessions,  \* bound: connections ever opened
  MaxSweeps,    \* bound: ticks of the sweep
  MaxRestarts,  \* bound: restarts of the remote server
  Closers       \* who closes the client: "run" (Run), "app" (App.Close)

\* The kinds of tools that the pool treats differently.  A "read" is in
\* idempotentTools; an "auth" is auth_verify, which is not.
Kinds == {"read", "build", "auth"}
Request == [bearer : Names \cup {None}, context : Names \cup {None}, kind : Kinds]
Keys == {"b", "c"} \X Names
Entries == 1..MaxEntries
Sessions == 1..MaxSessions

\* The goroutines besides the calls' that close sessions: Run, which sweeps, and
\* main, which closes the app.
Goroutines == {"run", "app"}

ASSUME NamesAssumption ==
  /\ None \notin Names \cup Calls \cup Goroutines
  /\ Calls \cap Goroutines = {}
ASSUME RequestsAssumption == Requests \in [Calls -> SUBSET Request]
ASSUME BoundsAssumption == MaxEntries \in Nat /\ MaxSessions \in Nat
ASSUME ClosersAssumption == Closers \subseteq Goroutines

VARIABLES
  pc, req, attempt, ent, sess,   \* CallTool: where it is and its locals
  pool,                          \* Client.pool (0: no entry)
  nEntries, lock, held, recent,  \* entry: e.mu, e.session, used lately
  nSessions, open,               \* connections opened, not closed by the client
  alive, bound, restarts,        \* server: the sessions it knows, their bearer
  sent, ran,                     \* tool calls sent, tool calls executed
  rpc, todo, stale, sweeps,      \* Run: sweeping the map, dropping the stale
  shut, closing                  \* Close: who began it, what each has left to close

callVars    == <<pc, req, attempt, ent, sess>>
poolVars    == <<pool, nEntries, lock, held, recent, nSessions, open>>
serverVars  == <<alive, bound, restarts, sent, ran>>
janitorVars == <<rpc, todo, stale, sweeps, shut, closing>>
vars == <<callVars, poolVars, serverVars, janitorVars>>

(***************************************************************************)
(* Identities.  The server knows a caller by its explicit bearer or else   *)
(* by the bearer auth_verify bound to the session; Nobody is neither.      *)
(***************************************************************************)
NoKey == <<"none", None>>
Nobody == NoKey

\* Variant: one session for every caller that has no bearer.
sessionKey_Shared(r) ==
  IF r.bearer # None THEN <<"b", r.bearer>> ELSE <<"c", CHOOSE n \in Names : TRUE>>

sessionKey(r) ==
  IF r.bearer # None THEN <<"b", r.bearer>>
  ELSE IF r.context # None THEN <<"c", r.context>>
  ELSE NoKey

Caller(c) ==
  IF req[c].bearer # None THEN <<"b", req[c].bearer>>
  ELSE IF req[c].context # None THEN <<"c", req[c].context>>
  ELSE <<"call", c>>

Key(c) == sessionKey(req[c])
Ephemeral(c) == Key(c) = NoKey

\* Variant: whatever is no handshake may be repeated.
Idempotent_Builds(c) == req[c].kind # "auth"

Idempotent(c) == req[c].kind = "read"

MuFree == rpc # "sweep"

NoRequest == [bearer |-> None, context |-> None, kind |-> "read"]

Init ==
  /\ pc = [c \in Calls |-> "idle"]
  /\ req = [c \in Calls |-> NoRequest]
  /\ attempt = [c \in Calls |-> 1]
  /\ ent = [c \in Calls |-> 0]
  /\ sess = [c \in Calls |-> 0]
  /\ pool = [k \in Keys |-> 0]
  /\ nEntries = 0
  /\ lock = [e \in Entries |-> None]
  /\ held = [e \in Entries |-> 0]
  /\ recent = {}
  /\ nSessions = 0
  /\ open = {}
  /\ alive = {}
  /\ bound = [s \in Sessions |-> Nobody]
  /\ restarts = 0
  /\ sent = {}
  /\ ran = {}
  /\ rpc = "idle"
  /\ todo = {}
  /\ stale = {}
  /\ sweeps = 0
  /\ shut = {}
  /\ closing = [p \in Closers |-> {}]

(***************************************************************************)
(* CallTool and callOnce.                                                  *)
(***************************************************************************)
Goto(c, label) == pc' = [pc EXCEPT ![c] = label]

\* callOnce gives a caller without a key a session of its own.
Start(k) == IF k = NoKey THEN "dial" ELSE "lookup"

Arrive(c) ==
  /\ pc[c] = "idle"
  /\ \E r \in Requests[c] : /\ req' = [req EXCEPT ![c] = r]
                            /\ Goto(c, Start(sessionKey(r)))
  /\ UNCHANGED <<attempt, ent, sess, poolVars, serverVars, janitorVars>>

\* Variant: one attempt too many.
FailAttempt_Thrice(c) ==
  LET again == attempt[c] <= 2 /\ Idempotent(c)
  IN  /\ Goto(c, IF ~again THEN "failed" ELSE IF Ephemeral(c) THEN "dial" ELSE "unlink")
      /\ attempt' = [attempt EXCEPT ![c] = IF again /\ Ephemeral(c) THEN @ + 1 ELSE @]

\* callOnce returns an error: an idempotent call evicts its key's entry and
\* goes round once more; with no key there is nothing to evict.
FailAttempt(c) ==
  LET again == attempt[c] = 1 /\ Idempotent(c)
  IN  /\ Goto(c, IF ~again THEN "failed" ELSE IF Ephemeral(c) THEN "dial" ELSE "unlink")
      /\ attempt' = [attempt EXCEPT ![c] = IF again /\ Ephemeral(c) THEN @ + 1 ELSE @]

\* Variant: sessionFor does not look at closed, that is, at a Close begun.
Refused_Never == FALSE

Refused == shut # {}

\* sessionFor under c.mu: find the key's entry or add one.
Lookup(c) ==
  /\ pc[c] = "lookup" /\ MuFree
  /\ \/ /\ Refused
        /\ FailAttempt(c)
        /\ UNCHANGED <<pool, nEntries, ent>>
     \/ /\ ~Refused
        /\ \/ pool[Key(c)] # 0 /\ UNCHANGED <<pool, nEntries>>
           \/ /\ pool[Key(c)] = 0 /\ nEntries < MaxEntries
              /\ nEntries' = nEntries + 1
              /\ pool' = [pool EXCEPT ![Key(c)] = nEntries + 1]
        /\ ent' = [ent EXCEPT ![c] = pool'[Key(c)]]
        /\ Goto(c, "enter") /\ UNCHANGED attempt
  /\ UNCHANGED <<req, sess, lock, held, recent, nSessions, open, serverVars,
                 janitorVars>>

\* sessionFor under e.mu: stamp lastUsed, then reuse the session or dial with
\* the lock held.
Enter(c) ==
  LET e == ent[c]
  IN  /\ pc[c] = "enter" /\ lock[e] = None
      /\ recent' = recent \cup {e}
      /\ IF held[e] # 0
           THEN sess' = [sess EXCEPT ![c] = held[e]] /\ Goto(c, "send") /\ UNCHANGED lock
           ELSE lock' = [lock EXCEPT ![e] = c] /\ Goto(c, "dial") /\ UNCHANGED sess
      /\ UNCHANGED <<req, attempt, ent, pool, nEntries, held, nSessions, open,
                     serverVars, janitorVars>>

\* Variant: only the path that returns a session unlocks.
Unlock_OnSuccess(c) ==
  lock' = IF Ephemeral(c) \/ pc'[c] # "send" THEN lock ELSE [lock EXCEPT ![ent[c]] = None]

\* The dial is over: sessionFor returns and so releases e.mu.
Unlock(c) == lock' = IF Ephemeral(c) THEN lock ELSE [lock EXCEPT ![ent[c]] = None]

DialOk(c) ==
  LET s == nSessions + 1
  IN  /\ pc[c] = "dial" /\ nSessions < MaxSessions
      /\ nSessions' = s
      /\ open' = open \cup {s} /\ alive' = alive \cup {s}
      /\ sess' = [sess EXCEPT ![c] = s]
      /\ held' = IF Ephemeral(c) THEN held ELSE [held EXCEPT ![ent[c]] = s]
      /\ Goto(c, "send") /\ Unlock(c)
      /\ UNCHANGED <<req, attempt, ent, pool, nEntries, recent, bound, restarts,
                     sent, ran, janitorVars>>

DialFail(c) ==
  /\ pc[c] = "dial"
  /\ FailAttempt(c) /\ Unlock(c)
  /\ UNCHANGED <<req, ent, sess, pool, nEntries, held, recent, nSessions, open,
                 serverVars, janitorVars>>

\* callOnce returns without an answer.  A call without a key closes its session
\* first, which it has dialled for itself.
GiveUp(c) ==
  IF Ephemeral(c) THEN Goto(c, "failing") /\ UNCHANGED attempt ELSE FailAttempt(c)

\* sess.CallTool: the request goes out, unless the session is closed already.
Message(c) == [call |-> c, attempt |-> attempt[c], session |-> sess[c]]

Send(c) ==
  /\ pc[c] = "send"
  /\ \/ /\ sess[c] \in open
        /\ sent' = sent \cup {Message(c)} /\ Goto(c, "wait") /\ UNCHANGED attempt
     \/ /\ sess[c] \notin open
        /\ GiveUp(c) /\ UNCHANGED sent
  /\ UNCHANGED <<req, ent, sess, poolVars, alive, bound, restarts, ran, janitorVars>>

\* Variant: the session a call dialled for itself outlives the call.
CloseOwn_Never(c) == open' = open

CloseOwn(c) == open' = IF Ephemeral(c) THEN open \ {sess[c]} ELSE open

\* sess.CallTool ends with the answer, or without it: the timeout, a transport
\* error, the loss of the session.  In that case the server may have run the
\* tool, or may yet.  The close of a session that is the call's own begins.
Return(c) ==
  /\ pc[c] = "wait"
  /\ \/ GiveUp(c)
     \/ /\ \E r \in ran : r.msg = Message(c)
        /\ Goto(c, IF Ephemeral(c) THEN "answering" ELSE "answered") /\ UNCHANGED attempt
  /\ CloseOwn(c)
  /\ UNCHANGED <<req, ent, sess, pool, nEntries, lock, held, recent, nSessions,
                 serverVars, janitorVars>>

\* The deferred close of the call's own session is over.
Leave(c) ==
  /\ \/ pc[c] = "failing" /\ FailAttempt(c)
     \/ pc[c] = "answering" /\ Goto(c, "answered") /\ UNCHANGED attempt
  /\ UNCHANGED <<req, ent, sess, poolVars, serverVars, janitorVars>>

\* Under e.mu, in evict, sweep and Close alike: g closes the entry's session, a
\* request to the server, and has the lock meanwhile.  From here on the session
\* takes no call.  An entry without a session is passed over.
CloseStart(e, g) ==
  /\ lock[e] = None /\ held[e] # 0
  /\ lock' = [lock EXCEPT ![e] = g]
  /\ open' = open \ {held[e]}

NothingToClose(e) == lock[e] = None /\ held[e] = 0 /\ UNCHANGED <<lock, open>>

\* Variant: the pointer to the closed session stays.
CloseEnd_Kept(e) == lock' = [lock EXCEPT ![e] = None] /\ held' = held

\* The close is over, well or badly: the entry forgets the session.
CloseEnd(e) ==
  /\ lock' = [lock EXCEPT ![e] = None]
  /\ held' = [held EXCEPT ![e] = 0]

Again(c) == attempt' = [attempt EXCEPT ![c] = @ + 1] /\ Goto(c, "lookup")

\* Variant: the retry goes round without evicting anything.
Unlink_Nothing(c) ==
  /\ pc[c] = "unlink" /\ MuFree /\ Again(c)
  /\ UNCHANGED <<req, ent, sess, poolVars, serverVars, janitorVars>>

\* evict under c.mu: unlink whatever entry the key has by now.
Unlink(c) ==
  /\ pc[c] = "unlink" /\ MuFree
  /\ \/ pool[Key(c)] = 0 /\ Again(c) /\ UNCHANGED <<ent, pool>>
     \/ /\ pool[Key(c)] # 0
        /\ ent' = [ent EXCEPT ![c] = pool[Key(c)]]
        /\ pool' = [pool EXCEPT ![Key(c)] = 0]
        /\ Goto(c, "evict") /\ UNCHANGED attempt
  /\ UNCHANGED <<req, sess, nEntries, lock, held, recent, nSessions, open,
                 serverVars, janitorVars>>

\* evict under e.mu.
Evict(c) ==
  /\ pc[c] = "evict"
  /\ \/ NothingToClose(ent[c]) /\ Again(c)
     \/ CloseStart(ent[c], c) /\ Goto(c, "close") /\ UNCHANGED attempt
  /\ UNCHANGED <<req, ent, sess, pool, nEntries, held, recent, nSessions,
                 serverVars, janitorVars>>

Evicted(c) ==
  /\ pc[c] = "close"
  /\ CloseEnd(ent[c]) /\ Again(c)
  /\ UNCHANGED <<req, ent, sess, pool, nEntries, recent, nSessions, open,
                 serverVars, janitorVars>>

(***************************************************************************)
(* The remote server, as the client and its tests see it.                  *)
(***************************************************************************)

\* Which tenant a request acts as.
Resolve(m) == IF req[m.call].bearer # None THEN <<"b", req[m.call].bearer>>
              ELSE bound[m.session]

Execute(m) ==
  /\ m.session \in alive
  /\ \A r \in ran : r.msg # m
  /\ ran' = ran \cup {[msg |-> m, as |-> Resolve(m)]}
  /\ bound' = IF req[m.call].kind = "auth"
                THEN [bound EXCEPT ![m.session] = Caller(m.call)] ELSE bound
  /\ UNCHANGED <<callVars, poolVars, alive, restarts, sent, janitorVars>>

\* The server restarts and forgets its sessions.
Restart ==
  /\ restarts < MaxRestarts
  /\ restarts' = restarts + 1
  /\ alive' = {}
  /\ UNCHANGED <<callVars, poolVars, bound, sent, ran, janitorVars>>

(***************************************************************************)
(* Run, sweep and Close.                                                   *)
(***************************************************************************)

\* now - lastUsed passes IdleTimeout; a new entry's lastUsed is the zero time,
\* which is past it from the start.  The sweep compares with the time it
\* started at; a call under way on a session ends within CallTimeout, which
\* is shorter; a dial, which comes after the stamp, may take as long as it likes.
Age(k) ==
  /\ rpc = "idle" /\ sweeps < MaxSweeps /\ pool[k] \in recent
  /\ \A c \in Calls : pc[c] \in {"send", "wait"} => sess[c] # held[pool[k]]
  /\ recent' = recent \ {pool[k]}
  /\ UNCHANGED <<callVars, pool, nEntries, lock, held, nSessions, open,
                 serverVars, janitorVars>>

\* sweep takes c.mu, visits each entry under its own lock, and unlinks the
\* idle ones.
SweepBegin ==
  /\ rpc = "idle" /\ sweeps < MaxSweeps
  /\ rpc' = "sweep" /\ sweeps' = sweeps + 1
  /\ todo' = {k \in Keys : pool[k] # 0}
  /\ UNCHANGED <<callVars, poolVars, serverVars, stale, shut, closing>>

Idle(e) == e \notin recent

SweepVisit(k) ==
  /\ rpc = "sweep" /\ lock[pool[k]] = None
  /\ todo' = todo \ {k}
  /\ \/ ~Idle(pool[k]) /\ UNCHANGED <<stale, pool>>
     \/ /\ Idle(pool[k])
        /\ stale' = stale \cup {pool[k]}
        /\ pool' = [pool EXCEPT ![k] = 0]
  /\ UNCHANGED <<callVars, nEntries, lock, held, recent, nSessions, open,
                 serverVars, rpc, sweeps, shut, closing>>

\* c.mu is free again; the idle entries' sessions are closed after that.
SweepUnlock ==
  /\ rpc = "sweep" /\ todo = {}
  /\ rpc' = IF stale = {} THEN "idle" ELSE "drop"
  /\ UNCHANGED <<callVars, poolVars, serverVars, todo, stale, sweeps, shut, closing>>

\* One entry after the other, in any order: Run's goroutine is in one close at
\* a time, and so is main's.
Busy(g) == \E e \in Entries : lock[e] = g

Dropped(e) ==
  /\ stale' = stale \ {e}
  /\ rpc' = IF stale = {e} THEN "idle" ELSE "drop"

SweepDrop(e) ==
  /\ rpc = "drop" /\ ~Busy("run")
  /\ \/ NothingToClose(e) /\ Dropped(e)
     \/ CloseStart(e, "run") /\ UNCHANGED <<stale, rpc>>
  /\ UNCHANGED <<callVars, pool, nEntries, held, recent, nSessions, serverVars,
                 todo, sweeps, shut, closing>>

SweepDropped(e) ==
  /\ rpc = "drop" /\ lock[e] = "run"
  /\ CloseEnd(e) /\ Dropped(e)
  /\ UNCHANGED <<callVars, pool, nEntries, recent, nSessions, open, serverVars,
                 todo, sweeps, shut, closing>>

\* Run closes the pool when its context ends; main's deferred App.Close does
\* it too, and does not wait for Run.
CloseBegin(p) ==
  /\ p \notin shut /\ MuFree
  /\ IF p = "run" THEN rpc = "idle" /\ rpc' = "stopped" ELSE UNCHANGED rpc
  /\ shut' = shut \cup {p}
  /\ closing' = [closing EXCEPT ![p] = {pool[k] : k \in Keys} \ {0}]
  /\ pool' = [k \in Keys |-> 0]
  /\ UNCHANGED <<callVars, nEntries, lock, held, recent, nSessions, open, serverVars,
                 todo, stale, sweeps>>

DoneWith(p, e) == closing' = [closing EXCEPT ![p] = @ \ {e}]

CloseEntry(p, e) ==
  /\ ~Busy(p)
  /\ \/ NothingToClose(e) /\ DoneWith(p, e)
     \/ CloseStart(e, p) /\ UNCHANGED closing
  /\ UNCHANGED <<callVars, pool, nEntries, held, recent, nSessions, serverVars,
                 rpc, todo, stale, sweeps, shut>>

ClosedEntry(p, e) ==
  /\ lock[e] = p
  /\ CloseEnd(e) /\ DoneWith(p, e)
  /\ UNCHANGED <<callVars, pool, nEntries, recent, nSessions, open, serverVars,
                 rpc, todo, stale, sweeps, shut>>

(***************************************************************************)
(* The specification.                                                      *)
(***************************************************************************)
CallStep(c) ==
  \/ Lookup(c) \/ Enter(c) \/ DialOk(c) \/ DialFail(c) \/ Send(c) \/ Return(c) \/ Leave(c)
  \/ Unlink(c) \/ Evict(c) \/ Evicted(c)

SweepProgress ==
  \/ SweepUnlock
  \/ \E k \in todo : SweepVisit(k)
  \/ \E e \in stale : SweepDrop(e)

SweepStep == SweepProgress \/ \E e \in stale : SweepDropped(e)
CloseStep(p) == \E e \in closing[p] : CloseEntry(p, e) \/ ClosedEntry(p, e)

Returned(c) == pc[c] \in {"answered", "failed"}

\* Every call has returned and the client is shut: the program is over.
Over ==
  /\ \A c \in Calls : Returned(c)
  /\ shut = Closers /\ \A p \in Closers : closing[p] = {}
  /\ UNCHANGED vars

Next ==
  \/ \E c \in Calls : Arrive(c) \/ CallStep(c)
  \/ \E m \in sent : Execute(m)
  \/ Restart
  \/ \E k \in Keys : Age(k)
  \/ SweepBegin \/ SweepStep
  \/ \E p \in Closers : CloseBegin(p) \/ CloseStep(p)
  \/ Over

Spec == Init /\ [][Next]_vars

\* Where a call is in an exchange with the server that no timeout ends: connect
\* has none of its own, and session.Close takes no context.
Talking(c) == pc[c] \in {"dial", "close", "answering", "failing"}

\* Goroutines are scheduled, Go's mutexes do not starve a waiter, and a tool
\* call ends at its timeout.  Neither dials nor closes are among the things
\* that must end.
Fairness ==
  /\ \A c \in Calls : SF_vars(CallStep(c) /\ ~Talking(c))
  /\ SF_vars(SweepProgress)
  /\ \A p \in Closers : SF_vars(\E e \in closing[p] : CloseEntry(p, e))

FairSpec == Spec /\ Fairness

(***************************************************************************)
(* Invariants.                                                             *)
(***************************************************************************)
PCs == {"idle", "lookup", "enter", "dial", "send", "wait", "answering", "failing",
        "unlink", "evict", "close", "answered", "failed"}
Identities == Keys \cup {Nobody} \cup ({"call"} \X Calls)
Messages == [call : Calls, attempt : {1, 2}, session : 1..nSessions]

CallTypes ==
  /\ pc \in [Calls -> PCs] /\ req \in [Calls -> Request] /\ attempt \in [Calls -> {1, 2}]
  /\ ent \in [Calls -> 0..nEntries] /\ sess \in [Calls -> 0..nSessions]
PoolTypes ==
  /\ pool \in [Keys -> 0..nEntries]
  /\ nEntries \in 0..MaxEntries /\ nSessions \in 0..MaxSessions
  /\ lock \in [Entries -> Calls \cup Goroutines \cup {None}] /\ held \in [Entries -> 0..nSessions]
  /\ recent \subseteq 1..nEntries /\ open \subseteq 1..nSessions
ServerTypes ==
  /\ alive \subseteq 1..nSessions /\ bound \in [Sessions -> Identities] /\ restarts \in Nat
  /\ sent \subseteq Messages /\ ran \subseteq [msg : Messages, as : Identities]
JanitorTypes ==
  /\ rpc \in {"idle", "sweep", "drop", "stopped"} /\ sweeps \in Nat
  /\ todo \subseteq Keys /\ stale \subseteq 1..nEntries
  /\ shut \subseteq Closers /\ closing \in [Closers -> SUBSET (1..nEntries)]

\* Every variable stays in its type.
TypeOK == CallTypes /\ PoolTypes /\ ServerTypes /\ JanitorTypes

\* doc.go: "a key that is never shared by two identities".  Whatever the
\* server runs for a call, it runs as that call's own caller or as nobody:
\* no call inherits a bearer that another caller left bound to a session.
Isolation == \A r \in ran : r.as \in {Caller(r.msg.call), Nobody}

\* Call.Idempotent: "broadcast ... a retry after an ambiguous failure risks
\* landing the transaction twice".  However answers are lost, delayed or
\* overtaken by a timeout, the server runs a non-idempotent call at most once.
AtMostOnce ==
  \A r, q \in ran : r.msg.call = q.msg.call /\ req[r.msg.call].kind # "read" => r = q

\* CallTool retries to get past a dead session: its second attempt never goes
\* out on the session of the first one, whoever replaced it meanwhile.
RetryElsewhere ==
  \A m, n \in sent : m.call = n.call /\ m # n => m.session # n.session

\* An entry that holds a session offers it as long as it is open, with the lock
\* free; once the client closes it, nobody gets to see it: the lock is not free
\* before the entry has forgotten it.
HandedOutOpen == \A e \in Entries : held[e] # 0 => (lock[e] = None <=> held[e] \in open)

\* What the holder of an entry's lock does with it: a call dials for the entry,
\* or a call, the sweep or a closer closes the entry's session.
Unlinked(e) == \A k \in Keys : pool[k] # e
Dials(g, e) == g \in Calls /\ pc[g] = "dial" /\ ~Ephemeral(g) /\ ent[g] = e
Closes(g, e) ==
  /\ \/ g \in Calls /\ pc[g] = "close" /\ ent[g] = e
     \/ g = "run" /\ rpc = "drop" /\ e \in stale
     \/ g \in Closers /\ e \in closing[g]
  /\ Unlinked(e)
Talks(g, e) == (Dials(g, e) \/ Closes(g, e)) /\ \A f \in Entries : lock[f] = g => f = e

\* sessionFor holds e.mu across the dial; evict, the sweep and Close hold it
\* across session.Close, and the sweep waits for it with c.mu in hand.  Whoever
\* holds an entry's lock, by whatever path it came, is talking to the server for
\* that very entry, has no other one's lock, and so waits for no lock.  And who
\* closes has taken the entry out of the map first: a close, however long, is
\* never what the holder of c.mu waits for.
HoldersTalk == \A e \in Entries : lock[e] # None => Talks(lock[e], e)

\* Nobody waits in a circle.  Who waits for an entry's lock, be it a call, a
\* closer or the sweep, waits for no entry that does not exist, and for nobody
\* but one who talks to the server.  Who waits for the map waits for the sweep,
\* which waits for nobody but a call that dials, has always an entry left to
\* visit or to drop, or is done.
FreeOrTalked(e) == e \in Entries /\ (lock[e] # None => Talks(lock[e], e))
FreeOrDialled(e) == e \in Entries /\ (lock[e] # None => Dials(lock[e], e))
NoCircle ==
  /\ \A c \in Calls : pc[c] \in {"enter", "evict"} => FreeOrTalked(ent[c])
  /\ \A p \in Closers : \A e \in closing[p] : FreeOrTalked(e)
  /\ rpc = "sweep" => \A k \in todo : FreeOrDialled(pool[k])
  /\ rpc = "drop" => stale # {} /\ \A e \in stale : FreeOrTalked(e)

\* How many steps a call still has at most: those of its attempt, and those of
\* a whole second one while it is in its first.
StepsLeft == [idle |-> 10, lookup |-> 9, enter |-> 8, dial |-> 7, send |-> 6, wait |-> 5,
              answering |-> 4, failing |-> 4, unlink |-> 3, evict |-> 2, close |-> 1,
              answered |-> 0, failed |-> 0]
Left(c) == StepsLeft[pc[c]] + 9 * (2 - attempt[c])

\* CallTool: one retry.  Whatever evictions, sweeps and closers take from it, a
\* call only moves nearer to its end: no two calls that evict what the other
\* dialled keep one another going round.
CallsGetOn ==
  [][\A c \in Calls : pc'[c] # pc[c] \/ attempt'[c] # attempt[c] => Left(c)' < Left(c)]_vars

\* Close: no caller puts an entry back in the map once the client is closed.
NoEntryAfterClose == shut # {} => \A k \in Keys : pool[k] = 0

\* Every connection the client has open is held by an entry, or is the own
\* connection of a call without a key that is using it right now.
OpenSessionsOwned ==
  \A s \in open :
    \/ \E e \in Entries : held[e] = s
    \/ \E c \in Calls : Ephemeral(c) /\ pc[c] \in {"send", "wait"} /\ sess[c] = s

(***************************************************************************)
(* The invariant behind Isolation and AtMostOnce.                          *)
(***************************************************************************)
At(c, labels) == pc[c] \in labels

\* A key reaches an entry through the map or through a call that looked the
\* entry up; a caller reaches a session through such an entry, as its own
\* session, by a request under way or by the bearer bound to it.
Reaches(k, e) == pool[k] = e \/ \E c \in Calls : ent[c] = e /\ Key(c) = k

Touches(i, s) ==
  \/ i \in Keys /\ \E e \in Entries : held[e] = s /\ Reaches(i, e)
  \/ \E c \in Calls : sess[c] = s /\ Caller(c) = i
  \/ \E m \in sent : m.session = s /\ Caller(m.call) = i
  \/ bound[s] = i

\* No two keys reach one entry, no two callers touch one session.
EntriesApart == \A e \in Entries, k, l \in Keys : Reaches(k, e) /\ Reaches(l, e) => k = l
SessionsApart ==
  \A s \in Sessions, i, j \in Identities \ {Nobody} : Touches(i, s) /\ Touches(j, s) => i = j

\* What a call's program counter says of its locals.
Locals ==
  \A c \in Calls :
    /\ At(c, {"idle"}) => /\ attempt[c] = 1 /\ ent[c] = 0 /\ sess[c] = 0
                        /\ \A m \in sent : m.call # c
    /\ At(c, {"lookup", "enter", "unlink", "evict", "close"}) => ~Ephemeral(c)
    /\ At(c, {"answering", "failing"}) => Ephemeral(c)
    /\ At(c, {"unlink", "evict", "close"}) => attempt[c] = 1 /\ Idempotent(c)
    /\ At(c, {"enter", "evict", "close"}) => ent[c] # 0
    /\ At(c, {"dial"}) /\ ~Ephemeral(c) => ent[c] # 0
    /\ At(c, {"send", "wait"}) => sess[c] # 0
    /\ attempt[c] # 1 => Idempotent(c)
Visiting == rpc = "sweep" => \A k \in todo : pool[k] # 0

\* Entries and sessions that do not exist yet are blank.
Blank ==
  /\ \A e \in Entries : e > nEntries => held[e] = 0
  /\ \A s \in Sessions : s > nSessions => bound[s] = Nobody

\* One request per attempt, and only for attempts begun.
OncePerAttempt ==
  /\ \A m \in sent : /\ m.attempt <= attempt[m.call]
                     /\ m.attempt = attempt[m.call]
                          => ~At(m.call, {"idle", "lookup", "enter", "dial", "send"})
  /\ \A m, n \in sent : m.call = n.call /\ m.attempt = n.attempt => m = n
  /\ \A r \in ran : r.msg \in sent
  /\ \A r, q \in ran : r.msg = q.msg => r = q

\* A call that has its answer and still closes its own session was run.
AnswerRan == \A c \in Calls : At(c, {"answering"}) => \E r \in ran : r.msg = Message(c)

\* The inductive invariant.
Typed == TypeOK /\ Locals /\ Visiting
Apart ==
  /\ Typed /\ Blank /\ EntriesApart /\ SessionsApart /\ OncePerAttempt /\ Isolation
  /\ AnswerRan

\* What HandedOutOpen and OpenSessionsOwned rest on: a session is held by one
\* entry, or is the own session of a call without a key; and who dials for an
\* entry, or closes its session, has its lock.
OwnersApart ==
  /\ \A e, f \in Entries : held[e] = held[f] /\ held[e] # 0 => e = f
  /\ \A c \in Calls : Ephemeral(c) /\ At(c, {"send", "wait"})
                        => \A e \in Entries : held[e] # sess[c]
HasLock ==
  \A c \in Calls :
    /\ At(c, {"dial"}) /\ ~Ephemeral(c) => lock[ent[c]] = c /\ held[ent[c]] = 0
    /\ At(c, {"close"}) => lock[ent[c]] = c
Owned == OwnersApart /\ HasLock /\ HandedOutOpen /\ OpenSessionsOwned

\* What HoldersTalk rests on: who is about to close an entry has taken it out of
\* the map, into which no entry returns; and closers have nothing to close
\* before they begin.
TakenOut ==
  /\ \A c \in Calls : At(c, {"evict", "close"}) => Unlinked(ent[c])
  /\ \A e \in stale : Unlinked(e)
  /\ \A p \in Closers : \A e \in closing[p] : Unlinked(e)
  /\ \A p \in Closers : closing[p] # {} => p \in shut

\* What RetryElsewhere rests on: once a call has evicted, the session of its
\* first attempt is out of its reach: an entry that still holds it is neither
\* in the map nor the one the call has found since.
OutOfReach(c, s) ==
  /\ ~Ephemeral(c) =>
       \A e \in Entries : held[e] = s => /\ pool[Key(c)] # e
                                         /\ At(c, {"enter", "dial"}) => ent[c] # e
  /\ At(c, {"send"}) => sess[c] # s
Elsewhere ==
  \A m \in sent :
    At(m.call, {"evict", "close"}) \/ m.attempt # attempt[m.call] => OutOfReach(m.call, m.session)

(***************************************************************************)
(* What the documentation says and the code does not do.                   *)
(***************************************************************************)
Using(c, s) == pc[c] \in {"send", "wait"} /\ sess[c] = s

\* doc.go: "Idle sessions are swept, so the pool tracks live tenants rather
\* than growing without bound": an open session no call uses is in the pool,
\* or someone is about to close it.
NoLeakedSession ==
  \A e \in Entries : held[e] # 0 =>
    \/ \E k \in Keys : pool[k] = e
    \/ \E c \in Calls : Using(c, held[e]) \/ (pc[c] \in {"evict", "close"} /\ ent[c] = e)
    \/ e \in stale
    \/ \E p \in Closers : e \in closing[p]

\* CallTimeout "bounds a single tool call": a call that only looks its entry
\* up, and has nothing to dial, gets on with it.
LookupNotHeldUp == \A c \in Calls : pc[c] = "lookup" ~> pc[c] # "lookup"

=============================================================================
