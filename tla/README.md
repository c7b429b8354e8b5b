# The perps agent, modelled, checked and proved

TLA+ modules for `svpchain-perps-agent`: the parts of the program in which
several things happen at once, or in which something read early is used late.
TLC checks them on small instances; TLAPS proves every safety property of
the passing runs, for instances of any size. Paths are relative to `src/`.

    tlc -workers 2 -config MCSessionPoolTenants.cfg MCSessionPool   # a run
    tlapm SessionPool_proofs.tla                                    # the proofs

`PROJECT.json` lists components, runs, mutants, hazards, findings and theorems,
and maps each definition to the lines that it models.

## 1. Inventory

The agent takes A2A requests over HTTP. A request names a skill and a tool, or
it is a question in plain text. Nearly every tool is served by a remote MCP
server, to which the agent passes the caller's identity. A question goes to a
language model, which calls the same tools. Two scripts stand beside the agent:
one deploys it, the other, `agent-register`, puts it on the chain.

| component | state | operations | talks to |
|---|---|---|---|
| MCP session pool, `internal/mcpclient` | map key → entry; per entry a lock, a session, `lastUsed`; `closed` | `CallTool`, `ListTools`, `Run`/`sweep`, `Close` | remote MCP server; callers are goroutines of the A2A server and of the planner |
| Planner, `internal/assistant` | the cached catalog and its lock; per question: transcript, records, deadline | `Ask`, `ensureCatalog`, `runTools`, `dispatch` | session pool, model provider |
| Model providers, `internal/assistant/provider_*.go` | a session's messages | `NewSession`, `Send` | HTTP APIs of the models |
| Executor and server, `internal/a2aserver` | the A2A library's tasks; none of its own | `Execute`, `Cancel`, `handle`, `Attach`, `StartFullFor` | registry, session pool through it |
| Registry and tool bridge, `internal/toolbridge` | map tool → operation, fixed at boot; cache of tool descriptions and its lock | `Lookup`, `DiffCatalog`, `list_tools`, `estimate_clearing_price`, `ask` | session pool, planner, estimate |
| Clearing estimate, `internal/marketdata` | the walk's sums | `EstimateClearing` | the order book it is given |
| Boot and shutdown, `internal/wire`, `cmd/svpchain-perps-agent` | the assembled `App`, a context, two goroutines | `Build`, `Run`, `Close`, `CheckCatalog` | all of the above |
| Registration, `cmd/agent-register`, `internal/agentchain` | one run's view of the chain | card, `ResolveAgent`, `Drift`, `Build…`, sign, broadcast | the chain; the served card |
| Chain transport, `internal/agentchain/rest.go` | none | queries, `Account`, `BroadcastSync` | a node's gateway |
| Owner key and signing, `internal/owner`, `cmd/owner-keygen` | a key file | `Generate`, `Load`, `SignTx` | registration |
| Deploy script, `scripts/deploy.sh` | images, ids and files, here and on the host | install, uninstall, register, key generation | docker, ssh, rsync |
| Payload signing, `internal/mcp` | none | encode, digest, sign | callers |
| Configuration, `internal/config` | none | parse, defaults | boot |

What is hard in each, and what makes it correct:

- **Session pool.** Two kinds of lock; one of them is held across dials and
  closes with no timeout, the other while waiting for the first. Calls, evictions,
  the sweep and two closers meet on one entry. Answers come late or never, the
  server restarts and forgets its sessions, and a call is made again. It is
  correct if nobody acts as somebody else, a transaction is never broadcast
  twice by a retry, no closed session is handed out, no connection is left
  without an owner, and calls return.
- **Planner.** Questions share one catalog, read by whichever comes first. One
  turn's tools finish in any order, the deadline may pass in any state, and the
  bounds are compared between turns. It is correct if no withheld tool is
  called, results answer the calls they follow, the bounds hold, the records
  cover what was done, and questions end.
- **Registration.** Every query answers about a moment that has passed. The
  transaction waits in a mempool, its reply may be lost, other transactions
  come between, a deploy may change the card. It is correct if what takes
  effect is what the run wanted, names the URL of its own card, and never takes
  a price away.
- **Clearing estimate.** No concurrency; order, sign, rounding and the
  boundary at which an order just fits or just does not.
- **Executor and server.** `Cancel` runs beside `Execute`, and says a task is
  canceled that goes on to do its work; a reader may go away in the middle. It
  is correct if only what was asked for runs, as whoever asked, and whoever
  waits is answered.
- **Registry.** Its table is compared with the server's at boot and not again, and
  the server may be redeployed any time after it was read. Every `list_tools` waits for one lock, held across a fetch. It is correct if
  the card offers what can be had, the agent starts when it may, and a fetch
  that fails is nobody else's failure.
- **Boot and shutdown.** The HTTP server and the sweep end each other; main
  waits for one of them on one path and for both on the other, and one of them
  waits for locks that calls hold. It is correct if the process ends when told to,
  as far as the server lets it.
- **Deploy.** Any step may fail and leave the host half-way; the next install
  believes the marks that the last one left. It is correct if "Done" means that
  the wanted image and configuration run, and if no funded key is ever lost.

`hazards` in `PROJECT.json` has each of these at its line, with the properties
that watch over it, or the reason why none does.

## 2. The modules

| module | models |
|---|---|
| `SessionPool` | `client.go`: the pool, its callers, its sweep, its closers, and the remote server |
| `ToolCalls` | what a caller of the pool is promised, with no pool in it |
| `SessionPoolRefines` | the refinement mapping from the first to the second |
| `Agent` | the process around the pool: main, its context and its two goroutines |
| `Planner` | `assistant.go` and `catalog.go`, with the transcript of a provider's session |
| `Serve` | the registry and the card, the check at boot, and the executor's tasks |
| `Registration` | `agent-register` and `agentchain`, with the chain |
| `Deploy` | `deploy.sh` and `owner-keygen`, with the host |
| `Clearing` | `estimate.go` and `auction.go` |
| `…_proofs` | the theorems about each, those about the refinement in `SessionPool_proofs` |
| `SumTheorems` | what `Clearing_proofs` needs to know of sums over finite sets |
| `MC…` | instances for TLC: requests, books, symmetry |

In each, definitions named `X_Y` after a "Variant" comment are what a plausible
bug would make of `X`. Nothing uses them; each property is shown to fail when
one takes the place of `X`.

How they fit together: `Agent` extends `SessionPool` and only restricts when its
actions may happen, so that it is one more user of the same pool. `Planner` and
`Serve` see a tool call as one step that ends, with a result or an error: when
it does is `CallsReturn` of `Agent`, and who it runs as is `Isolation`. `Serve` sees a
question as one such operation: `AsksEnd` of `Planner`. All three are conditional: see
the fairness below. `Deploy` puts the process
there that `Agent` models, and serves the card that `Registration` fetches.

### SessionPool

A step is what happens between two points at which a goroutine may be stopped:
a section under `c.mu` that does not block is one step. The two locks that are
held while their holder waits are state. `lock[e]` is `e.mu`, held by a call across
a dial, and by a call, by Run's goroutine (`"run"`) or by main's (`"app"`) across the
close of the entry's session; `rpc = "sweep"` is `c.mu`, while the sweep waits for an
entry. A dial and a close are exchanges with the server, begun in one step and over
in another, or never. A session takes no more calls from the step on in which its
close begins.

| action | code | |
|---|---|---|
| `Arrive` | `CallTool`, 165-171, and the key of `callOnce` | picks a request: bearer, conversation, kind of tool |
| `Lookup` | `sessionFor`, 264-275 | under `c.mu`: find or make the entry; refused when closed |
| `Enter` | `sessionFor`, 277-284 | takes `e.mu`; reuses the session, or goes to dial with the lock held |
| `DialOk`, `DialFail` | 284-300, and 198-209 for a call with no key | |
| `Send`, `Return` | `callOnce`, 211-224 | the request leaves; an answer, an error or the timeout |
| `Leave` | the deferred `Close` of 203 | a call with no key has closed its own session, and returns |
| `Unlink`, `Evict`, `Evicted` | `evict`, 302-321 | takes the key's entry out of the map, then takes its lock and begins to close its session; the close is over, the entry empty, the lock free |
| `Again`, `FailAttempt` | `CallTool`, 171-184 | one more attempt for an idempotent tool |
| `SweepBegin` … `SweepUnlock` | `Run` and `sweep`, 323-354 | visits each entry under both locks and unlinks the idle |
| `SweepDrop`, `SweepDropped` | `sweep`, 356-363 | without `c.mu`, begins and ends the close of each, one at a time |
| `CloseBegin`, `CloseEntry`, `ClosedEntry` | `Close`, 366-383 | by `Run` when its context ends, and by `App.Close`: takes the map, then closes one entry after the other |
| `Resolve`, `Execute`, `Restart` | the server, external | runs any request sent and not yet run, whether the caller still waits or not |

Time appears in two places. An entry in `recent` was used within `IdleTimeout`;
`Age` takes it out, and may not while a call that uses the entry is under way,
for `CallTimeout` is 30 s and `IdleTimeout` 10 min. The timeout of a call is
`Return` with an error, in any state of the server.

`ToolCalls` says of a call only that it is accepted with a limit of one or two
runs, runs, and ends: answered only if it ran, never beyond the limit, never as
anyone but its caller or nobody.

### Agent

`Build` makes the app or fails; then one goroutine serves (`serve`), the other
sweeps and, once the context is done, closes the pool (`RunCloses`). `SelectServe`
and `SelectRun` are the two cases of `StartFullFor`'s select, `AwaitServe` the wait
that only the second has, `AppCloses` the deferred `App.Close`, and `Exit` the
return of main. `Signal` and `ServeFails` may come at any time. Whatever the pool
does happens only while there is a process; what was sent may run without it.

### Planner

`Begin`, `Lock` and `Load` are `Ask` up to the catalog; `Send` and `Reply` a
provider's `Send`, before and after the model is heard; `RunTool` one goroutine
of `runTools`, and `Join` its `wg.Wait` and the end of the round. `Expire` is the
deadline. The provider is chosen once: `openai` puts a system message first and
one message for each result, `anthropic` one message for all results of a turn.

### Serve

Booting takes three steps, as in the code: `Start` is `wire.Build` as far as the
registry, `CheckCatalog` the moment in which the server lists its tools, and what the
process makes of them, and `ComeUp` is `StartFullFor`, the card and the listening.
The server may be redeployed between any two of them; `read` remembers which edition
was checked. `BootFails` is a catalog that cannot be read or a port that is taken; the
process ends, and docker starts it again. A task is
`Receive`d, `Announce`s itself twice, `Handle`s its request and `Answer`s; `Operation`,
`Dispatches` and `Attach` are the decisions of `asAssistantQuestion`, `handle` and
`Attach`. `LockInfo`, `FetchOk` and `FetchFail` are `useRemoteToolInfo`, `Return` any
other operation. `Cancel` changes nothing but what the reader was told; after `Leave`
an event ends the task. `Redeploy` gives the server other tools or other prose, `Stop`
takes the process and all it had in memory.

### Registration

`Begin` fetches the card and compares its URL (`Agrees`), `Owned` and `Index` are
`ResolveAgent`'s two queries, `Bond` is `resolveBond`, `Account` reads the sequence,
and `Broadcast` hands the signed transaction to `CheckTx`. `Abort` is a query that
failed, or `-dry-run`. `Deliver` is a block, which may reject what `CheckTx` took.
`Foreign` is the owner's own update, `Deploy` a new card. `patient`, chosen once, says
whether the operator waits for one run and its transaction before anything else
of the owner's is sent.

### Deploy

An install goes `Build`, `Save`, `Mark` (the id beside the tar), `Clear`, `ShipFiles`,
`ShipTar`, `Load`, `Recreate`, `Up`, `Smoke`; `Fail` ends it between any two of them,
and `ShipFiles` may put some of the files only. Two images may share a name, as two
builds of one commit do. `Restart` is docker's: the file that is mounted is read
again, image and environment stay. `Check`, `Create`, `Write`, `Rewrite` and `Move`
are `--gen-owner-key` with `owner-keygen` inside, `Interrupt` its end anywhere;
several may run at once, and beside an install. A config that names a missing key file
stops no mode in the model: `source` is run under `||` (258), where no `set -e` holds, and
only the status of the file's last line counts.

### Clearing

`Read` is the tool's read of the book, `Sort` everything before the loop, `Walk`
one round, `Finish` the record returned. Numbers are integers in a fine enough
unit; quotients are printed by `ratString`, to `1/Steps`, halves away from
zero, as `FloatString` does. The code prints 18 decimals; the model any number
of them in the proofs, and halves in the run, where rounding shows most.

## 3. The runs

Twelve; the first eight pass, each property with a mutant that it catches.

| run | distinct states | shows |
|---|---|---|
| `MCSessionPoolTenants` | 2,910,713 | `AtMostOnce`, `RetryElsewhere`, `HandedOutOpen`, `HoldersTalk`, `KeepsPromise`: two calls of one tenant, reads and broadcasts, a restart, a sweep, a closer |
| `MCSessionPoolCallers` | 6,233,242 | `Isolation`, `OpenSessionsOwned`, `NoEntryAfterClose`: five kinds of caller, a restart, both closers |
| `MCAgentStops` | 39,179 | `ATypeOK` (the pool's `TypeOK` with it), and if no dial or close hangs, `ExitComes` and `CallsReturn`: a signal or a failure, anywhere in two calls and a sweep |
| `MCPlannerAsks` | 378,498 | `TypeOK`, `Boundary`, `AnswersInOrder`, `OvershootBounded`, `Audited`, `LoadedOnce`, `AsksGetOn`, `AsksEnd`: two questions and one catalog, either provider |
| `MCServeTasks` | 232,962 | `TypeOK`, `OnlyAsAsked`, `OwnFailureOnly`, `NoLyingCard`, `StartsWhenServed`, `TasksAnswered`: every form of request beside a `list_tools` |
| `MCRegistrationRuns` | 1,770,912 | `TypeOK`, `PriceKept`, `PointsToItself`, `OneAgent`, `EffectIsWanted`, `PatientLeavesPrice`: two runs, a foreign update, a deploy |
| `MCDeployInstalls` | 1,969,515 | `TypeOK`, `DoneRunsWanted`, `FundedKeyKept`, `ConfigNamesWholeKey`: three installs, each of which may fail, and two key generations |
| `MCClearingBooks` | 460,556 | `TypeOK`, `BestFill`, `ThinBookTold`, `WorstIsMarginal`, `SlippageCosts` |
| `MCSessionPoolLeak`, `MCSessionPoolHeldUp`, `MCPlannerText`, `MCRegistrationLostPrice` | | one comment of the code each, which the code does not keep: section 5 |

**Bounds, and why they are enough.**

- *Pool*: two calls make every pair of steps meet, and each has two attempts.
  Three entries and three sessions are one more than two calls need at once, so that
  each call can come back to a new entry and a new session while the other's old ones
  are still there; four of each would be as many as two calls of two attempts can ever
  make, and where the bound bites, a dial fails, as it always may, or a call waits at
  `Lookup`. In `MCSessionPoolTenants` one closer, Run's goroutine, is enough, for main's
  takes the same steps; `MCSessionPoolCallers` has both. In `MCAgentStops` `MaxSessions`
  is 1: later dials fail, and each path out of `dial` is still taken. One sweep meets
  every state of both calls; one restart is the first to forget a session, and a second
  does what the first did. `MCAgentStops` has no restart: to a caller it is an error,
  which a call may meet anyway. Of its calls one broadcasts for a tenant, and the other
  may be a read of nobody's.
- *Planner*: three turns (first, middle, last), two calls a turn, which may finish
  in either order, and a bound of two calls, which a turn can meet exactly or cross.
- *Serve*: one task of any request, one that lists; one proxied tool and one that
  only the server knows; two editions of the server and one stop, so that a cache
  can be older than what it caches, and a new process can find it gone.
- *Registration*: two runs are the fewest that can be stale to one another.
- *Deploy*: three images, two of which share a name, and three installs: one that
  leaves a mark, one that leaves another, and one that believes both.
- *Clearing*: books of three levels are the fewest with a level before, at and after
  the one that completes the order; prices and sizes include zero and a malformed
  string, repeat, and come unsorted, and sizes are met exactly, fallen short of and
  exceeded.

Symmetry permutes only what the module does not tell apart, and no run with a
liveness property uses it. Deadlock is checked in all runs: each module says
with `Over`, `Stopped`, `Gone`, `Idle` or `Rest` when there is nothing left to do.

**Fairness, and why the code justifies it.** A goroutine that could go on again and
again goes on at last: Go schedules its goroutines, and a `sync.Mutex` in starvation
mode goes to its longest waiter, hence strong fairness for steps that wait for a
lock. In detail:

- *Fair*: a tool call that was sent ends, for `callOnce` puts a timeout on it; the deadline
  of a question comes (`context.WithTimeout`), and ends a request to the model; docker
  restarts a process until it stays up; whoever waits for a lock that is free again and
  again gets it at last.
- *Not fair*, because nothing in the code ends them: a dial (`connect`, 292-300), the close of
  a session (203, 318, 359, 378; it takes no context), hence a tool call as the planner
  and the executor see it, for it waits for the pool's locks without its context; the
  planner's reading of the catalog and the fetch of `list_tools`; `CheckCatalog`, whose 30 s
  do not bound the close at its end. `MCSessionPoolHeldUp` shows what
  comes of that: a call that never ends.
- *Need not happen at all*: signals, failures, requests, `Age`, sweeps, redeployments.

So the properties of the form "it ends" say what they assume of the server, in the
property itself and not in the fairness: `ExitComes` and `CallsReturn` that each goroutine
is out of its exchange again and again (`ExchangesEnd`), `AsksEnd` and `TasksAnswered` that
no question and no task stays away for ever (`Away`), `StartsWhenServed` that each reading of
the catalog ends and that, from some time on, none fails. What they do show is that the
agent adds no waiting of its own: no lock kept, no wakeup lost, no reader forgotten.

## 4. The proofs

They hold for every value of the constants that meets the modules' assumptions,
which are weak: `None` is no name, the bounds are numbers, withheld tools are not
among those served to the planner, a malformed string is no number, a tool of the
agent's own is not a proxied one, each image has a name.

| theorem | property | |
|---|---|---|
| `TypeCorrect`, `AgentTyped`, `PlannerTyped`, `ServeTyped`, `RegistrationTyped`, `DeployTyped`, `ClearingTyped` | `TypeOK`, `ATypeOK` | of each module |
| `ApartAlways` | | the pool's first inductive invariant |
| `IsolationHolds` | `Isolation` | nobody acts as somebody else |
| `AtMostOnceHolds` | `AtMostOnce` | a broadcast runs at most once |
| `OwnedAlways`, `HandedOutStaysOpen` | `OpenSessionsOwned`, `HandedOutOpen` | no open session is without a holder, no entry offers a closed one |
| `HoldersOnlyTalk` | `HoldersTalk` | who holds an entry's lock dials for it, or closes its session once it is out of the map, and waits for no lock |
| `CallsAlwaysGetOn` | | `CallsGetOn`: a call takes at most nineteen steps |
| `NobodyWaitsInACircle` | | `NoCircle`: calls and closers wait for nobody but who talks to the server, the sweep with the map's lock for nobody but calls that dial |
| `NoEntryComesBack` | `NoEntryAfterClose` | |
| `RetriesElsewhere` | `RetryElsewhere` | |
| `PoolKeepsPromise` | `KeepsPromise` | the pool implements `ToolCalls` |
| `AgentUsesThePool` | | the process implements `SessionPool` |
| `AgentKeepsCallersApart`, `AgentKeepsThePoolSound`, `AgentKeepsPromise` | `KeepsPromise` | hence all of the above hold in it, to its end |
| `BoundaryHolds` | `Boundary` | no withheld tool is called |
| `AnswersComeInOrder` | `AnswersInOrder` | |
| `TurnsAreBounded`, `OvershootIsBounded` | `OvershootBounded` | at most `MaxIterations` turns; the calls past their bound are fewer than a reply's |
| `AsksAlwaysGetOn` | `AsksGetOn` | three steps before the first turn, three in each of `MaxIterations` turns at most |
| `AsksNeverStuck`, `TasksNeverStuck` | | `NeverStuck` of `Planner` and of `Serve`: who waits for a lock waits for somebody who gets on |
| `AuditedAlways` | `Audited` | |
| `CatalogLoadedOnce` | `LoadedOnce` | |
| `AsAskedOnly` | `OnlyAsAsked` | nothing runs but what its sender asked for |
| `FailureIsOwn` | `OwnFailureOnly` | |
| `CardNeverLies` | `NoLyingCard` | no tool on the card is unregistered, nor, until the server is redeployed, unserved |
| `ConsistentAlways` | | the registration's inductive invariant |
| `PriceIsKept`, `RecordsPointToThemselves` | `PriceKept`, `PointsToItself` | |
| `EffectLeavesNoDrift` | `EffectIsWanted` | |
| `OneAgentIfPatient`, `PriceLeftAloneIfPatient` | `OneAgent`, `PatientLeavesPrice` | what a patient operator can count on |
| `InstalledAlways`, `WholeAlways` | | the inductive invariants of installs and of key generations |
| `DoneIsWanted` | `DoneRunsWanted` | |
| `FundedKeyIsKept`, `ConfigNeverDangles` | `FundedKeyKept`, `ConfigNamesWholeKey` | |
| `WalkedAlways`, `ExhaustedAlways` | | the walk's loop invariants |
| `FillIsBest` | `BestFill` | no other way to fill as much is better |
| `ThinBookAlwaysTold`, `WorstIsAlwaysMarginal` | `ThinBookTold`, `WorstIsMarginal` | |
| `SlippageAlwaysCosts` | `SlippageCosts` | |

**Who is kept apart** (`Apart`). `Isolation` speaks of what has run, and is not inductive: one
must know what could still run. A request under way runs as the bearer bound to
its session, so a session must belong to one caller; it is reached through an
entry, so an entry must belong to one key; and an entry is reached through the
map *or* through a call that looked it up before it was taken out. `Reaches` and
`Touches` collect these ways, `EntriesApart` and `SessionsApart` say that each has
one owner. `Locals` says what a call's place in the code tells of its variables.
A step can make an entry or a session only for its own key, and everything else moves
what its owner reached already. `AtMostOnce` is the conjunction of `OncePerAttempt`
(one request an attempt, one run a request) and of `attempt # 1 => Idempotent`.
`AnswerRan` keeps, for a call that has its answer and still closes its own session, that it
was run.

**Who closes what** (`Owned`, `Elsewhere`). A session is closed by whoever clears the
entry that holds it, or by the call whose own it is; so at most one of them may
hold it (`OwnersApart`), and while a call dials, it holds the entry's lock and the
entry holds nothing; while it closes, it holds the lock (`HasLock`). For the second attempt one must know that the
session of the first is out of reach (`OutOfReach`) once the eviction is over: a
read evicts *whatever* the key has, but the first attempt's session was in that entry
or in one that is gone already.

**What is proved of ending.** Liveness itself is out of reach, but what it rests on in the
state is not. A call (a question) that takes a step comes nearer to its end, as a count of the steps
left says (`CallsGetOn`, `AsksGetOn`): no eviction, retry or reply of a model makes it go
round. And nobody waits in a circle. Whoever
holds an entry's lock is in an exchange with the server for that entry and has no other
entry's lock (`HoldersTalk`, the converse of `HasLock`); and whoever closes, or is about to,
has taken the entry out of the map (`TakenOut`), into which no entry returns, so that the sweep,
which visits what is in the map, never waits with the map's lock behind a close. Hence every call,
closer and sweep that waits for an entry's lock waits for an entry that is free or whose holder
talks to the server, and a sweep that is to drop entries has one left (`NoCircle`), so that those who wait for
the map wait for no more than that. In the planner the lock is held by whoever reads the
catalog and by nobody else (`LockIsReaders`), and an empty place of `runTools` has a tool
that still runs, which follows from `Ordered`; in `Serve` whoever has the lock of the descriptions
fetches them in a process that is up (the two `NeverStuck`, for any number of questions and
tasks). What is left, to TLC, is that whoever can go on does; and to the server, that dials,
closes and fetches end. (`CallsGetOn`, `NoCircle` and `NeverStuck` are theorems only; the
others are checked by runs as well.)

**The refinement.** A call that is under way has run as often as its attempts have
been executed, as its own caller or as nobody; `RoomToRun` says that a request not yet
executed leaves room under the limit. Every other step of the pool is a stutter.
The process implements the pool step by step, since its actions are the pool's
with a guard.

**The planner** (`Bounded`, `Reading`, `Accounted`, `Ordered`). The bounds follow from
`Counted`: tools run only in a turn that was not the last when it was sent, so that a
round can add at most one reply's calls to fewer than `MaxToolCalls`. `Boundary` needs that
the catalog never holds a withheld tool; `LoadedOnce`, that whoever reads it
holds the lock and nobody has read it before; `Audited`, that a call not yet recorded
belongs to the turn whose tools still run. For the order of the results, the transcript up
to a reply is settled and the reply itself is pending until `Send` settles it (`Pending`),
while every goroutine has written its own place and no other.

**Serving** (`Asked`). What a task may run is decided by its request, which does not
change once anything has run for it, and by the registry, which has the assistant only
where a model is configured. For the card (`Checked`): once the catalog was read, the registry is
what it was compared with, and if the edition is still the one read, so are the server's tools;
a redeployment makes a new edition, and the process that stops forgets what it read.

**The registration** (`Consistent`, `PatientRuns`). What matters at the block was decided
when the message was composed. So the invariant speaks of what a run is about to
send (`Composed`) and of what is queued (`Queued`): a price, an endpoint of its card, and
no drift from what its run wants. `Drift` of `BuildUpdate` is empty for any record that
was read. If the operator waits, one run at a time meets a chain with nothing queued, so
that what it read is still there when its transaction comes to be executed (`Alone`).

**An install** (`Installed`, `Whole`). Each step's mark implies the thing that it marks, from
`Marked` to `Composes`; the one mark that may lie is the id beside the tar, when a save was
torn, and the theorem says so. Of the key generations at most one is past `Exclusive`.

**The estimate** (`Walked`, `Exhausted`). The levels in order, what is filled plus what remains
is what was wanted, and the cost between touch and last price times the amount. `SlippageCosts`
follows as rounding is monotone, which a lemma proves by the division theorem. The other
three compare the walk with the whole book. `Exhausted` says that the levels are a permutation
of the liquid ones (`Enumerated`), and that each was taken whole but the last
(`Consumed`), so that size and cost are sums over a prefix of the levels (`SizeTo`, `CostTo`) and what
is left of its last one. That gives `ThinBookTold` and `WorstIsMarginal`. For `BestFill` any
other choice of amounts is compared with the walk's own (`Taken`), level by level: where it
takes more, the price is no better than the last; where less, no worse
(`NoBetterFill`).

`SumTheorems` has the facts about sums for that: a sum splits, is monotone, and is the same
over a permutation. The sums are the community module's `SumFunctionOnSet`, defined by recursion
over a set. The library's induction theorem takes a predicate as a parameter, which the provers
cannot instantiate; so the induction is over the *set* of those subsets for which a
claim fails: if there is one, there is a minimal one, for inclusion of finite sets is well-founded
(`MinimalSubset`).

**Checked by TLC only.** `CallsReturn`, `ExitComes`, `AsksEnd`, `StartsWhenServed` and `TasksAnswered`
are liveness, which needs fairness and `ENABLED`; both are out of this prover's reach. Every
safety property of the passing runs is proved. There are no recursive operators.

## 5. Where the code and its comments disagree

Each of these has a run that ends in a counterexample of the code's own making.

- **A leaked session** (`NoLeakedSession`; `client.go:264-289`). A call finds its
  entry, the sweep (an eviction, a shutdown) unlinks it, the call dials into it.
  The session is then open and nobody's: `doc.go:54` says the pool does not grow
  without bound.
- **Held up by another tenant** (`LookupNotHeldUp`; 284, 343). One endless dial
  holds an entry's lock, the sweep waits for it with the map's lock, and every
  call waits for the map before its `CallTimeout` has begun.
- **A notice between calls and results** (`TextFirst`; `assistant.go:193`). The
  budget notice goes out as a user message ahead of the results of the last calls.
- **A price put back** (`PriceLeftAlone`; `register.go:72-80`). An update without a
  price writes the price it read, over a newer one. `PatientLeavesPrice` shows
  that this takes a second writer.

Seen while modelling, in the code's nature, and without a run of their own:

- *Pool*: a read that fails evicts the session, its own timeout included, and with it
  what `auth_verify` bound (`client.go:179-182`; `a2aserver/auth.go:24-26` tells callers to count
  on it); two open sessions for one key after an eviction, though `client.go:81-83` says
  one; a dial after `Close` by a call that had its entry or needs none (366-367); a session
  closed while in use, when its entry went stale between lookup and use (342-363); the process
  exits with sessions still closing, when serving fails first (`server.go:50`); and it does not
  exit at all while main, closing the pool, waits for a lock that an endless dial or close holds
  (`wire.go:40`, `client.go:369`, 376), though `main.go:28-29` promises a "prompt exit rather than
  a killed process": hence the assumption in `ExitComes`.
- *Planner*: `MaxToolCalls` passed by up to one reply (`assistant.go:39-40`; `OvershootBounded` gives
  the exact bound); a deadline that is an error though `doc.go:51-54` says otherwise; with
  `MaxIterations` 1, a first turn that is the last, whose notice takes the question's place.
- *Serve*: the server may be redeployed between the check and the card's being served, or later,
  and the card then promises what nobody serves (`wire.go:64`; `NoLyingCard` says until when it
  does not); `Cancel` says canceled, and the task goes on and may answer as well; `list_tools` serves
  the prose of the server's first edition for as long as the process lives (`meta.go:87`); the
  old form of an envelope, with a query, is refused (`executor.go:108-116`), though `envelope.go:9`
  says that it "is still honored".
- *Registration*: two agents for one key when two runs overlap (`README.md:142`; `OneAgent` says
  when not); "submitted", printed for a transaction that `CheckTx` took and the block refused
  (`client.go:151-154`).
- *Deploy*: a crash between `docker save` and the writing of its id leaves the new image's tar
  beside the old one's id, and an install of the old image then ships the new one and says
  "Done" (`deploy.sh:636-638`; the exception in `DoneRunsWanted`); a config line that names a key
  file which is not there "fails the source" (725-726) only where it is the file's last, which it
  is not in the template; an `owner-keygen` that fails after
  creating the file leaves it empty, though `deploy.sh:778` says that it "was not written".

## 6. What is not modelled

Payload signing and the codecs (encodings with no state); configuration (parsed once: its bounds are
constants); the JSON and gRPC of the chain's gateway, of which only answer, failure and lost
reply are kept; the cryptography of keys; the providers' wire formats; of `deploy.sh` the modes that
print, `--dry-run`, the nginx block and the precedence of settings; the texts of the card and of
skills; the caller's address, which only the MCP server uses. A tool's arguments and results are
opaque everywhere. The agreement of the two tables of tools that may be repeated (`remote.go:59`)
is a comparison of two lists, which a test can make.

## 7. The plan, and what is left of it

Done: `SessionPool` with `ToolCalls` and the refinement; `Planner`; `Registration`; `Clearing`; `Serve`;
`Agent`, composed with the pool; `Deploy`; and proofs of every safety property.
Left: a composition of `Planner` with `SessionPool`, which would show in one module
what now follows from `CallsReturn`; and the transport's errors, if the code comes to act on them.
