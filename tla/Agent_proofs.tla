---------------------------- MODULE Agent_proofs ----------------------------
(***************************************************************************)
(* Proofs about Agent: what is proved of the session pool alone holds in   *)
(* the process that starts it, uses it and ends at any point.              *)
(***************************************************************************)
EXTENDS Agent, SessionPool_proofs

\* The process does nothing to the pool but what the pool can do, and ends
\* without touching it.
LEMMA StepOfThePool == [ANext]_avars => [Next]_vars
  <1> SUFFICES ASSUME [ANext]_avars PROVE Next \/ UNCHANGED vars
    OBVIOUS
  <1>1. CASE UNCHANGED avars
    BY <1>1 DEF avars
  <1>2. CASE Signal \/ Build \/ ServeFails \/ ServeStops \/ SelectServe \/ SelectRun \/ AwaitServe
             \/ Exit \/ Gone
    BY <1>2 DEF Signal, Build, ServeFails, ServeStops, SelectServe, SelectRun, AwaitServe, Exit,
                Gone, avars
  <1>3. CASE RunCloses \/ AppCloses
    BY <1>3, BothClose DEF RunCloses, AppCloses, Next
  <1>4. CASE \E c \in Calls : Requested(c) \/ CallGoesOn(c)
    BY <1>4 DEF Requested, CallGoesOn, Next
  <1>5. CASE Ticking \/ Sweeping
    BY <1>5 DEF Ticking, Sweeping, Next
  <1>6. CASE \E p \in Closers : Closing(p)
    BY <1>6 DEF Closing, Next
  <1>7. CASE Remote
    BY <1>7 DEF Remote, Next
  <1>8. QED
    BY <1>1, <1>2, <1>3, <1>4, <1>5, <1>6, <1>7 DEF ANext, MainStep

\* The process with its two goroutines is an implementation of the pool: every
\* behaviour of it is one of SessionPool's.
THEOREM AgentUsesThePool == ASpec => Spec
  <1>1. AInit => Init
    BY DEF AInit
  <1>2. QED
    BY <1>1, StepOfThePool, PTL DEF ASpec, Spec

\* Hence nobody acts as somebody else, and nothing that must not be repeated
\* runs twice, wherever the process stands when it is told to stop.
THEOREM AgentKeepsCallersApart == ASpec => [](Isolation /\ AtMostOnce)
  BY AgentUsesThePool, IsolationHolds, AtMostOnceHolds, PTL

\* To whoever calls a tool, the process is an implementation of ToolCalls, as
\* the pool is, up to the end of the process and past it.
THEOREM AgentKeepsPromise == ASpec => KeepsPromise
  BY AgentUsesThePool, PoolKeepsPromise, PTL

\* The rest of the pool's safety holds in the process too: no closed session is
\* handed out or open one without an owner; whoever holds an entry's lock is in a
\* dial or a close of that entry, so nobody waits in a circle; no retry repeats
\* its session, no call goes round for ever, no entry outlives a Close.
THEOREM AgentKeepsThePoolSound ==
  ASpec => /\ [](HandedOutOpen /\ OpenSessionsOwned /\ HoldersTalk)
           /\ [](NoEntryAfterClose /\ RetryElsewhere /\ NoCircle)
           /\ CallsGetOn
  BY AgentUsesThePool, OwnedAlways, HoldersOnlyTalk, NoEntryComesBack, RetriesElsewhere,
     NobodyWaitsInACircle, CallsAlwaysGetOn, PTL

\* Every variable of the process stays in its type.
THEOREM AgentTyped == ASpec => []ATypeOK
  <1> DEFINE ProcessTypes ==
        /\ main \in {"building", "select", "wait serve", "leaving", "exited"}
        /\ serve \in {"off", "on", "ended"} /\ cancelled \in BOOLEAN
  <1>1. AInit => ProcessTypes
    BY DEF AInit
  <1>2. ProcessTypes /\ [ANext]_avars => ProcessTypes'
    BY DEF ANext, MainStep, Signal, Build, ServeFails, ServeStops, SelectServe, SelectRun,
           AwaitServe, Exit, Gone, RunCloses, AppCloses, Requested, CallGoesOn, Alive, Ticking,
           Sweeping, Closing, Remote, avars, processVars
  <1>3. TypeOK /\ ProcessTypes => ATypeOK
    BY DEF ATypeOK
  <1>4. ASpec => []TypeOK
    BY AgentUsesThePool, TypeCorrect, PTL
  <1>5. QED
    BY <1>1, <1>2, <1>3, <1>4, PTL DEF ASpec

=============================================================================
