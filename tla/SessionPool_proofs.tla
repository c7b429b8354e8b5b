------------------------- MODULE SessionPool_proofs -------------------------
(***************************************************************************)
(* Proofs about SessionPool, for any number of calls, keys, sweeps and     *)
(* restarts: its invariants, and that it implements ToolCalls.             *)
(***************************************************************************)
EXTENDS SessionPoolRefines, FiniteSetTheorems, TLAPS

\* The assumptions on the constants that the proofs use.
LEMMA Constants ==
  /\ None \notin Names /\ None \notin Calls /\ None \notin Goroutines
  /\ Calls \cap Goroutines = {} /\ "run" \in Goroutines /\ Closers \subseteq Goroutines
  /\ \A c \in Calls : Requests[c] \subseteq Request
  /\ MaxEntries \in Nat /\ MaxSessions \in Nat
  BY NamesAssumption, RequestsAssumption, BoundsAssumption, ClosersAssumption DEF Goroutines

\* A request has a key in Keys or none, and never one that is also Nobody.
LEMMA KeyFacts ==
  ASSUME NEW r \in Request
  PROVE  /\ sessionKey(r) \in Keys \cup {NoKey}
         /\ NoKey \notin Keys
         /\ sessionKey(r) = NoKey <=> r.bearer = None /\ r.context = None
  BY Constants DEF Request, sessionKey, Keys, NoKey

\* A call with a key acts under that key; every caller is an identity.
LEMMA CallerFacts ==
  ASSUME NEW c \in Calls, req[c] \in Request
  PROVE  /\ Caller(c) \in Identities /\ Caller(c) # Nobody
         /\ ~Ephemeral(c) => Key(c) \in Keys /\ Caller(c) = Key(c)
         /\ Ephemeral(c) => Caller(c) = <<"call", c>> /\ Caller(c) \notin Keys
  BY Constants DEF Request, Caller, Ephemeral, Key, sessionKey, Keys, NoKey, Nobody, Identities

-----------------------------------------------------------------------------
(***************************************************************************)
(* Types and program counters.                                             *)
(***************************************************************************)

\* Nobody is among the identities that bound ranges over.
LEMMA NobodyIsIdentity == Nobody \in Identities
  BY DEF Identities

\* The initial state is well typed.
LEMMA TypedInit == Init => Typed
  <1> SUFFICES ASSUME Init PROVE Typed
    OBVIOUS
  <1>1. NoRequest \in Request
    BY DEF NoRequest, Request, Kinds
  <1>2. TypeOK
    <2>1. CallTypes
      BY <1>1 DEF Init, CallTypes, PCs
    <2>2. PoolTypes
      BY Constants DEF Init, PoolTypes, Entries
    <2>3. ServerTypes
      BY NobodyIsIdentity DEF Init, ServerTypes
    <2>4. JanitorTypes
      BY Constants DEF Init, JanitorTypes
    <2>5. QED
      BY <2>1, <2>2, <2>3, <2>4 DEF TypeOK
  <1>3. Locals /\ Visiting
    BY DEF Init, Locals, Visiting, At
  <1>4. QED
    BY <1>2, <1>3 DEF Typed

\* Beginning to close an entry's session, from whichever path, keeps the pool's
\* types, and so does finding that there is none.
LEMMA CloseStartTyped ==
  ASSUME PoolTypes, NEW e, NEW g \in Calls \cup Goroutines, CloseStart(e, g) \/ NothingToClose(e),
         UNCHANGED <<pool, nEntries, nSessions, held, recent>>
  PROVE  PoolTypes'
  BY DEF PoolTypes, CloseStart, NothingToClose

\* So does the end of the close.
LEMMA CloseEndTyped ==
  ASSUME PoolTypes, NEW e, CloseEnd(e), UNCHANGED <<pool, nEntries, nSessions, open, recent>>
  PROVE  PoolTypes'
  <1>1. 0 \in 0..nSessions
    BY Constants DEF PoolTypes
  <1>2. held' \in [Entries -> 0..nSessions]
    BY <1>1 DEF PoolTypes, CloseEnd
  <1>3. lock' \in [Entries -> Calls \cup Goroutines \cup {None}]
    BY DEF PoolTypes, CloseEnd
  <1>4. QED
    BY <1>2, <1>3 DEF PoolTypes

\* The server resolves a request to an identity.
LEMMA ResolveTyped ==
  ASSUME TypeOK, NEW m \in sent
  PROVE  Resolve(m) \in Identities /\ m.call \in Calls /\ m.session \in Sessions
  <1>1. m.call \in Calls /\ m.session \in Sessions
    BY Constants DEF TypeOK, ServerTypes, PoolTypes, Messages, Sessions
  <1>2. bound[m.session] \in Identities
    BY <1>1 DEF TypeOK, ServerTypes
  <1>3. req[m.call].bearer # None => <<"b", req[m.call].bearer>> \in Identities
    BY <1>1 DEF TypeOK, CallTypes, Request, Identities, Keys
  <1>4. QED
    BY <1>1, <1>2, <1>3 DEF Resolve

\* A call past its lookup, with a key, has an entry.
LEMMA EntryOf ==
  ASSUME TypeOK
  PROVE  /\ \A c \in Calls : ent[c] # 0 => ent[c] \in Entries /\ ent[c] \in 1..nEntries
         /\ \A k \in Keys : pool[k] # 0 => pool[k] \in Entries /\ pool[k] \in 1..nEntries
  BY Constants DEF TypeOK, CallTypes, PoolTypes, Entries

\* Every step preserves the types and what the program counters say.
LEMMA TypedStep == Typed /\ [Next]_vars => Typed'
  <1> SUFFICES ASSUME Typed, [Next]_vars PROVE Typed'
    OBVIOUS
  <1> USE DEF Typed, TypeOK, At
  <1>1. ASSUME NEW c \in Calls, Arrive(c) PROVE Typed'
    <2>1. CallTypes'
      BY <1>1, Constants DEF Arrive, Goto, Start, CallTypes, PCs, poolVars
    <2>2. Locals'
      <3>1. ASSUME NEW r \in Requests[c], req' = [req EXCEPT ![c] = r], Goto(c, Start(sessionKey(r)))
            PROVE  Locals'
        <4>1. pc'[c] \in {"dial", "lookup"} /\ (pc'[c] = "dial" <=> sessionKey(r) = NoKey)
          BY <3>1 DEF Goto, Start, CallTypes
        <4>2. req'[c] = r /\ UNCHANGED <<attempt, ent, sess, sent>>
          BY <1>1, <3>1 DEF Arrive, CallTypes, serverVars
        <4>3. \A d \in Calls \ {c} : pc'[d] = pc[d] /\ req'[d] = req[d]
          BY <3>1 DEF Goto
        <4>4. QED
          BY <1>1, <4>1, <4>2, <4>3 DEF Locals, Arrive, Ephemeral, Key, Idempotent
      <3>2. QED
        BY <1>1, <3>1 DEF Arrive
    <2>3. PoolTypes' /\ ServerTypes' /\ JanitorTypes' /\ Visiting'
      BY <1>1 DEF Arrive, PoolTypes, poolVars, serverVars, janitorVars, ServerTypes, Messages,
         JanitorTypes, Visiting
    <2>4. QED
      BY <2>1, <2>2, <2>3
  <1>2. ASSUME NEW c \in Calls, Lookup(c) PROVE Typed'
    <2>1. CallTypes'
      BY <1>2, CallerFacts DEF Lookup, Goto, FailAttempt, CallTypes, PCs, PoolTypes, Locals
    <2>2. PoolTypes'
      BY <1>2, Constants DEF Lookup, PoolTypes
    <2>3. JanitorTypes'
      BY <1>2 DEF Lookup, JanitorTypes, PoolTypes, janitorVars
    <2>4. Locals'
      BY <1>2, CallerFacts DEF Lookup, Goto, FailAttempt, Locals, Ephemeral, Key, Idempotent,
         CallTypes, PoolTypes, serverVars
    <2>5. Visiting'
      BY <1>2 DEF Lookup, MuFree, Visiting, janitorVars
    <2>6. ServerTypes'
      BY <1>2 DEF Lookup, ServerTypes, Messages, serverVars
    <2>7. QED
      BY <2>1, <2>2, <2>3, <2>4, <2>5, <2>6
  <1>3. ASSUME NEW c \in Calls, Enter(c) PROVE Typed'
    <2>1. CallTypes'
      BY <1>3, EntryOf DEF Enter, Goto, CallTypes, PCs, PoolTypes, Locals
    <2>2. PoolTypes'
      <3>1. ent[c] \in 1..nEntries
        BY <1>3, EntryOf DEF Enter, Locals
      <3>2. recent' \subseteq 1..nEntries
        BY <1>3, <3>1 DEF Enter, PoolTypes
      <3>3. lock' \in [Entries -> Calls \cup Goroutines \cup {None}]
        BY <1>3 DEF Enter, PoolTypes
      <3>4. QED
        BY <1>3, <3>2, <3>3 DEF Enter, PoolTypes
    <2>3. Locals'
      BY <1>3 DEF Enter, Goto, Locals, Ephemeral, Key, Idempotent, CallTypes, serverVars
    <2>4. ServerTypes' /\ JanitorTypes' /\ Visiting'
      BY <1>3 DEF Enter, ServerTypes, Messages, serverVars, janitorVars, JanitorTypes, Visiting
    <2>5. QED
      BY <2>1, <2>2, <2>3, <2>4
  <1>4. ASSUME NEW c \in Calls, DialOk(c) PROVE Typed'
    <2>1. CallTypes'
      BY <1>4 DEF DialOk, Goto, CallTypes, PCs, PoolTypes
    <2>2. PoolTypes'
      BY <1>4, Constants DEF DialOk, Unlock, Entries, PoolTypes, CallTypes, Locals
    <2>3. ServerTypes'
      <3>1. nSessions \in Nat /\ nSessions' = nSessions + 1 /\ alive' = alive \cup {nSessions + 1}
            /\ UNCHANGED <<bound, restarts, sent, ran>>
        BY <1>4, Constants DEF DialOk, PoolTypes
      <3>2. 1..nSessions \subseteq 1..nSessions' /\ nSessions + 1 \in 1..nSessions'
        BY <3>1
      <3>3. Messages \subseteq Messages'
        BY <3>2 DEF Messages
      <3>4. QED
        BY <3>1, <3>2, <3>3 DEF ServerTypes
    <2>4. Locals'
      BY <1>4 DEF DialOk, Goto, Locals, Ephemeral, Key, Idempotent, CallTypes, PoolTypes
    <2>5. JanitorTypes' /\ Visiting'
      BY <1>4 DEF DialOk, JanitorTypes, janitorVars, Visiting
    <2>6. QED
      BY <2>1, <2>2, <2>3, <2>4, <2>5
  <1>5. ASSUME NEW c \in Calls, DialFail(c) PROVE Typed'
    <2>1. CallTypes'
      BY <1>5 DEF DialFail, Goto, FailAttempt, CallTypes, PCs
    <2>2. PoolTypes'
      BY <1>5 DEF DialFail, Unlock, PoolTypes
    <2>3. Locals'
      BY <1>5 DEF DialFail, Goto, FailAttempt, Locals, Ephemeral, Key, Idempotent, serverVars
    <2>4. ServerTypes' /\ JanitorTypes' /\ Visiting'
      BY <1>5 DEF DialFail, ServerTypes, Messages, serverVars, janitorVars, JanitorTypes, Visiting
    <2>5. QED
      BY <2>1, <2>2, <2>3, <2>4
  <1>6. ASSUME NEW c \in Calls, Send(c) PROVE Typed'
    <2>1. CallTypes'
      BY <1>6 DEF Send, GiveUp, Goto, FailAttempt, CallTypes, PCs, poolVars
    <2>2. ServerTypes'
      BY <1>6 DEF Send, Message, ServerTypes, Messages, CallTypes, Locals, poolVars
    <2>3. Locals'
      BY <1>6 DEF Send, GiveUp, Goto, FailAttempt, Message, Locals, Ephemeral, Key, Idempotent,
         CallTypes
    <2>4. PoolTypes' /\ JanitorTypes' /\ Visiting'
      BY <1>6 DEF Send, PoolTypes, poolVars, janitorVars, JanitorTypes, Visiting
    <2>5. QED
      BY <2>1, <2>2, <2>3, <2>4
  <1>7. ASSUME NEW c \in Calls, Return(c) PROVE Typed'
    <2>1. CallTypes'
      BY <1>7 DEF Return, GiveUp, Goto, FailAttempt, CallTypes, PCs
    <2>2. PoolTypes'
      BY <1>7 DEF Return, CloseOwn, PoolTypes
    <2>3. Locals'
      BY <1>7 DEF Return, GiveUp, Goto, FailAttempt, Locals, Ephemeral, Key, Idempotent, CallTypes,
         serverVars
    <2>4. ServerTypes' /\ JanitorTypes' /\ Visiting'
      BY <1>7 DEF Return, ServerTypes, Messages, serverVars, janitorVars, JanitorTypes, Visiting
    <2>5. QED
      BY <2>1, <2>2, <2>3, <2>4
  <1>8. ASSUME NEW c \in Calls, Unlink(c) PROVE Typed'
    <2>1. CallTypes'
      BY <1>8, CallerFacts DEF Unlink, Goto, Again, CallTypes, PCs, PoolTypes, Locals
    <2>2. PoolTypes'
      BY <1>8 DEF Unlink, PoolTypes
    <2>3. Locals'
      BY <1>8 DEF Unlink, Goto, Again, Locals, Ephemeral, Key, Idempotent, CallTypes, serverVars
    <2>4. Visiting'
      BY <1>8 DEF Unlink, MuFree, Visiting, janitorVars
    <2>5. ServerTypes' /\ JanitorTypes'
      BY <1>8 DEF Unlink, ServerTypes, Messages, serverVars, janitorVars, JanitorTypes
    <2>6. QED
      BY <2>1, <2>2, <2>3, <2>4, <2>5
  <1>9. ASSUME NEW c \in Calls, Evict(c) PROVE Typed'
    <2>1. CallTypes'
      BY <1>9 DEF Evict, Goto, Again, CallTypes, PCs, Locals
    <2>2. PoolTypes'
      BY <1>9, CloseStartTyped DEF Evict
    <2>3. Locals'
      BY <1>9 DEF Evict, Goto, Again, Locals, Ephemeral, Key, Idempotent, CallTypes, serverVars
    <2>4. ServerTypes' /\ JanitorTypes' /\ Visiting'
      BY <1>9 DEF Evict, ServerTypes, Messages, serverVars, janitorVars, JanitorTypes, Visiting
    <2>5. QED
      BY <2>1, <2>2, <2>3, <2>4
  <1>10. ASSUME NEW m \in sent, Execute(m) PROVE Typed'
    <2>1. ServerTypes'
      <3>1. ran' \subseteq [msg : Messages, as : Identities]
        BY <1>10, ResolveTyped DEF Execute, ServerTypes
      <3>2. bound' \in [Sessions -> Identities]
        BY <1>10, ResolveTyped, CallerFacts DEF Execute, ServerTypes, CallTypes
      <3>3. QED
        BY <1>10, <3>1, <3>2 DEF Execute, ServerTypes, Messages, poolVars
    <2>2. CallTypes' /\ PoolTypes' /\ JanitorTypes' /\ Locals' /\ Visiting'
      BY <1>10 DEF Execute, CallTypes, Idempotent, PoolTypes, Locals, callVars, poolVars,
         janitorVars, JanitorTypes, Ephemeral, Key, Visiting
    <2>3. QED
      BY <2>1, <2>2
  <1>11. ASSUME Restart PROVE Typed'
    <2>1. ServerTypes'
      BY <1>11 DEF Restart, ServerTypes, Messages, poolVars
    <2>2. CallTypes' /\ PoolTypes' /\ JanitorTypes' /\ Locals' /\ Visiting'
      BY <1>11 DEF Restart, CallTypes, Idempotent, PoolTypes, Locals, callVars, poolVars,
         janitorVars, JanitorTypes, Ephemeral, Key, Visiting
    <2>3. QED
      BY <2>1, <2>2
  <1>12. ASSUME NEW k \in Keys, Age(k) PROVE Typed'
    <2>1. PoolTypes'
      BY <1>12 DEF Age, PoolTypes
    <2>2. CallTypes' /\ ServerTypes' /\ JanitorTypes' /\ Locals' /\ Visiting'
      BY <1>12 DEF Age, CallTypes, Idempotent, Locals, callVars, serverVars, janitorVars,
         ServerTypes, Messages, JanitorTypes, Ephemeral, Key, Visiting
    <2>3. QED
      BY <2>1, <2>2
  <1>13. ASSUME SweepBegin PROVE Typed'
    <2>1. JanitorTypes'
      BY <1>13 DEF SweepBegin, JanitorTypes, poolVars
    <2>2. Visiting'
      BY <1>13 DEF SweepBegin, Visiting, poolVars
    <2>3. CallTypes' /\ PoolTypes' /\ ServerTypes' /\ Locals'
      BY <1>13 DEF SweepBegin, CallTypes, Idempotent, PoolTypes, Locals, callVars, poolVars,
         serverVars, ServerTypes, Messages, Ephemeral, Key
    <2>4. QED
      BY <2>1, <2>2, <2>3
  <1>14. ASSUME SweepUnlock PROVE Typed'
    <2>1. JanitorTypes'
      BY <1>14 DEF SweepUnlock, JanitorTypes, poolVars
    <2>2. Visiting'
      BY <1>14 DEF SweepUnlock, Visiting
    <2>3. CallTypes' /\ PoolTypes' /\ ServerTypes' /\ Locals'
      BY <1>14 DEF SweepUnlock, CallTypes, Idempotent, PoolTypes, Locals, callVars, poolVars,
         serverVars, ServerTypes, Messages, Ephemeral, Key
    <2>4. QED
      BY <2>1, <2>2, <2>3
  <1>15. ASSUME NEW k \in todo, SweepVisit(k) PROVE Typed'
    <2>1. PoolTypes'
      BY <1>15 DEF SweepVisit, PoolTypes
    <2>2. JanitorTypes'
      BY <1>15, EntryOf DEF SweepVisit, Visiting, JanitorTypes
    <2>3. Visiting'
      BY <1>15 DEF SweepVisit, Visiting, JanitorTypes, PoolTypes
    <2>4. CallTypes' /\ ServerTypes' /\ Locals'
      BY <1>15 DEF SweepVisit, CallTypes, Idempotent, Locals, callVars, serverVars, ServerTypes,
         Messages, Ephemeral, Key
    <2>5. QED
      BY <2>1, <2>2, <2>3, <2>4
  <1>16. ASSUME NEW e \in stale, SweepDrop(e) PROVE Typed'
    <2>1. PoolTypes'
      BY <1>16, Constants, CloseStartTyped DEF SweepDrop
    <2>2. JanitorTypes'
      BY <1>16 DEF SweepDrop, Dropped, JanitorTypes
    <2>3. CallTypes' /\ ServerTypes' /\ Locals' /\ Visiting'
      BY <1>16 DEF SweepDrop, Dropped, CallTypes, Idempotent, Locals, callVars, serverVars, ServerTypes,
         Messages, Ephemeral, Key, Visiting
    <2>4. QED
      BY <2>1, <2>2, <2>3
  <1>17. ASSUME NEW p \in Closers, CloseBegin(p) PROVE Typed'
    <2>1. PoolTypes'
      BY <1>17 DEF CloseBegin, PoolTypes
    <2>2. JanitorTypes'
      BY <1>17 DEF CloseBegin, JanitorTypes, PoolTypes
    <2>3. Visiting'
      BY <1>17 DEF CloseBegin, MuFree, Visiting
    <2>4. CallTypes' /\ ServerTypes' /\ Locals'
      BY <1>17 DEF CloseBegin, CallTypes, Idempotent, Locals, callVars, serverVars, ServerTypes,
         Messages, Ephemeral, Key
    <2>5. QED
      BY <2>1, <2>2, <2>3, <2>4
  <1>18. ASSUME NEW p \in Closers, NEW e \in closing[p], CloseEntry(p, e) PROVE Typed'
    <2>1. PoolTypes'
      BY <1>18, Constants, CloseStartTyped DEF CloseEntry
    <2>2. JanitorTypes'
      BY <1>18 DEF CloseEntry, DoneWith, JanitorTypes
    <2>3. CallTypes' /\ ServerTypes' /\ Locals' /\ Visiting'
      BY <1>18 DEF CloseEntry, CallTypes, Idempotent, Locals, callVars, serverVars, ServerTypes,
         Messages, Ephemeral, Key, Visiting
    <2>4. QED
      BY <2>1, <2>2, <2>3
  <1>19. ASSUME NEW c \in Calls, Leave(c) PROVE Typed'
    <2>1. CallTypes'
      BY <1>19 DEF Leave, Goto, FailAttempt, CallTypes, PCs, poolVars
    <2>2. Locals'
      BY <1>19 DEF Leave, Goto, FailAttempt, Locals, Ephemeral, Key, Idempotent, CallTypes,
         serverVars
    <2>3. PoolTypes' /\ ServerTypes' /\ JanitorTypes' /\ Visiting'
      BY <1>19 DEF Leave, PoolTypes, poolVars, ServerTypes, Messages, serverVars, janitorVars,
         JanitorTypes, Visiting
    <2>4. QED
      BY <2>1, <2>2, <2>3
  <1>20. ASSUME NEW c \in Calls, Evicted(c) PROVE Typed'
    <2>1. CallTypes'
      BY <1>20 DEF Evicted, Goto, Again, CallTypes, PCs, Locals
    <2>2. PoolTypes'
      BY <1>20, CloseEndTyped DEF Evicted
    <2>3. Locals'
      BY <1>20 DEF Evicted, Goto, Again, Locals, Ephemeral, Key, Idempotent, CallTypes, serverVars
    <2>4. ServerTypes' /\ JanitorTypes' /\ Visiting'
      BY <1>20 DEF Evicted, ServerTypes, Messages, serverVars, janitorVars, JanitorTypes, Visiting
    <2>5. QED
      BY <2>1, <2>2, <2>3, <2>4
  <1>21. ASSUME NEW e \in stale, SweepDropped(e) PROVE Typed'
    <2>1. PoolTypes'
      BY <1>21, CloseEndTyped DEF SweepDropped
    <2>2. JanitorTypes'
      BY <1>21 DEF SweepDropped, Dropped, JanitorTypes
    <2>3. CallTypes' /\ ServerTypes' /\ Locals' /\ Visiting'
      BY <1>21 DEF SweepDropped, Dropped, CallTypes, Idempotent, Locals, callVars, serverVars,
         ServerTypes, Messages, Ephemeral, Key, Visiting
    <2>4. QED
      BY <2>1, <2>2, <2>3
  <1>22. ASSUME NEW p \in Closers, NEW e \in closing[p], ClosedEntry(p, e) PROVE Typed'
    <2>1. PoolTypes'
      BY <1>22, CloseEndTyped DEF ClosedEntry
    <2>2. JanitorTypes'
      BY <1>22 DEF ClosedEntry, DoneWith, JanitorTypes
    <2>3. CallTypes' /\ ServerTypes' /\ Locals' /\ Visiting'
      BY <1>22 DEF ClosedEntry, CallTypes, Idempotent, Locals, callVars, serverVars, ServerTypes,
         Messages, Ephemeral, Key, Visiting
    <2>4. QED
      BY <2>1, <2>2, <2>3
  <1>23. CASE UNCHANGED vars
    BY <1>23 DEF vars, callVars, poolVars, serverVars, janitorVars, CallTypes, PoolTypes,
       ServerTypes, JanitorTypes, Locals, Visiting, Messages, Ephemeral, Key, Idempotent
  <1>24. QED
    BY <1>1, <1>2, <1>3, <1>4, <1>5, <1>6, <1>7, <1>8, <1>9, <1>10, <1>11, <1>12, <1>13, <1>14,
       <1>15, <1>16, <1>17, <1>18, <1>19, <1>20, <1>21, <1>22, <1>23
       DEF Next, CallStep, SweepStep, SweepProgress, CloseStep, Over

-----------------------------------------------------------------------------
(***************************************************************************)
(* No two keys reach one entry.                                            *)
(***************************************************************************)

\* What a step does to the relation between keys and entries: it only takes
\* pairs away, or adds the looking-up call's own key to a new entry.
LEMMA ReachesArrive ==
  ASSUME Typed, NEW c \in Calls, Arrive(c), NEW e \in Entries, NEW k \in Keys, Reaches(k, e)'
  PROVE  Reaches(k, e)
  <1>1. ent[c] = 0 /\ ent[c] # e
    BY DEF Typed, Locals, Arrive, At, Entries
  <1>2. \A d \in Calls \ {c} : Key(d)' = Key(d)
    BY DEF Arrive, Key, Typed, TypeOK, CallTypes
  <1>3. QED
    BY <1>1, <1>2 DEF Reaches, Arrive, poolVars

\* Lookup: a new entry is reached by the key that made it, and by no other.
LEMMA ReachesLookup ==
  ASSUME Typed, NEW c \in Calls, Lookup(c), NEW e \in Entries, NEW k \in Keys, Reaches(k, e)'
  PROVE  Reaches(k, e) \/ (e > nEntries /\ k = Key(c))
  <1>1. Key(c) \in Keys
    BY CallerFacts DEF Typed, Locals, Lookup, At, TypeOK, CallTypes
  <1>2. \A d \in Calls : Key(d)' = Key(d)
    BY DEF Lookup, Key
  <1>3. nEntries \in Nat
    BY Constants DEF Typed, TypeOK, PoolTypes
  <1>4. CASE UNCHANGED <<pool, ent>>
    BY <1>2, <1>4 DEF Reaches
  <1>5. CASE /\ pool' = pool \/ pool' = [pool EXCEPT ![Key(c)] = nEntries + 1]
             /\ ent' = [ent EXCEPT ![c] = pool'[Key(c)]]
    BY <1>1, <1>2, <1>3, <1>5 DEF Reaches, Typed, TypeOK, CallTypes, PoolTypes
  <1>6. QED
    BY <1>4, <1>5 DEF Lookup

\* Unlink: the call takes the entry its own key had in the map.
LEMMA ReachesUnlink ==
  ASSUME Typed, NEW c \in Calls, Unlink(c), NEW e \in Entries, NEW k \in Keys, Reaches(k, e)'
  PROVE  Reaches(k, e)
  <1>1. Key(c) \in Keys
    BY CallerFacts DEF Typed, Locals, Unlink, At, TypeOK, CallTypes
  <1>2. \A d \in Calls : Key(d)' = Key(d)
    BY DEF Unlink, Key
  <1>3. 0 \notin Entries
    BY DEF Entries
  <1>4. QED
    BY <1>1, <1>2, <1>3 DEF Unlink, Reaches, Typed, TypeOK, CallTypes, PoolTypes

\* SweepVisit only takes keys out of the map.
LEMMA ReachesSweepVisit ==
  ASSUME Typed, NEW v \in todo, SweepVisit(v), NEW e \in Entries, NEW k \in Keys, Reaches(k, e)'
  PROVE  Reaches(k, e)
  BY DEF SweepVisit, Reaches, Key, callVars, Entries, Typed, TypeOK, PoolTypes

\* CloseBegin only takes keys out of the map.
LEMMA ReachesCloseBegin ==
  ASSUME NEW p \in Closers, CloseBegin(p), NEW e \in Entries, NEW k \in Keys, Reaches(k, e)'
  PROVE  Reaches(k, e)
  BY DEF CloseBegin, Reaches, Key, callVars, Entries

\* A step that leaves the map, the entries and the requests adds nothing.
LEMMA ReachesQuiet ==
  ASSUME UNCHANGED <<pool, ent, req>>, NEW e \in Entries, NEW k \in Keys, Reaches(k, e)'
  PROVE  Reaches(k, e)
  BY DEF Reaches, Key

\* The steps that leave the map, the calls' entries and their requests alone.
Quiet ==
  \/ \E c \in Calls : \/ Enter(c) \/ DialOk(c) \/ DialFail(c) \/ Send(c) \/ Return(c) \/ Leave(c)
                     \/ Evict(c) \/ Evicted(c)
  \/ \E m \in sent : Execute(m)
  \/ Restart \/ (\E k \in Keys : Age(k)) \/ SweepBegin \/ SweepUnlock
  \/ \E e \in stale : SweepDrop(e) \/ SweepDropped(e)
  \/ \E p \in Closers : CloseStep(p)
  \/ UNCHANGED vars

\* The actions called quiet leave the map, the entries and the requests alone.
LEMMA QuietKeeps == Quiet => UNCHANGED <<pool, ent, req>>
  BY DEF Quiet, Enter, DialOk, DialFail, Send, Return, Leave, Evict, Evicted, Execute, Restart, Age,
     SweepBegin, SweepUnlock, SweepDrop, SweepDropped, CloseStep, CloseEntry, ClosedEntry, vars,
     callVars, poolVars

\* Every step is quiet or one of the five that are not.
LEMMA StepIsQuietOrNot ==
  ASSUME [Next]_vars
  PROVE  \/ Quiet
         \/ \E c \in Calls : Arrive(c) \/ Lookup(c) \/ Unlink(c)
         \/ \E k \in todo : SweepVisit(k)
         \/ \E p \in Closers : CloseBegin(p)
  BY DEF Next, CallStep, SweepStep, SweepProgress, Over, Quiet

\* Every step keeps the entries apart.
LEMMA EntriesApartStep == Typed /\ EntriesApart /\ [Next]_vars => EntriesApart'
  <1> SUFFICES ASSUME Typed, EntriesApart, [Next]_vars,
                      NEW e \in Entries, NEW k \in Keys, NEW l \in Keys,
                      Reaches(k, e)', Reaches(l, e)'
               PROVE  k = l
    BY DEF EntriesApart, Entries, Keys
  <1>1. ASSUME NEW c \in Calls, Lookup(c) PROVE k = l
    <2>1. e > nEntries => ~Reaches(k, e) /\ ~Reaches(l, e)
      BY Constants DEF Reaches, Typed, TypeOK, CallTypes, PoolTypes, Entries
    <2>2. QED
      BY <1>1, <2>1, ReachesLookup DEF EntriesApart
  <1>2. CASE Quiet
    BY <1>2, QuietKeeps, ReachesQuiet DEF EntriesApart
  <1>3. ASSUME NEW c \in Calls, Arrive(c) PROVE k = l
    BY <1>3, ReachesArrive DEF EntriesApart
  <1>4. ASSUME NEW c \in Calls, Unlink(c) PROVE k = l
    BY <1>4, ReachesUnlink DEF EntriesApart
  <1>5. ASSUME NEW v \in todo, SweepVisit(v) PROVE k = l
    BY <1>5, ReachesSweepVisit DEF EntriesApart
  <1>6. ASSUME NEW p \in Closers, CloseBegin(p) PROVE k = l
    BY <1>6, ReachesCloseBegin DEF EntriesApart
  <1>7. QED
    BY <1>1, <1>2, <1>3, <1>4, <1>5, <1>6, StepIsQuietOrNot

-----------------------------------------------------------------------------
(***************************************************************************)
(* Entries and sessions are blank until they are made.                     *)
(***************************************************************************)

\* Entries and sessions are blank until they are made, whatever the step.
LEMMA BlankStep == Typed /\ Blank /\ [Next]_vars => Blank'
  <1> SUFFICES ASSUME Typed, Blank, [Next]_vars PROVE Blank'
    OBVIOUS
  <1>1. nEntries \in Nat /\ nSessions \in Nat
    BY Constants DEF Typed, TypeOK, PoolTypes
  <1>2. ASSUME NEW c \in Calls, Lookup(c) PROVE Blank'
    BY <1>1, <1>2 DEF Lookup, Blank, serverVars, Entries
  <1>3. ASSUME NEW c \in Calls, DialOk(c) PROVE Blank'
    <2>1. ~Ephemeral(c) => ent[c] \in 1..nEntries
      BY <1>3, EntryOf DEF DialOk, Typed, Locals, At
    <2>2. QED
      BY <1>1, <1>3, <2>1 DEF DialOk, Blank, Entries, Sessions, Typed, TypeOK, PoolTypes
  <1>4. ASSUME NEW m \in sent, Execute(m) PROVE Blank'
    <2>1. m.session \in 1..nSessions
      BY DEF Typed, TypeOK, ServerTypes, Messages
    <2>2. QED
      BY <1>1, <1>4, <2>1 DEF Execute, Blank, Sessions, poolVars, Typed, TypeOK, ServerTypes
  <1>5. ASSUME NEW e, CloseEnd(e), UNCHANGED <<nEntries, nSessions, bound>> PROVE Blank'
    BY <1>5 DEF CloseEnd, Blank, Typed, TypeOK, PoolTypes
  <1>6. ASSUME UNCHANGED <<nEntries, held, nSessions, bound>> PROVE Blank'
    BY <1>6 DEF Blank
  <1>7. QED
    BY <1>2, <1>3, <1>4, <1>5, <1>6 DEF Next, CallStep, SweepStep, SweepProgress, CloseStep, Over,
       vars, Arrive, Enter, DialFail, Send, Return, Leave, Unlink, Evict, Evicted, Restart, Age,
       SweepBegin, SweepVisit, SweepUnlock, SweepDrop, SweepDropped, CloseBegin, CloseEntry,
       ClosedEntry, callVars, poolVars, serverVars

-----------------------------------------------------------------------------
(***************************************************************************)
(* No two callers touch one session.                                       *)
(***************************************************************************)

\* A call's own key reaches its entry.
LEMMA OwnEntry ==
  ASSUME Typed, NEW c \in Calls, ~Ephemeral(c), ent[c] # 0
  PROVE  Caller(c) \in Keys /\ ent[c] \in Entries /\ Reaches(Caller(c), ent[c])
  BY CallerFacts, EntryOf DEF Typed, TypeOK, CallTypes, Reaches

\* A step that changes none of what Touches is about, but for taking things away.
LEMMA TouchesShrinks ==
  ASSUME UNCHANGED <<req, sess, sent, bound>>, NEW i, NEW s \in Sessions, Touches(i, s)',
         \A e \in Entries : held'[e] = s => held[e] = s,
         i \in Keys => \A e \in Entries : Reaches(i, e)' => Reaches(i, e)
  PROVE  Touches(i, s)
  BY DEF Touches, Caller

\* Arrive: the request that a call brings touches no session yet.
LEMMA TouchesArrive ==
  ASSUME Typed, NEW c \in Calls, Arrive(c), NEW i, NEW s \in Sessions, Touches(i, s)'
  PROVE  Touches(i, s)
  <1>1. sess[c] # s /\ \A m \in sent : m.call # c
    BY DEF Typed, Locals, Arrive, At, Sessions
  <1>2. \A d \in Calls \ {c} : Caller(d)' = Caller(d)
    BY DEF Arrive, Caller, Typed, TypeOK, CallTypes
  <1>3. \A m \in sent : m.call \in Calls
    BY DEF Typed, TypeOK, ServerTypes, Messages
  <1>4. i \in Keys => \A e \in Entries : Reaches(i, e)' => Reaches(i, e)
    BY ReachesArrive
  <1>5. QED
    BY <1>1, <1>2, <1>3, <1>4 DEF Touches, Arrive, poolVars, serverVars

\* Lookup: a new entry holds no session yet, and so adds no touch.
LEMMA TouchesLookup ==
  ASSUME Typed, Blank, NEW c \in Calls, Lookup(c), NEW i, NEW s \in Sessions, Touches(i, s)'
  PROVE  Touches(i, s)
  <1>1. ASSUME i \in Keys, NEW e \in Entries, held'[e] = s, Reaches(i, e)'
        PROVE  held[e] = s /\ Reaches(i, e)
    BY <1>1, ReachesLookup DEF Lookup, Blank, Sessions
  <1>2. \A d \in Calls : Caller(d)' = Caller(d)
    BY DEF Lookup, Caller
  <1>3. \A m \in sent : m.call \in Calls
    BY DEF Typed, TypeOK, ServerTypes, Messages
  <1>4. QED
    BY <1>1, <1>2, <1>3 DEF Touches, Lookup, serverVars

\* Enter: the call touches a session that its key reached through its entry.
LEMMA TouchesEnter ==
  ASSUME Typed, NEW c \in Calls, Enter(c), NEW i, NEW s \in Sessions, Touches(i, s)'
  PROVE  Touches(i, s)
  <1>1. Caller(c) \in Keys /\ ent[c] \in Entries /\ Reaches(Caller(c), ent[c])
    BY OwnEntry DEF Enter, Typed, Locals, At
  <1>2. \A d \in Calls : Caller(d)' = Caller(d)
    BY DEF Enter, Caller
  <1>3. \A m \in sent : m.call \in Calls
    BY DEF Typed, TypeOK, ServerTypes, Messages
  <1>4. i \in Keys => \A e \in Entries : Reaches(i, e)' => Reaches(i, e)
    BY ReachesQuiet DEF Enter
  <1>5. ASSUME NEW d \in Calls, sess'[d] = s PROVE Touches(Caller(d), s)
    <2>1. CASE sess'[d] = sess[d]
      BY <1>5, <2>1 DEF Touches
    <2>2. CASE d = c /\ sess'[d] = held[ent[c]]
      BY <1>1, <1>5, <2>2 DEF Touches
    <2>3. QED
      BY <2>1, <2>2 DEF Enter, Typed, TypeOK, CallTypes
  <1>6. QED
    BY <1>2, <1>3, <1>4, <1>5 DEF Touches, Enter, serverVars

\* DialOk: the new session is touched by the caller who opened it, alone.
LEMMA TouchesDialOk ==
  ASSUME Typed, EntriesApart, NEW c \in Calls, DialOk(c), NEW i, NEW s \in Sessions,
         Touches(i, s)'
  PROVE  Touches(i, s) \/ (s > nSessions /\ i = Caller(c))
  <1>1. \A d \in Calls : Caller(d)' = Caller(d)
    BY DEF DialOk, Caller
  <1>2. \A m \in sent : m.call \in Calls
    BY DEF Typed, TypeOK, ServerTypes, Messages
  <1>3. i \in Keys => \A e \in Entries : Reaches(i, e)' => Reaches(i, e)
    BY ReachesQuiet DEF DialOk
  <1>4. nSessions \in Nat
    BY Constants DEF Typed, TypeOK, PoolTypes
  <1>5. ASSUME i \in Keys, NEW e \in Entries, held'[e] = s, Reaches(i, e)
        PROVE  Touches(i, s) \/ (s > nSessions /\ i = Caller(c))
    <2>1. CASE held[e] = s
      BY <1>5, <2>1 DEF Touches
    <2>2. CASE e = ent[c] /\ s = nSessions + 1 /\ ~Ephemeral(c)
      <3>1. Caller(c) \in Keys /\ Reaches(Caller(c), e)
        BY <2>2, OwnEntry DEF Entries
      <3>2. QED
        BY <1>4, <1>5, <2>2, <3>1 DEF EntriesApart
    <2>3. QED
      BY <1>5, <2>1, <2>2 DEF DialOk, Typed, TypeOK, PoolTypes
  <1>6. ASSUME NEW d \in Calls, sess'[d] = s, Caller(d) = i
        PROVE  Touches(i, s) \/ (s > nSessions /\ i = Caller(c))
    BY <1>4, <1>6 DEF Touches, DialOk, Typed, TypeOK, CallTypes
  <1>7. QED
    BY <1>1, <1>2, <1>3, <1>5, <1>6 DEF Touches, DialOk

\* Send: the caller of the request touched the session before.
LEMMA TouchesSend ==
  ASSUME Typed, NEW c \in Calls, Send(c), NEW i, NEW s \in Sessions, Touches(i, s)'
  PROVE  Touches(i, s)
  <1>1. \A d \in Calls : Caller(d)' = Caller(d)
    BY DEF Send, Caller
  <1>2. \A m \in sent' : m \in sent \/ m = Message(c)
    BY DEF Send
  <1>3. \A m \in sent : m.call \in Calls
    BY DEF Typed, TypeOK, ServerTypes, Messages
  <1>4. Message(c).call = c /\ Message(c).session = sess[c]
    BY DEF Message
  <1>5. i \in Keys => \A e \in Entries : Reaches(i, e)' => Reaches(i, e)
    BY ReachesQuiet DEF Send, poolVars
  <1>6. QED
    BY <1>1, <1>2, <1>3, <1>4, <1>5 DEF Touches, Send, poolVars

\* Execute: the bearer that is bound is the caller's, who sent the request.
LEMMA TouchesExecute ==
  ASSUME Typed, NEW m \in sent, Execute(m), NEW i, NEW s \in Sessions, Touches(i, s)'
  PROVE  Touches(i, s)
  <1>1. \A d : Caller(d)' = Caller(d)
    BY DEF Execute, Caller, callVars
  <1>2. i \in Keys => \A e \in Entries : Reaches(i, e)' => Reaches(i, e)
    BY ReachesQuiet DEF Execute, callVars, poolVars
  <1>3. bound'[s] = bound[s] \/ (m.session = s /\ bound'[s] = Caller(m.call))
    BY DEF Execute, Typed, TypeOK, ServerTypes
  <1>4. QED
    BY <1>1, <1>2, <1>3 DEF Touches, Execute, callVars, poolVars

\* The steps that can only take touches away.
Losing ==
  \/ \E c \in Calls : DialFail(c) \/ Return(c) \/ Leave(c) \/ Unlink(c) \/ Evict(c) \/ Evicted(c)
  \/ Restart \/ (\E k \in Keys : Age(k)) \/ SweepBegin \/ SweepUnlock
  \/ \E k \in todo : SweepVisit(k)
  \/ \E e \in stale : SweepDrop(e) \/ SweepDropped(e)
  \/ \E p \in Closers : CloseBegin(p) \/ CloseStep(p)
  \/ UNCHANGED vars

\* The steps that only close, unlink or forget take touches away.
LEMMA TouchesLosing ==
  ASSUME Typed, Losing, NEW i, NEW s \in Sessions, Touches(i, s)'
  PROVE  Touches(i, s)
  <1>1. UNCHANGED <<req, sess, sent, bound>>
    BY DEF Losing, DialFail, Return, Leave, Unlink, Evict, Evicted, Restart, Age, SweepBegin,
       SweepUnlock, SweepVisit, SweepDrop, SweepDropped, CloseBegin, CloseStep, CloseEntry,
       ClosedEntry, vars, callVars, serverVars
  <1>2. held' = held \/ \E e : CloseEnd(e)
    BY DEF Losing, DialFail, Return, Leave, Unlink, Evict, Evicted, Restart, Age, SweepBegin,
       SweepUnlock, SweepVisit, SweepDrop, SweepDropped, CloseBegin, CloseStep, CloseEntry,
       ClosedEntry, vars, poolVars
  <1>3. \A e \in Entries : held'[e] = s => held[e] = s
    BY <1>2 DEF CloseEnd, Typed, TypeOK, PoolTypes, Sessions
  <1>4. ASSUME i \in Keys, NEW e \in Entries, Reaches(i, e)' PROVE Reaches(i, e)
    <2>1. CASE Quiet
      BY <1>4, <2>1, QuietKeeps, ReachesQuiet
    <2>2. QED
      BY <1>4, <2>1, ReachesUnlink, ReachesSweepVisit, ReachesCloseBegin DEF Losing, Quiet
  <1>5. QED
    BY <1>1, <1>3, <1>4, TouchesShrinks

\* Only a session that has been made is touched.
LEMMA TouchesOnlyMade ==
  ASSUME Typed, Blank, NEW s \in Sessions, s > nSessions, NEW i \in Identities \ {Nobody}
  PROVE  ~Touches(i, s)
  <1>1. nSessions \in Nat
    BY Constants DEF Typed, TypeOK, PoolTypes
  <1>2. bound[s] # i
    BY DEF Blank
  <1>3. QED
    BY <1>1, <1>2 DEF Touches, Typed, TypeOK, CallTypes, PoolTypes, ServerTypes, Messages

\* Every step keeps the sessions apart.
LEMMA SessionsApartStep ==
  Typed /\ Blank /\ EntriesApart /\ SessionsApart /\ [Next]_vars => SessionsApart'
  <1> SUFFICES ASSUME Typed, Blank, EntriesApart, SessionsApart, [Next]_vars, NEW s \in Sessions,
                      NEW i \in Identities \ {Nobody}, NEW j \in Identities \ {Nobody},
                      Touches(i, s)', Touches(j, s)'
               PROVE  i = j
    BY DEF SessionsApart, Sessions, Identities, Nobody, Keys
  <1>1. Touches(i, s) /\ Touches(j, s) => i = j
    BY DEF SessionsApart
  <1>2. ASSUME NEW c \in Calls, DialOk(c) PROVE i = j
    BY <1>1, <1>2, TouchesDialOk, TouchesOnlyMade
  <1>3. ASSUME NEW c \in Calls, Arrive(c) PROVE i = j
    BY <1>1, <1>3, TouchesArrive
  <1>4. ASSUME NEW c \in Calls, Lookup(c) PROVE i = j
    BY <1>1, <1>4, TouchesLookup
  <1>5. ASSUME NEW c \in Calls, Enter(c) PROVE i = j
    BY <1>1, <1>5, TouchesEnter
  <1>6. ASSUME NEW c \in Calls, Send(c) PROVE i = j
    BY <1>1, <1>6, TouchesSend
  <1>7. ASSUME NEW m \in sent, Execute(m) PROVE i = j
    BY <1>1, <1>7, TouchesExecute
  <1>8. CASE Losing
    BY <1>1, <1>8, TouchesLosing
  <1>9. QED
    BY <1>2, <1>3, <1>4, <1>5, <1>6, <1>7, <1>8
       DEF Losing, Next, CallStep, SweepStep, SweepProgress, Over

-----------------------------------------------------------------------------
(***************************************************************************)
(* One request per attempt, and one run per request.                       *)
(***************************************************************************)

\* Where a call is when its attempt's request may have gone out.
Sent == {"wait", "answering", "failing", "unlink", "evict", "close", "answered", "failed"}

\* What a step of a call does to its attempts.
LEMMA AttemptsOnlyGrow ==
  ASSUME Typed, [Next]_vars, NEW c \in Calls
  PROVE  /\ attempt'[c] \in {attempt[c], attempt[c] + 1}
         /\ attempt'[c] = attempt[c] /\ At(c, Sent)
              => ~At(c, {"idle", "lookup", "enter", "dial", "send"})'
  <1> USE DEF Typed, TypeOK, CallTypes, At, Goto, Sent
  <1>1. ASSUME NEW d \in Calls, FailAttempt(d),
               At(d, {"lookup", "dial", "send", "wait", "failing"})
        PROVE  /\ attempt'[c] \in {attempt[c], attempt[c] + 1}
               /\ /\ attempt'[c] = attempt[c]
                  /\ At(c, Sent)
                  => ~At(c, {"idle", "lookup", "enter", "dial", "send"})'
    BY <1>1 DEF FailAttempt
  <1>2. ASSUME NEW d \in Calls, Again(d)
        PROVE  /\ attempt'[c] \in {attempt[c], attempt[c] + 1}
               /\ /\ attempt'[c] = attempt[c]
                  /\ At(c, Sent)
                  => ~At(c, {"idle", "lookup", "enter", "dial", "send"})'
    BY <1>2 DEF Again
  <1>3. ASSUME NEW d \in Calls, CallStep(d) \/ Arrive(d)
        PROVE  /\ attempt'[c] \in {attempt[c], attempt[c] + 1}
               /\ /\ attempt'[c] = attempt[c]
                  /\ At(c, Sent)
                  => ~At(c, {"idle", "lookup", "enter", "dial", "send"})'
    BY <1>1, <1>2, <1>3 DEF CallStep, Arrive, Lookup, Enter, DialOk, DialFail, Send, GiveUp, Return,
       Leave, Unlink, Evict, Evicted
  <1>4. CASE UNCHANGED <<pc, attempt>>
    BY <1>4
  <1>5. QED
    BY <1>3, <1>4 DEF Next, SweepStep, SweepProgress, CloseStep, Over, Execute, Restart, Age,
       SweepBegin, SweepVisit, SweepUnlock, SweepDrop, SweepDropped, CloseBegin, CloseEntry,
       ClosedEntry, callVars, vars

\* Every step keeps one request to an attempt, and one execution to a request.
LEMMA OncePerAttemptStep == Typed /\ OncePerAttempt /\ [Next]_vars => OncePerAttempt'
  <1> SUFFICES ASSUME Typed, OncePerAttempt, [Next]_vars PROVE OncePerAttempt'
    OBVIOUS
  <1>1. \A m \in sent : m.call \in Calls /\ m.attempt \in {1, 2}
    BY DEF Typed, TypeOK, ServerTypes, Messages
  <1>2. \A m \in sent : m.attempt = attempt[m.call]
                          => At(m.call, Sent)
    BY <1>1 DEF OncePerAttempt, Typed, TypeOK, CallTypes, PCs, At, Sent
  <1>3. \A m \in sent : /\ m.attempt <= attempt'[m.call]
                        /\ m.attempt = attempt'[m.call]
                             => ~At(m.call, {"idle", "lookup", "enter", "dial", "send"})'
    BY <1>1, <1>2, AttemptsOnlyGrow DEF OncePerAttempt, Typed, TypeOK, CallTypes
  <1>4. ASSUME UNCHANGED <<sent, ran>> PROVE OncePerAttempt'
    BY <1>3, <1>4 DEF OncePerAttempt, At
  <1>5. ASSUME NEW c \in Calls, Send(c) PROVE OncePerAttempt'
    <2>1. CASE UNCHANGED sent
      BY <1>4, <1>5, <2>1 DEF Send
    <2>2. CASE sent' = sent \cup {Message(c)} /\ Goto(c, "wait") /\ UNCHANGED attempt
      <3>1. \A m \in sent : m.call = c => m.attempt # attempt[c]
        BY <1>5 DEF Send, OncePerAttempt, At
      <3>2. /\ Message(c).call = c /\ Message(c).attempt = attempt'[c]
            /\ attempt[c] \in {1, 2} /\ pc'[c] = "wait"
        BY <2>2 DEF Message, Goto, Typed, TypeOK, CallTypes
      <3>3. \A m, n \in sent' : m.call = n.call /\ m.attempt = n.attempt => m = n
        BY <2>2, <3>1, <3>2 DEF OncePerAttempt
      <3>4. \A m \in sent' : /\ m.attempt <= attempt'[m.call]
                             /\ m.attempt = attempt'[m.call]
                                  => ~At(m.call, {"idle", "lookup", "enter", "dial", "send"})'
        BY <1>3, <2>2, <3>2 DEF At
      <3>5. QED
        BY <1>5, <2>2, <3>3, <3>4 DEF Send, OncePerAttempt, At
    <2>3. QED
      BY <1>5, <2>1, <2>2 DEF Send
  <1>6. ASSUME NEW m \in sent, Execute(m) PROVE OncePerAttempt'
    <2>1. ran' = ran \cup {[msg |-> m, as |-> Resolve(m)]} /\ \A r \in ran : r.msg # m
      BY <1>6 DEF Execute
    <2>2. (\A r \in ran' : r.msg \in sent) /\ \A r, q \in ran' : r.msg = q.msg => r = q
      BY <2>1 DEF OncePerAttempt
    <2>3. QED
      BY <1>3, <1>6, <2>2 DEF OncePerAttempt, Execute, At
  <1>7. QED
    BY <1>4, <1>5, <1>6 DEF Next, CallStep, SweepStep, SweepProgress, CloseStep, Over, vars, Arrive,
       Lookup, Enter, DialOk, DialFail, Return, Leave, Unlink, Evict, Evicted, Restart, Age,
       SweepBegin, SweepVisit, SweepUnlock, SweepDrop, SweepDropped, CloseBegin, CloseEntry,
       ClosedEntry, serverVars

-----------------------------------------------------------------------------
(***************************************************************************)
(* Whoever runs, runs as the caller or as nobody.                          *)
(***************************************************************************)

\* Every step keeps Isolation, because a bound bearer is the caller's own.
LEMMA IsolationStep ==
  Typed /\ SessionsApart /\ OncePerAttempt /\ Isolation /\ [Next]_vars => Isolation'
  <1> SUFFICES ASSUME Typed, SessionsApart, OncePerAttempt, Isolation, [Next]_vars
               PROVE  Isolation'
    OBVIOUS
  <1>1. \A r \in ran : r.msg \in sent /\ r.msg.call \in Calls
    BY DEF OncePerAttempt, Typed, TypeOK, ServerTypes, Messages
  <1>2. ASSUME NEW m \in sent, Execute(m) PROVE Isolation'
    <2>1. /\ m.call \in Calls /\ m.session \in Sessions
          /\ Caller(m.call) \in Identities \ {Nobody}
      BY ResolveTyped, CallerFacts DEF Typed, TypeOK, CallTypes
    <2>2. bound[m.session] \in {Caller(m.call), Nobody}
      BY <2>1 DEF SessionsApart, Touches, Typed, TypeOK, ServerTypes
    <2>3. Resolve(m) \in {Caller(m.call), Nobody}
      BY <2>2 DEF Resolve, Caller
    <2>4. \A d : Caller(d)' = Caller(d)
      BY <1>2 DEF Execute, callVars, Caller
    <2>5. QED
      BY <1>2, <2>3, <2>4 DEF Execute, Isolation
  <1>3. ASSUME UNCHANGED <<ran, req>> PROVE Isolation'
    BY <1>3 DEF Isolation, Caller
  <1>4. ASSUME NEW c \in Calls, Arrive(c) PROVE Isolation'
    <2>1. \A r \in ran : r.msg.call # c
      BY <1>1, <1>4 DEF Arrive, Typed, Locals, At
    <2>2. \A d \in Calls \ {c} : Caller(d)' = Caller(d)
      BY <1>4 DEF Arrive, Caller, Typed, TypeOK, CallTypes
    <2>3. QED
      BY <1>1, <1>4, <2>1, <2>2 DEF Isolation, Arrive, serverVars
  <1>5. QED
    BY <1>2, <1>3, <1>4 DEF Next, CallStep, SweepStep, SweepProgress, CloseStep, Over, vars, Lookup,
       Enter, DialOk, DialFail, Send, Return, Leave, Unlink, Evict, Evicted, Restart, Age,
       SweepBegin, SweepVisit, SweepUnlock, SweepDrop, SweepDropped, CloseBegin, CloseEntry,
       ClosedEntry, callVars, serverVars

-----------------------------------------------------------------------------
(***************************************************************************)
(* Open sessions and their owners.                                         *)
(***************************************************************************)

\* Where a failed attempt leads.
LEMMA FailedGoes ==
  ASSUME NEW c \in Calls, FailAttempt(c) \/ GiveUp(c)
  PROVE  \E label \in {"failed", "dial", "unlink", "failing"} :
           /\ pc' = [pc EXCEPT ![c] = label]
           /\ label = "dial" => Ephemeral(c)
           /\ label = "failing" => Ephemeral(c)
  BY DEF FailAttempt, GiveUp, Goto

\* Who has a key is told by the request alone.
LEMMA EphemeralKept ==
  ASSUME UNCHANGED req
  PROVE  \A c \in Calls : Ephemeral(c)' = Ephemeral(c) /\ Key(c)' = Key(c)
  BY DEF Ephemeral, Key, sessionKey

\* Finding an entry, or unlinking it, opens and closes nothing.
LEMMA OwnedQuiet ==
  ASSUME Typed, Owned, UNCHANGED <<held, open, lock, sess>>, NEW c \in Calls,
         \A d \in Calls \ {c} : UNCHANGED <<pc[d], req[d], ent[d]>>,
         ~At(c, {"send", "wait"}), ~At(c, {"send", "wait", "close"})',
         At(c, {"dial"})' => Ephemeral(c)'
  PROVE  Owned'
  <1>1. \A d \in Calls \ {c} : Ephemeral(d)' = Ephemeral(d)
    BY DEF Ephemeral, Key, sessionKey
  <1>2. OwnersApart' /\ HasLock'
    BY <1>1 DEF Owned, OwnersApart, HasLock, At
  <1>3. HandedOutOpen' /\ OpenSessionsOwned'
    BY <1>1 DEF Owned, HandedOutOpen, OpenSessionsOwned, At
  <1>4. QED
    BY <1>2, <1>3 DEF Owned

\* Who gets the lock of an entry takes its session or dials, alone, for it.
LEMMA OwnedEnter ==
  ASSUME Typed, Owned, NEW c \in Calls, Enter(c)
  PROVE  Owned'
  <1> DEFINE e == ent[c]
  <1>1. /\ pc[c] = "enter" /\ lock[e] = None /\ ~Ephemeral(c) /\ e \in Entries
        /\ UNCHANGED <<req, ent, held, open>>
    BY EntryOf DEF Enter, Typed, Locals, At
  <1>2. \A d \in Calls : Ephemeral(d)' = Ephemeral(d)
    BY <1>1, EphemeralKept
  <1>3. \A d \in Calls \ {c} : pc'[d] = pc[d] /\ sess'[d] = sess[d]
    BY DEF Enter, Goto, Typed, TypeOK, CallTypes
  <1>4. OwnersApart'
    BY <1>1, <1>2, <1>3 DEF Owned, OwnersApart, At
  <1>5. HasLock'
    <2>1. CASE held[e] # 0
      <3>1. pc'[c] = "send" /\ UNCHANGED lock
        BY <1>1, <2>1 DEF Enter, Goto, Typed, TypeOK, CallTypes
      <3>2. QED
        BY <1>1, <1>2, <1>3, <3>1 DEF Owned, HasLock, At
    <2>2. CASE held[e] = 0
      <3>1. lock' = [lock EXCEPT ![e] = c]
        BY <2>2 DEF Enter
      <3>2. lock'[e] = c /\ \A f \in Entries \ {e} : lock'[f] = lock[f]
        BY <1>1, <3>1 DEF Typed, TypeOK, PoolTypes
      <3>3. \A d \in Calls \ {c} :
              (At(d, {"dial"}) /\ ~Ephemeral(d)) \/ At(d, {"close"}) => ent[d] # e
        BY <1>1, Constants DEF Owned, HasLock
      <3>4. \A d \in Calls :
              (At(d, {"dial"}) /\ ~Ephemeral(d)) \/ At(d, {"close"}) => ent[d] \in Entries
        BY EntryOf DEF Typed, Locals, At
      <3>5. QED
        BY <1>1, <1>2, <1>3, <2>2, <3>2, <3>3, <3>4 DEF Owned, HasLock, At
    <2>3. QED
      BY <2>1, <2>2
  <1>6. HandedOutOpen'
    BY <1>1 DEF Enter, Owned, HandedOutOpen, Typed, TypeOK, PoolTypes
  <1>7. OpenSessionsOwned'
    BY <1>1, <1>2, <1>3 DEF Owned, OpenSessionsOwned, At
  <1>8. QED
    BY <1>4, <1>5, <1>6, <1>7 DEF Owned

\* What is dialled is new, and belongs to the entry dialled for or to the call.
LEMMA OwnedDialOk ==
  ASSUME Typed, Owned, NEW c \in Calls, DialOk(c)
  PROVE  Owned'
  <1> DEFINE s == nSessions + 1
             e == ent[c]
  <1>1. /\ pc[c] = "dial" /\ UNCHANGED <<req, ent>> /\ open' = open \cup {s}
        /\ pc'[c] = "send" /\ sess'[c] = s
        /\ \A d \in Calls \ {c} : pc'[d] = pc[d] /\ sess'[d] = sess[d]
    BY DEF DialOk, Goto, Typed, TypeOK, CallTypes
  <1>2. \A d \in Calls : Ephemeral(d)' = Ephemeral(d)
    BY <1>1, EphemeralKept
  <1>3. /\ nSessions \in Nat /\ \A f \in Entries : held[f] \in 0..nSessions
        /\ \A d \in Calls : sess[d] \in 0..nSessions
        /\ open \subseteq 1..nSessions
    BY Constants DEF Typed, TypeOK, CallTypes, PoolTypes
  <1>4. s # 0 /\ s \notin open /\ (\A f \in Entries : held[f] # s) /\ \A d \in Calls : sess[d] # s
    BY <1>3
  <1>5. CASE Ephemeral(c)
    <2>1. UNCHANGED <<held, lock>>
      BY <1>5 DEF DialOk, Unlock
    <2>2. OwnersApart' /\ HasLock'
      BY <1>1, <1>2, <1>4, <1>5, <2>1 DEF Owned, OwnersApart, HasLock, At
    <2>3. HandedOutOpen' /\ OpenSessionsOwned'
      BY <1>1, <1>2, <1>4, <1>5, <2>1 DEF Owned, HandedOutOpen, OpenSessionsOwned, At
    <2>4. QED
      BY <2>2, <2>3 DEF Owned
  <1>6. CASE ~Ephemeral(c)
    <2>1. e \in Entries /\ lock[e] = c /\ held[e] = 0
      BY <1>1, <1>6, EntryOf DEF Typed, Locals, Owned, HasLock, At
    <2>2. /\ held'[e] = s /\ lock'[e] = None
          /\ \A f \in Entries \ {e} : held'[f] = held[f] /\ lock'[f] = lock[f]
      BY <1>6, <2>1 DEF DialOk, Unlock, Typed, TypeOK, PoolTypes
    <2>3. \A d \in Calls \ {c} :
            (At(d, {"dial"}) /\ ~Ephemeral(d)) \/ At(d, {"close"})
            => ent[d] # e /\ ent[d] \in Entries
      BY <2>1, EntryOf DEF Typed, Locals, Owned, HasLock, At
    <2>4. OwnersApart' /\ HasLock'
      <3>1. \A f, g \in Entries : held'[f] = held'[g] /\ held'[f] # 0 => f = g
        BY <1>4, <2>2 DEF Owned, OwnersApart
      <3>2. \A d \in Calls : Ephemeral(d) /\ At(d, {"send", "wait"})'
                             => d # c /\ \A f \in Entries : held'[f] # sess'[d]
        BY <1>1, <1>4, <1>6, <2>2 DEF Owned, OwnersApart, At
      <3>3. HasLock'
        BY <1>1, <1>2, <2>2, <2>3 DEF Owned, HasLock, At
      <3>4. QED
        BY <1>2, <3>1, <3>2, <3>3 DEF OwnersApart
    <2>5. HandedOutOpen'
      BY <1>1, <1>4, <2>2 DEF Owned, HandedOutOpen
    <2>6. OpenSessionsOwned'
      <3>1. SUFFICES ASSUME NEW o \in open
                     PROVE  \/ \E f \in Entries : held'[f] = o
                            \/ \E d \in Calls : Ephemeral(d) /\ pc'[d] \in {"send", "wait"} /\ sess'[d] = o
        BY <1>1, <1>2, <2>1, <2>2 DEF OpenSessionsOwned
      <3>2. CASE \E f \in Entries : held[f] = o
        BY <1>3, <2>1, <2>2, <3>2
      <3>3. CASE \E d \in Calls : Ephemeral(d) /\ pc[d] \in {"send", "wait"} /\ sess[d] = o
        BY <1>1, <1>6, <3>3
      <3>4. QED
        BY <3>2, <3>3 DEF Owned, OpenSessionsOwned
    <2>7. QED
      BY <2>4, <2>5, <2>6 DEF Owned
  <1>7. QED
    BY <1>5, <1>6

\* A dial that fails leaves the entry without a session, and unlocked.
LEMMA OwnedDialFail ==
  ASSUME Typed, Owned, NEW c \in Calls, DialFail(c)
  PROVE  Owned'
  <1>1. /\ pc[c] = "dial" /\ UNCHANGED <<req, ent, sess, held, open>>
        /\ \A d \in Calls \ {c} : pc'[d] = pc[d]
        /\ ~At(c, {"send", "wait", "close"})' /\ (At(c, {"dial"})' => Ephemeral(c))
    BY FailedGoes DEF DialFail, At, Typed, TypeOK, CallTypes
  <1>2. \A d \in Calls : Ephemeral(d)' = Ephemeral(d)
    BY <1>1, EphemeralKept
  <1>3. OwnersApart' /\ OpenSessionsOwned'
    BY <1>1, <1>2 DEF Owned, OwnersApart, OpenSessionsOwned, At
  <1>4. HandedOutOpen'
    <2>1. ~Ephemeral(c) => held[ent[c]] = 0
      BY <1>1 DEF Owned, HasLock, At
    <2>2. QED
      BY <1>1, <2>1 DEF DialFail, Unlock, Owned, HandedOutOpen, Typed, TypeOK, PoolTypes
  <1>5. HasLock'
    <2>1. SUFFICES ASSUME NEW d \in Calls \ {c},
                          (pc[d] = "dial" /\ ~Ephemeral(d)) \/ pc[d] = "close"
                   PROVE  lock'[ent[d]] = d
      BY <1>1, <1>2 DEF Owned, HasLock, At
    <2>2. lock[ent[d]] = d /\ ent[d] \in Entries
      BY <2>1, EntryOf DEF Owned, HasLock, At, Typed, Locals
    <2>3. ~Ephemeral(c) => lock[ent[c]] = c
      BY <1>1 DEF Owned, HasLock, At
    <2>4. QED
      BY <2>1, <2>2, <2>3 DEF DialFail, Unlock, Typed, TypeOK, PoolTypes
  <1>6. QED
    BY <1>3, <1>4, <1>5 DEF Owned

\* A request goes out, or finds its session closed.
LEMMA OwnedSend ==
  ASSUME Typed, Owned, NEW c \in Calls, Send(c)
  PROVE  Owned'
  <1>1. /\ pc[c] = "send" /\ UNCHANGED <<req, ent, sess, held, open, lock>>
        /\ \A d \in Calls \ {c} : pc'[d] = pc[d]
        /\ ~At(c, {"send", "close"})' /\ (At(c, {"dial"})' => Ephemeral(c))
        /\ sess[c] \in open => At(c, {"wait"})'
        /\ sess[c] \notin open => ~At(c, {"wait"})'
    BY FailedGoes DEF Send, Goto, At, poolVars, Typed, TypeOK, CallTypes
  <1>2. \A d \in Calls : Ephemeral(d)' = Ephemeral(d)
    BY <1>1, EphemeralKept
  <1>3. OwnersApart' /\ HasLock' /\ HandedOutOpen' /\ OpenSessionsOwned'
    BY <1>1, <1>2 DEF Owned, OwnersApart, HasLock, HandedOutOpen, OpenSessionsOwned, At
  <1>4. QED
    BY <1>3 DEF Owned

\* A call ends, and closes the session that was its own, which nobody holds.
LEMMA OwnedReturn ==
  ASSUME Typed, Owned, NEW c \in Calls, Return(c)
  PROVE  Owned'
  <1>1. /\ pc[c] = "wait" /\ UNCHANGED <<req, ent, sess, held, lock>>
        /\ \A d \in Calls \ {c} : pc'[d] = pc[d]
        /\ ~At(c, {"send", "wait", "close"})' /\ (At(c, {"dial"})' => Ephemeral(c))
        /\ open' = IF Ephemeral(c) THEN open \ {sess[c]} ELSE open
    BY FailedGoes DEF Return, CloseOwn, Goto, At, Typed, TypeOK, CallTypes
  <1>2. \A d \in Calls : Ephemeral(d)' = Ephemeral(d)
    BY <1>1, EphemeralKept
  <1>3. OwnersApart' /\ HasLock' /\ HandedOutOpen'
    BY <1>1, <1>2 DEF Owned, OwnersApart, HasLock, HandedOutOpen, At
  <1>4. OpenSessionsOwned'
    BY <1>1, <1>2 DEF Owned, OpenSessionsOwned, At
  <1>5. QED
    BY <1>3, <1>4 DEF Owned

\* Whoever begins to close the session of an entry takes its lock, and no other
\* entry holds that session.
LEMMA OwnedCloseStart ==
  ASSUME Typed, Owned, NEW e \in Entries, NEW g \in Calls \cup Goroutines, CloseStart(e, g),
         UNCHANGED <<req, ent, sess, held>>,
         UNCHANGED pc \/ (pc[g] = "evict" /\ ent[g] = e /\ pc' = [pc EXCEPT ![g] = "close"])
  PROVE  Owned'
  <1>1. \A d \in Calls : Ephemeral(d)' = Ephemeral(d)
    BY EphemeralKept
  <1>2. /\ lock[e] = None /\ held[e] # 0 /\ lock'[e] = g /\ g # None
        /\ \A f \in Entries \ {e} : lock'[f] = lock[f]
        /\ open' = open \ {held[e]}
    BY Constants DEF CloseStart, Typed, TypeOK, PoolTypes
  <1>3. /\ \A d \in Calls : At(d, {"dial", "send", "wait"})' <=> At(d, {"dial", "send", "wait"})
        /\ \A d \in Calls : At(d, {"dial"})' <=> At(d, {"dial"})
        /\ \A d \in Calls : At(d, {"close"})' => At(d, {"close"}) \/ (d = g /\ ent[d] = e)
    BY DEF At, Typed, TypeOK, CallTypes
  <1>4. OwnersApart'
    BY <1>1, <1>3 DEF Owned, OwnersApart, At
  <1>5. HasLock'
    <2>1. \A d \in Calls : (At(d, {"dial"}) /\ ~Ephemeral(d)) \/ At(d, {"close"})
                           => ent[d] \in Entries /\ ent[d] # e
      BY <1>2, EntryOf, Constants DEF Owned, HasLock, At, Typed, Locals
    <2>2. QED
      BY <1>1, <1>2, <1>3, <2>1 DEF Owned, HasLock
  <1>6. HandedOutOpen'
    BY <1>2 DEF Owned, OwnersApart, HandedOutOpen
  <1>7. OpenSessionsOwned'
    BY <1>1, <1>2, <1>3 DEF Owned, OpenSessionsOwned, At
  <1>8. QED
    BY <1>4, <1>5, <1>6, <1>7 DEF Owned

\* At the end of the close the entry forgets the session, which is not open.
LEMMA OwnedCloseEnd ==
  ASSUME Typed, Owned, NEW e \in Entries, NEW g \in Calls \cup Goroutines, lock[e] = g, CloseEnd(e),
         UNCHANGED <<req, ent, sess, open>>,
         UNCHANGED pc \/ (pc[g] = "close" /\ pc' = [pc EXCEPT ![g] = "lookup"]),
         g \in Calls => pc'[g] \notin {"dial", "close"}
  PROVE  Owned'
  <1>1. \A d \in Calls : Ephemeral(d)' = Ephemeral(d)
    BY EphemeralKept
  <1>2. /\ lock[e] # None /\ lock'[e] = None /\ held'[e] = 0
        /\ \A f \in Entries \ {e} : lock'[f] = lock[f] /\ held'[f] = held[f]
    BY Constants DEF CloseEnd, Typed, TypeOK, PoolTypes
  <1>3. \A d \in Calls : At(d, {"dial", "send", "wait", "close"})' => pc'[d] = pc[d]
    BY DEF At, Typed, TypeOK, CallTypes
  <1>4. OwnersApart'
    BY <1>1, <1>2, <1>3 DEF Owned, OwnersApart, At, Typed, Locals
  <1>5. HasLock'
    <2>1. \A d \in Calls : ((At(d, {"dial"}) /\ ~Ephemeral(d)) \/ At(d, {"close"}))'
                           => ent[d] \in Entries /\ ent[d] # e
      BY <1>1, <1>2, <1>3, EntryOf DEF Owned, HasLock, At, Typed, Locals
    <2>2. QED
      BY <1>1, <1>2, <1>3, <2>1 DEF Owned, HasLock, At
  <1>6. HandedOutOpen'
    BY <1>2 DEF Owned, HandedOutOpen
  <1>7. OpenSessionsOwned'
    <2>1. \A d \in Calls : At(d, {"send", "wait"}) => At(d, {"send", "wait"})'
      BY DEF At, Typed, TypeOK, CallTypes
    <2>2. held[e] # 0 => held[e] \notin open
      BY <1>2 DEF Owned, HandedOutOpen
    <2>3. 0 \notin open
      BY Constants DEF Typed, TypeOK, PoolTypes
    <2>4. QED
      BY <1>1, <1>2, <2>1, <2>2, <2>3 DEF Owned, OpenSessionsOwned, At
  <1>8. QED
    BY <1>4, <1>5, <1>6, <1>7 DEF Owned

\* Every step keeps the owners of open sessions.
LEMMA OwnedStep == Typed /\ Owned /\ [Next]_vars => Owned'
  <1> SUFFICES ASSUME Typed, Owned, [Next]_vars PROVE Owned'
    OBVIOUS
  <1> USE DEF Typed, TypeOK, CallTypes, PCs
  <1>1. ASSUME NEW c \in Calls, Arrive(c) PROVE Owned'
    <2>1. PICK r \in Requests[c] : /\ req' = [req EXCEPT ![c] = r]
                                   /\ pc' = [pc EXCEPT ![c] = Start(sessionKey(r))]
      BY <1>1 DEF Arrive, Goto
    <2>2. /\ pc[c] = "idle" /\ Key(c)' = sessionKey(r) /\ pc'[c] = Start(sessionKey(r))
          /\ \A d \in Calls \ {c} : UNCHANGED <<pc[d], req[d], ent[d]>>
      BY <1>1, <2>1 DEF Arrive, Key
    <2>3. UNCHANGED <<held, open, lock, sess>>
      BY <1>1 DEF Arrive, poolVars
    <2>4. QED
      BY <2>2, <2>3, OwnedQuiet DEF At, Start, Ephemeral
  <1>2. ASSUME NEW c \in Calls, Lookup(c) \/ Unlink(c) \/ Leave(c) PROVE Owned'
    <2>1. UNCHANGED <<held, open, lock, sess, req>>
      BY <1>2 DEF Lookup, Unlink, Leave, poolVars
    <2>2. /\ pc[c] \in {"lookup", "unlink", "answering", "failing"}
          /\ \A d \in Calls \ {c} : UNCHANGED <<pc[d], ent[d]>>
      BY <1>2, FailedGoes DEF Lookup, Unlink, Leave, Goto, Again
    <2>3. ~At(c, {"send", "wait", "close"})' /\ (At(c, {"dial"})' => Ephemeral(c))
      BY <1>2, FailedGoes DEF Lookup, Unlink, Leave, Goto, Again, At
    <2>4. Ephemeral(c)' = Ephemeral(c)
      BY <2>1, EphemeralKept
    <2>5. QED
      BY <2>1, <2>2, <2>3, <2>4, OwnedQuiet DEF At
  <1>3. ASSUME NEW c \in Calls, Enter(c) \/ DialOk(c) \/ DialFail(c) \/ Send(c) \/ Return(c)
        PROVE  Owned'
    BY <1>3, OwnedEnter, OwnedDialOk, OwnedDialFail, OwnedSend, OwnedReturn
  <1>4. ASSUME NEW c \in Calls, Evict(c) PROVE Owned'
    <2>1. ent[c] \in Entries /\ pc[c] = "evict" /\ UNCHANGED <<req, ent, sess, held>>
      BY <1>4, EntryOf DEF Evict, Locals, At
    <2>2. CASE CloseStart(ent[c], c) /\ Goto(c, "close")
      BY <2>1, <2>2, OwnedCloseStart DEF Goto
    <2>3. CASE NothingToClose(ent[c]) /\ Again(c)
      <3>1. UNCHANGED <<open, lock>> /\ pc' = [pc EXCEPT ![c] = "lookup"]
        BY <2>3 DEF NothingToClose, Again, Goto
      <3>2. QED
        BY <2>1, <3>1, OwnedQuiet DEF At
    <2>4. QED
      BY <1>4, <2>2, <2>3 DEF Evict
  <1>5. ASSUME NEW c \in Calls, Evicted(c) PROVE Owned'
    <2>1. ent[c] \in Entries /\ CloseEnd(ent[c]) /\ pc[c] = "close" /\ lock[ent[c]] = c
      BY <1>5, EntryOf DEF Evicted, Locals, At, Owned, HasLock
    <2>2. pc' = [pc EXCEPT ![c] = "lookup"] /\ UNCHANGED <<req, ent, sess, open>>
      BY <1>5 DEF Evicted, Again, Goto
    <2>3. pc'[c] = "lookup"
      BY <2>2
    <2>4. QED
      BY <2>1, <2>2, <2>3, OwnedCloseEnd
  <1>6. CASE UNCHANGED <<pc, req, ent, sess, held, open, lock>>
    BY <1>6, EphemeralKept
       DEF Owned, OwnersApart, HasLock, HandedOutOpen, OpenSessionsOwned, At
  <1>7. ASSUME NEW e \in Entries, NEW g \in Goroutines, UNCHANGED <<pc, req, ent, sess>>,
               \/ CloseStart(e, g) /\ UNCHANGED held
               \/ lock[e] = g /\ CloseEnd(e) /\ UNCHANGED open
               \/ NothingToClose(e) /\ UNCHANGED held
        PROVE  Owned'
    <2>1. CASE CloseStart(e, g) /\ UNCHANGED held
      BY <1>7, <2>1, OwnedCloseStart
    <2>2. CASE lock[e] = g /\ CloseEnd(e) /\ UNCHANGED open
      BY <1>7, <2>2, OwnedCloseEnd, Constants
    <2>3. CASE NothingToClose(e) /\ UNCHANGED held
      BY <1>6, <1>7, <2>3 DEF NothingToClose
    <2>4. QED
      BY <1>7, <2>1, <2>2, <2>3
  <1>8. ASSUME \/ \E e \in stale : SweepDrop(e) \/ SweepDropped(e)
               \/ \E p \in Closers : CloseStep(p)
        PROVE  Owned'
    <2>1. (\A e \in stale : e \in Entries) /\ \A p \in Closers : \A e \in closing[p] : e \in Entries
      <3>1. 1..nEntries \subseteq Entries
        BY Constants DEF PoolTypes, Entries
      <3>2. stale \subseteq 1..nEntries /\ closing \in [Closers -> SUBSET (1..nEntries)]
        BY DEF JanitorTypes
      <3>3. QED
        BY <3>1, <3>2
    <2>2. ASSUME NEW e \in stale, SweepDrop(e) \/ SweepDropped(e) PROVE Owned'
      <3>1. "run" \in Goroutines /\ UNCHANGED <<pc, req, ent, sess>>
        BY <2>2, Constants DEF SweepDrop, SweepDropped, callVars
      <3>2. \/ CloseStart(e, "run") /\ UNCHANGED held
            \/ lock[e] = "run" /\ CloseEnd(e) /\ UNCHANGED open
            \/ NothingToClose(e) /\ UNCHANGED held
        BY <2>2 DEF SweepDrop, SweepDropped
      <3>3. QED
        BY <1>7, <2>1, <3>1, <3>2
    <2>3. ASSUME NEW p \in Closers, NEW e \in closing[p], CloseEntry(p, e) \/ ClosedEntry(p, e)
          PROVE  Owned'
      <3>1. p \in Goroutines /\ UNCHANGED <<pc, req, ent, sess>>
        BY <2>3, Constants DEF CloseEntry, ClosedEntry, callVars
      <3>2. \/ CloseStart(e, p) /\ UNCHANGED held
            \/ lock[e] = p /\ CloseEnd(e) /\ UNCHANGED open
            \/ NothingToClose(e) /\ UNCHANGED held
        BY <2>3 DEF CloseEntry, ClosedEntry
      <3>3. QED
        BY <1>7, <2>1, <3>1, <3>2
    <2>4. QED
      BY <1>8, <2>2, <2>3 DEF CloseStep
  <1>9. QED
    BY <1>1, <1>2, <1>3, <1>4, <1>5, <1>6, <1>8 DEF Next, CallStep, SweepStep, SweepProgress, Over,
       vars, Execute, Restart, Age, SweepBegin, SweepVisit, SweepUnlock, CloseBegin, callVars,
       poolVars

-----------------------------------------------------------------------------
(***************************************************************************)
(* The second attempt goes out on another session.                         *)
(***************************************************************************)

\* No step gives an entry a session that there was before, or puts an entry
\* that holds one in the map.
LEMMA HoldersOnlyLeave ==
  ASSUME Typed, Blank, [Next]_vars, NEW s \in 1..nSessions, NEW e \in Entries
  PROVE  /\ held'[e] = s => held[e] = s
         /\ held[e] = s => \A k \in Keys : pool'[k] = e => pool[k] = e
  <1> USE DEF Typed, TypeOK, PoolTypes
  <1>1. s # 0 /\ s # nSessions + 1
    BY Constants
  <1>2. ASSUME NEW c \in Calls, DialOk(c)
        PROVE  (held'[e] = s => held[e] = s) /\ UNCHANGED pool
    BY <1>1, <1>2 DEF DialOk
  <1>3. ASSUME NEW f, CloseEnd(f) PROVE held'[e] = s => held[e] = s
    BY <1>1, <1>3 DEF CloseEnd
  <1>4. ASSUME NEW c \in Calls, Lookup(c), held[e] = s, NEW k \in Keys, pool'[k] = e
        PROVE  pool[k] = e
    <2>1. UNCHANGED pool \/ (nEntries < MaxEntries /\ pool' = [pool EXCEPT ![Key(c)] = nEntries + 1])
      BY <1>4 DEF Lookup
    <2>2. e # nEntries + 1
      BY <1>1, <1>4, Constants DEF Blank, Entries
    <2>3. QED
      BY <1>4, <2>1, <2>2
  <1>5. ASSUME NEW l, pool' = [pool EXCEPT ![l] = 0], NEW k \in Keys, pool'[k] = e PROVE pool[k] = e
    BY <1>5, Constants DEF Entries
  <1>6. ASSUME NEW p \in Closers, CloseBegin(p), NEW k \in Keys PROVE pool'[k] # e
    BY <1>6, Constants DEF CloseBegin, Entries
  <1>7. CASE \E c \in Calls : Arrive(c) \/ CallStep(c)
    <2>1. PICK c \in Calls : Arrive(c) \/ CallStep(c)
      BY <1>7
    <2>2. CASE Lookup(c)
      BY <1>4, <2>2 DEF Lookup
    <2>3. CASE DialOk(c)
      BY <1>2, <2>3
    <2>4. CASE Evicted(c)
      BY <1>3, <2>4 DEF Evicted
    <2>5. CASE Unlink(c)
      BY <1>5, <2>5 DEF Unlink
    <2>6. CASE \/ Arrive(c) \/ Enter(c) \/ DialFail(c) \/ Send(c) \/ Return(c) \/ Leave(c)
               \/ Evict(c)
      BY <2>6 DEF Arrive, Enter, DialFail, Send, Return, Leave, Evict, poolVars
    <2>7. QED
      BY <2>1, <2>2, <2>3, <2>4, <2>5, <2>6 DEF CallStep
  <1>8. CASE SweepStep
    <2>1. CASE \E k \in todo : SweepVisit(k)
      BY <1>5, <2>1 DEF SweepVisit
    <2>2. CASE \E f \in stale : SweepDrop(f) \/ SweepDropped(f)
      BY <1>3, <2>2 DEF SweepDrop, SweepDropped
    <2>3. CASE SweepUnlock
      BY <2>3 DEF SweepUnlock, poolVars
    <2>4. QED
      BY <1>8, <2>1, <2>2, <2>3 DEF SweepStep, SweepProgress
  <1>9. CASE \E p \in Closers : CloseBegin(p) \/ CloseStep(p)
    <2>1. CASE \E p \in Closers : CloseBegin(p)
      BY <1>6, <2>1 DEF CloseBegin
    <2>2. CASE \E p \in Closers : CloseStep(p)
      BY <1>3, <2>2 DEF CloseStep, CloseEntry, ClosedEntry
    <2>3. QED
      BY <1>9, <2>1, <2>2
  <1>10. CASE UNCHANGED <<held, pool>>
    BY <1>10
  <1>11. QED
    BY <1>7, <1>8, <1>9, <1>10 DEF Next, Over, vars, Execute, Restart, Age, SweepBegin, poolVars

\* Only its own steps move a call that has arrived.
LEMMA OthersStayPut ==
  ASSUME Typed, [Next]_vars, NEW c \in Calls, pc[c] # "idle", ~CallStep(c)
  PROVE  UNCHANGED <<pc[c], req[c], attempt[c], ent[c], sess[c]>>
  <1> USE DEF Typed, TypeOK, CallTypes
  <1>1. ASSUME NEW d \in Calls, Arrive(d)
        PROVE  UNCHANGED <<pc[c], req[c], attempt[c], ent[c], sess[c]>>
    BY <1>1 DEF Arrive, Goto
  <1>2. ASSUME NEW d \in Calls \ {c}, CallStep(d)
        PROVE  UNCHANGED <<pc[c], req[c], attempt[c], ent[c], sess[c]>>
    BY <1>2 DEF CallStep, Lookup, Enter, DialOk, DialFail, Send, Return, Leave, Unlink, Evict,
       Evicted, FailAttempt, GiveUp, Again, Goto
  <1>3. CASE UNCHANGED callVars
    BY <1>3 DEF callVars
  <1>4. QED
    BY <1>1, <1>2, <1>3 DEF Next, SweepStep, SweepProgress, CloseStep, Over, vars, Execute, Restart,
       Age, SweepBegin, SweepVisit, SweepUnlock, SweepDrop, SweepDropped, CloseBegin, CloseEntry,
       ClosedEntry

\* A step of the call itself leaves the session of its first attempt out of its
\* reach, and puts it there when the second begins.
LEMMA OutOfReachStep ==
  ASSUME Typed, Blank, [Next]_vars, NEW m \in sent, CallStep(m.call),
         m.call \in Calls, m.session \in 1..nSessions, m.attempt <= attempt[m.call],
         At(m.call, {"evict", "close"}) \/ m.attempt # attempt[m.call]
           => OutOfReach(m.call, m.session),
         At(m.call, {"evict", "close"})' \/ m.attempt # attempt'[m.call]
  PROVE  OutOfReach(m.call, m.session)'
  <1> DEFINE c == m.call
             s == m.session
  <1> USE DEF Typed, TypeOK, CallTypes
  <1>1. \A e \in Entries : /\ held'[e] = s => held[e] = s
                           /\ held[e] = s => \A k \in Keys : pool'[k] = e => pool[k] = e
    BY HoldersOnlyLeave
  <1>2. UNCHANGED req /\ Key(c)' = Key(c) /\ (~Ephemeral(c) => Key(c) \in Keys)
    BY KeyFacts DEF CallStep, Lookup, Enter, DialOk, DialFail, Send, Return, Leave, Unlink, Evict,
       Evicted, Key, Ephemeral
  <1>3. Ephemeral(c)' = Ephemeral(c)
    BY <1>2 DEF Ephemeral
  <1>4. ASSUME ~At(c, {"enter", "dial", "send"})' \/ (Ephemeral(c) /\ ~At(c, {"send"})'),
               pool'[Key(c)] = 0 \/ OutOfReach(c, s)
        PROVE  OutOfReach(c, s)'
    <2>1. SUFFICES ASSUME ~Ephemeral(c), NEW e \in Entries, held'[e] = s PROVE pool'[Key(c)] # e
      BY <1>2, <1>3, <1>4 DEF OutOfReach, At
    <2>2. e # 0
      BY Constants DEF Entries
    <2>3. QED
      BY <1>1, <1>2, <1>4, <2>1, <2>2 DEF OutOfReach
  <1>5. CASE Lookup(c)
    <2>1. pc[c] = "lookup" /\ ~Ephemeral(c)
      BY <1>5 DEF Lookup, Locals, At
    <2>2. UNCHANGED attempt[c] /\ pc'[c] \notin {"evict", "close"}
      BY <1>5, <2>1 DEF Lookup, Goto, FailAttempt
    <2>3. OutOfReach(c, s)
      BY <2>2 DEF At
    <2>4. CASE FailAttempt(c)
      BY <1>4, <2>1, <2>3, <2>4, FailedGoes DEF At
    <2>5. CASE Goto(c, "enter") /\ ent' = [ent EXCEPT ![c] = pool'[Key(c)]]
      BY <1>1, <1>2, <1>3, <2>1, <2>3, <2>5 DEF OutOfReach, At, Goto
    <2>6. QED
      BY <1>5, <2>4, <2>5 DEF Lookup
  <1>6. CASE Enter(c)
    <2>1. /\ OutOfReach(c, s) /\ ~Ephemeral(c) /\ ent[c] \in Entries /\ held[ent[c]] # s
          /\ UNCHANGED <<held, pool, ent>>
      BY <1>6, EntryOf DEF Enter, Goto, At, OutOfReach, Locals
    <2>2. pc'[c] \in {"send", "dial"} /\ (pc'[c] = "send" => sess'[c] = held[ent[c]])
      BY <1>6 DEF Enter, Goto
    <2>3. QED
      BY <1>2, <1>3, <2>1, <2>2 DEF OutOfReach, At
  <1>7. CASE DialOk(c)
    <2>1. OutOfReach(c, s) /\ pc'[c] = "send" /\ sess'[c] # s
      BY <1>7, Constants DEF DialOk, Goto, At, PoolTypes
    <2>2. QED
      BY <1>1, <1>2, <1>3, <2>1 DEF OutOfReach, At
  <1>8. CASE DialFail(c) \/ Send(c) \/ Return(c) \/ Leave(c)
    <2>1. pc[c] \in {"dial", "send", "wait", "answering", "failing"}
      BY <1>8 DEF DialFail, Send, Return, Leave
    <2>2. CASE FailAttempt(c)
      <3>1. Ephemeral(c) \/ OutOfReach(c, s)
        BY <2>1, <2>2 DEF FailAttempt, Goto, At
      <3>2. ~At(c, {"enter", "send"})' /\ (At(c, {"dial"})' => Ephemeral(c))
        BY <2>2, FailedGoes DEF At
      <3>3. QED
        BY <1>3, <1>4, <3>1, <3>2 DEF OutOfReach, At
    <2>3. CASE pc'[c] \in {"wait", "answering", "failing", "answered"} /\ UNCHANGED attempt
      BY <1>4, <2>1, <2>3 DEF At
    <2>4. QED
      BY <1>8, <2>2, <2>3 DEF DialFail, Send, Return, Leave, GiveUp, Goto
  <1>9. CASE Unlink(c) \/ Evict(c) \/ Evicted(c)
    <2>1. ~At(c, {"enter", "dial", "send"})'
      BY <1>9 DEF Unlink, Evict, Evicted, Again, Goto, At
    <2>2. CASE Unlink(c)
      <3>1. pool'[Key(c)] = 0
        BY <1>2, <2>2 DEF Unlink, Locals, At, PoolTypes
      <3>2. QED
        BY <1>4, <2>1, <3>1
    <2>3. CASE Evict(c) \/ Evicted(c)
      BY <1>4, <2>1, <2>3 DEF Evict, Evicted, At
    <2>4. QED
      BY <1>9, <2>2, <2>3
  <1>10. QED
    BY <1>5, <1>6, <1>7, <1>8, <1>9 DEF CallStep

\* Every step keeps the session of a first attempt out of the reach of the second.
LEMMA ElsewhereStep ==
  ASSUME Typed, Blank, OncePerAttempt, Elsewhere, [Next]_vars
  PROVE  Elsewhere'
  <1> USE DEF Typed, TypeOK, CallTypes
  <1>1. SUFFICES ASSUME NEW m \in sent',
                        At(m.call, {"evict", "close"})' \/ m.attempt # attempt'[m.call]
                 PROVE  OutOfReach(m.call, m.session)'
    BY DEF Elsewhere
  <1>2. m \in sent
    <2>1. sent' = sent \/ \E c \in Calls : /\ sent' = sent \cup {Message(c)}
                                          /\ Goto(c, "wait") /\ UNCHANGED attempt
      BY DEF Next, CallStep, Arrive, Lookup, Enter, DialOk, DialFail, Send, Return, Leave, Unlink,
         Evict, Evicted, SweepStep, SweepProgress, CloseStep, Over, vars, Execute, Restart, Age,
         SweepBegin, SweepVisit, SweepUnlock, SweepDrop, SweepDropped, CloseBegin, CloseEntry,
         ClosedEntry, serverVars
    <2>2. ASSUME NEW c \in Calls, Goto(c, "wait"), UNCHANGED attempt PROVE m # Message(c)
      BY <1>1, <2>2 DEF Goto, Message, At
    <2>3. QED
      BY <1>1, <2>1, <2>2
  <1>3. /\ m.call \in Calls /\ m.session \in 1..nSessions /\ m.attempt <= attempt[m.call]
        /\ pc[m.call] # "idle"
    BY <1>2 DEF ServerTypes, Messages, OncePerAttempt, Locals, At
  <1>4. CASE CallStep(m.call)
    BY <1>1, <1>2, <1>3, <1>4, OutOfReachStep DEF Elsewhere
  <1>5. CASE ~CallStep(m.call)
    <2>1. UNCHANGED <<pc[m.call], req[m.call], attempt[m.call], ent[m.call], sess[m.call]>>
      BY <1>3, <1>5, OthersStayPut
    <2>2. OutOfReach(m.call, m.session)
      BY <1>1, <1>2, <2>1 DEF Elsewhere, At
    <2>3. \A e \in Entries :
            /\ held'[e] = m.session => held[e] = m.session
            /\ held[e] = m.session => \A k \in Keys : pool'[k] = e => pool[k] = e
      BY <1>3, HoldersOnlyLeave
    <2>4. /\ Key(m.call)' = Key(m.call) /\ Ephemeral(m.call)' = Ephemeral(m.call)
          /\ ~Ephemeral(m.call) => Key(m.call) \in Keys
      BY <1>3, <2>1, KeyFacts DEF Key, Ephemeral
    <2>5. QED
      BY <2>1, <2>2, <2>3, <2>4 DEF OutOfReach, At
  <1>6. QED
    BY <1>4, <1>5

\* A call with an answer keeps it, and what ran stays, until its close is over.
LEMMA AnswerRanStep == Typed /\ AnswerRan /\ [Next]_vars => AnswerRan'
  <1> SUFFICES ASSUME Typed, AnswerRan, [Next]_vars, NEW c \in Calls, pc'[c] = "answering"
               PROVE  \E r \in ran' : r.msg = Message(c)'
    BY DEF AnswerRan, At
  <1> USE DEF Typed, TypeOK, CallTypes
  <1>1. CASE CallStep(c)
    <2>1. Return(c) /\ \E r \in ran : r.msg = Message(c)
      BY <1>1 DEF CallStep, Lookup, Enter, DialOk, DialFail, Send, GiveUp, Return, Leave, Unlink,
         Evict, Evicted, FailAttempt, Again, Goto
    <2>2. UNCHANGED <<attempt[c], sess, ran>>
      BY <1>1, <2>1 DEF Return, GiveUp, FailAttempt, Goto, serverVars
    <2>3. QED
      BY <2>1, <2>2 DEF Message
  <1>2. CASE ~CallStep(c)
    <2>1. pc[c] # "idle"
      <3>1. ASSUME NEW d \in Calls, Arrive(d) PROVE pc[c] # "idle"
        BY <3>1 DEF Arrive, Goto, Start
      <3>2. ASSUME NEW d \in Calls, CallStep(d) PROVE pc[c] # "idle"
        <4>1. d # c /\ \E label \in PCs : pc' = [pc EXCEPT ![d] = label]
          BY <1>2, <3>2 DEF CallStep, Lookup, Enter, DialOk, DialFail, Send, GiveUp, Return, Leave,
             Unlink, Evict, Evicted, FailAttempt, Again, Goto, PCs
        <4>2. QED
          BY <4>1
      <3>3. CASE UNCHANGED callVars
        BY <3>3 DEF callVars
      <3>4. QED
        BY <3>1, <3>2, <3>3 DEF Next, SweepStep, SweepProgress, CloseStep, Over, vars, Execute,
           Restart, Age, SweepBegin, SweepVisit, SweepUnlock, SweepDrop, SweepDropped, CloseBegin,
           CloseEntry, ClosedEntry
    <2>2. UNCHANGED <<pc[c], attempt[c], sess[c]>>
      BY <1>2, <2>1, OthersStayPut
    <2>3. ran \subseteq ran'
      BY DEF Next, CallStep, Arrive, Lookup, Enter, DialOk, DialFail, Send, Return, Leave, Unlink,
         Evict, Evicted, SweepStep, SweepProgress, CloseStep, Over, vars, Execute, Restart, Age,
         SweepBegin, SweepVisit, SweepUnlock, SweepDrop, SweepDropped, CloseBegin, CloseEntry,
         ClosedEntry, serverVars
    <2>4. QED
      BY <2>2, <2>3 DEF AnswerRan, At, Message
  <1>3. QED
    BY <1>1, <1>2

-----------------------------------------------------------------------------
(***************************************************************************)
(* The theorems.                                                           *)
(***************************************************************************)

\* The initial state satisfies the inductive invariant.
LEMMA ApartInit == Init => Apart
  <1> SUFFICES ASSUME Init PROVE Apart
    OBVIOUS
  <1>1. Typed
    BY TypedInit
  <1>2. Blank /\ OncePerAttempt /\ Isolation /\ AnswerRan
    BY DEF Init, Blank, OncePerAttempt, Isolation, AnswerRan, At
  <1>3. EntriesApart
    BY DEF Init, EntriesApart, Reaches, Entries
  <1>4. SessionsApart
    BY DEF Init, SessionsApart, Touches, Sessions
  <1>5. QED
    BY <1>1, <1>2, <1>3, <1>4 DEF Apart

\* Every step preserves the inductive invariant.
LEMMA ApartStep == Apart /\ [Next]_vars => Apart'
  BY TypedStep, BlankStep, EntriesApartStep, SessionsApartStep, OncePerAttemptStep, IsolationStep,
     AnswerRanStep DEF Apart

\* The inductive invariant holds: identities stay apart in the entries, in the
\* sessions, in the requests under way and in what the server bound and ran.
THEOREM ApartAlways == Spec => []Apart
  BY ApartInit, ApartStep, PTL DEF Spec

\* Every variable stays in its type, whatever the number of calls and keys.
THEOREM TypeCorrect == Spec => []TypeOK
  <1>1. Apart => TypeOK
    BY DEF Apart, Typed
  <1>2. QED
    BY <1>1, ApartAlways, PTL

\* The server runs a call as that call's caller or as nobody, whatever shares
\* the pool with it and whatever is evicted, swept or dialled meanwhile.
THEOREM IsolationHolds == Spec => []Isolation
  <1>1. Apart => Isolation
    BY DEF Apart
  <1>2. QED
    BY <1>1, ApartAlways, PTL

\* The server runs a call that may not be repeated at most once, however its
\* answers are lost or late.
THEOREM AtMostOnceHolds == Spec => []AtMostOnce
  <1>1. ASSUME Apart PROVE AtMostOnce
    <2> SUFFICES ASSUME NEW r \in ran, NEW q \in ran, r.msg.call = q.msg.call,
                        req[r.msg.call].kind # "read"
                 PROVE  r = q
      BY DEF AtMostOnce
    <2>1. r.msg \in sent /\ q.msg \in sent
      BY <1>1 DEF Apart, OncePerAttempt
    <2>2. /\ r.msg.call \in Calls
          /\ r.msg.attempt \in {1, 2} /\ q.msg.attempt \in {1, 2}
      BY <1>1, <2>1 DEF Apart, Typed, TypeOK, ServerTypes, Messages
    <2>3. attempt[r.msg.call] = 1
      BY <1>1, <2>2 DEF Apart, Typed, Locals, Idempotent
    <2>4. r.msg.attempt = 1 /\ q.msg.attempt = 1
      BY <1>1, <2>1, <2>2, <2>3 DEF Apart, OncePerAttempt
    <2>5. QED
      BY <1>1, <2>1, <2>4 DEF Apart, OncePerAttempt
  <1>2. QED
    BY <1>1, ApartAlways, PTL

\* No entry offers a session that the client has closed, and every session that
\* is open has an owner: an entry, or the one call that uses it.
THEOREM OwnedAlways == Spec => [](HandedOutOpen /\ OpenSessionsOwned)
  <1>1. Init => Owned
    BY DEF Init, Owned, OwnersApart, HasLock, HandedOutOpen, OpenSessionsOwned, At
  <1>2. Apart => Typed
    BY DEF Apart
  <1>3. Owned => HandedOutOpen /\ OpenSessionsOwned
    BY DEF Owned
  <1>4. QED
    BY <1>1, <1>2, <1>3, OwnedStep, ApartAlways, PTL DEF Spec

\* No entry offers a session that the client has closed already.
THEOREM HandedOutStaysOpen == Spec => []HandedOutOpen
  BY OwnedAlways, PTL

\* Closing takes no entry back into the map: who closes an entry has taken it
\* out before, and nobody puts it back.
LEMMA TakenOutStep == Typed /\ EntriesApart /\ TakenOut /\ [Next]_vars => TakenOut'
  <1> SUFFICES ASSUME Typed, EntriesApart, TakenOut, [Next]_vars PROVE TakenOut'
    OBVIOUS
  <1>1. /\ nEntries \in Nat /\ pool \in [Keys -> 0..nEntries] /\ pc \in [Calls -> PCs]
        /\ ent \in [Calls -> 0..nEntries] /\ 1..nEntries \subseteq Entries /\ 0 \notin Entries
        /\ stale \subseteq 1..nEntries /\ todo \subseteq Keys
        /\ closing \in [Closers -> SUBSET (1..nEntries)]
    BY Constants DEF Typed, TypeOK, PoolTypes, CallTypes, JanitorTypes, Entries
  <1>2. \A c \in Calls : At(c, {"evict", "close"}) => ent[c] \in 1..nEntries
    BY <1>1 DEF Typed, Locals, At
  <1>3. ASSUME UNCHANGED <<stale, closing, shut>>,
               \A e \in 1..nEntries : Unlinked(e) => Unlinked(e)',
               \A c \in Calls : At(c, {"evict", "close"})' =>
                 \/ At(c, {"evict", "close"}) /\ UNCHANGED ent[c]
                 \/ Unlinked(ent[c])'
        PROVE  TakenOut'
    BY <1>1, <1>2, <1>3 DEF TakenOut
  <1>4. ASSUME NEW c \in Calls, Lookup(c) PROVE TakenOut'
    <2>1. UNCHANGED pool \/ pool' = [pool EXCEPT ![Key(c)] = nEntries + 1]
      BY <1>4 DEF Lookup
    <2>2. \A e \in 1..nEntries : Unlinked(e) => Unlinked(e)'
      BY <1>1, <2>1 DEF Unlinked
    <2>3. pc[c] = "lookup" /\ ~At(c, {"evict", "close"})'
      BY <1>1, <1>4, FailedGoes DEF Lookup, Goto, At
    <2>4. \A d \in Calls \ {c} : UNCHANGED <<pc[d], ent[d]>>
      BY <1>1, <1>4, FailedGoes DEF Lookup, Goto
    <2>5. QED
      BY <1>3, <1>4, <2>2, <2>3, <2>4 DEF Lookup, janitorVars, At
  <1>5. ASSUME NEW c \in Calls, Unlink(c) PROVE TakenOut'
    <2>1. UNCHANGED pool \/ pool' = [pool EXCEPT ![Key(c)] = 0]
      BY <1>5 DEF Unlink
    <2>2. \A e \in 1..nEntries : Unlinked(e) => Unlinked(e)'
      BY <1>1, <2>1 DEF Unlinked
    <2>3. \A d \in Calls \ {c} : UNCHANGED <<pc[d], ent[d]>>
      BY <1>1, <1>5 DEF Unlink, Goto, Again
    <2>4. ASSUME At(c, {"evict", "close"})' PROVE Unlinked(ent[c])'
      <3>1. /\ ent'[c] = pool[Key(c)] /\ pool[Key(c)] # 0
            /\ pool' = [pool EXCEPT ![Key(c)] = 0] /\ Key(c) \in Keys
        BY <1>1, <1>5, <2>4, CallerFacts
           DEF Unlink, Again, Goto, At, Typed, Locals, TypeOK, CallTypes
      <3>2. ent'[c] \in Entries /\ ent'[c] # 0
        BY <1>1, <3>1
      <3>3. \A k \in Keys : pool[k] = ent'[c] => k = Key(c)
        BY <3>1, <3>2 DEF EntriesApart, Reaches
      <3>4. QED
        BY <1>1, <3>1, <3>2, <3>3 DEF Unlinked
    <2>5. QED
      BY <1>3, <1>5, <2>2, <2>3, <2>4 DEF Unlink, janitorVars, At
  <1>6. ASSUME NEW c \in Calls, Evict(c) \/ Evicted(c) PROVE TakenOut'
    BY <1>1, <1>3, <1>6 DEF Evict, Evicted, Goto, Again, At, Unlinked, janitorVars
  <1>7. ASSUME NEW c \in Calls,
               \/ Arrive(c) \/ Enter(c) \/ DialOk(c) \/ DialFail(c) \/ Send(c) \/ Return(c)
               \/ Leave(c)
        PROVE  TakenOut'
    <2>1. UNCHANGED <<pool, ent, stale, closing, shut>>
      BY <1>7 DEF Arrive, Enter, DialOk, DialFail, Send, Return, Leave, poolVars, janitorVars
    <2>2. ~At(c, {"evict", "close"})' /\ \A d \in Calls \ {c} : UNCHANGED pc[d]
      BY <1>1, <1>7, FailedGoes
         DEF Arrive, Start, Enter, DialOk, DialFail, Send, Return, Leave, Goto, At
    <2>3. QED
      BY <1>3, <2>1, <2>2 DEF Unlinked, At
  <1>8. ASSUME NEW k \in todo, SweepVisit(k) PROVE TakenOut'
    <2>1. UNCHANGED <<pc, ent, closing, shut>>
      BY <1>8 DEF SweepVisit, callVars
    <2>2. CASE UNCHANGED <<stale, pool>>
      BY <1>3, <2>1, <2>2 DEF Unlinked, At
    <2>3. CASE stale' = stale \cup {pool[k]} /\ pool' = [pool EXCEPT ![k] = 0]
      <3>1. \A e \in 1..nEntries : Unlinked(e) => Unlinked(e)'
        BY <1>1, <2>3 DEF Unlinked
      <3>2. k \in Keys /\ pool[k] \in Entries
        BY <1>1, <1>8 DEF SweepVisit, Typed, Visiting
      <3>3. PICK e \in Entries : e = pool[k]
        BY <3>2
      <3>4. e # 0 /\ \A l \in Keys : pool[l] = e => l = k
        BY <1>1, <3>2, <3>3 DEF EntriesApart, Reaches
      <3>5. Unlinked(e)'
        BY <1>1, <2>3, <3>2, <3>4 DEF Unlinked
      <3>6. stale' = stale \cup {e}
        BY <2>3, <3>3
      <3>7. QED
        BY <1>1, <1>2, <2>1, <3>1, <3>5, <3>6 DEF TakenOut, At
    <2>4. QED
      BY <1>8, <2>2, <2>3 DEF SweepVisit
  <1>9. ASSUME NEW p \in Closers, CloseBegin(p) PROVE TakenOut'
    <2>1. \A e : e # 0 => Unlinked(e)'
      BY <1>9 DEF CloseBegin, Unlinked
    <2>2. UNCHANGED <<pc, ent, stale>> /\ shut' = shut \cup {p}
      BY <1>9 DEF CloseBegin, callVars
    <2>3. closing' = [closing EXCEPT ![p] = {pool[k] : k \in Keys} \ {0}]
      BY <1>9 DEF CloseBegin
    <2>4. \A q \in Closers : closing'[q] \subseteq Nat \ {0} /\ (closing'[q] # {} => q \in shut')
      BY <1>1, <2>2, <2>3 DEF TakenOut
    <2>5. QED
      BY <1>1, <1>2, <2>1, <2>2, <2>4 DEF TakenOut, At
  <1>10. CASE /\ UNCHANGED <<pc, ent, pool, shut>> /\ stale' \subseteq stale
              /\ \A p \in Closers : closing'[p] \subseteq closing[p]
    BY <1>10 DEF TakenOut, Unlinked, At
  <1>11. ASSUME NEW p \in Closers, CloseStep(p) PROVE TakenOut'
    BY <1>1, <1>10, <1>11 DEF CloseStep, CloseEntry, ClosedEntry, DoneWith, callVars
  <1>12. ASSUME NEW e \in stale, SweepDrop(e) \/ SweepDropped(e) PROVE TakenOut'
    BY <1>10, <1>12 DEF SweepDrop, SweepDropped, Dropped, callVars
  <1>13. QED
    BY <1>4, <1>5, <1>6, <1>7, <1>8, <1>9, <1>10, <1>11, <1>12 DEF Next, CallStep, SweepStep,
       SweepProgress, Over, vars, Execute, Restart, Age, SweepBegin, SweepUnlock, callVars, poolVars,
       janitorVars

\* What a goroutine does with an entry whose lock it has, in or out of the map.
Does(g, e) ==
  \/ Dials(g, e)
  \/ g \in Calls /\ pc[g] = "close" /\ ent[g] = e
  \/ g = "run" /\ rpc = "drop" /\ e \in stale
  \/ g \in Closers /\ e \in closing[g]

\* Who has a lock is in the exchange it took the lock for, and has no other.
LEMMA HoldersDo ==
  ASSUME HoldersTalk, NEW e \in Entries, NEW g, g # None, lock[e] = g
  PROVE  Does(g, e) /\ \A f \in Entries : lock[f] = g => f = e
  BY DEF HoldersTalk, Talks, Closes, Does

\* A step releases locks, or one goroutine that has none takes one, and is then
\* in the exchange that it takes it for.
LEMMA LocksMove ==
  ASSUME Typed, HoldersTalk, [Next]_vars
  PROVE  \/ \A e \in Entries : lock'[e] \in {lock[e], None}
         \/ \E x \in Entries, g \in Calls \cup Goroutines :
              /\ lock' = [lock EXCEPT ![x] = g]
              /\ \A f \in Entries : lock[f] # g
              /\ Does(g, x)'
  <1> DEFINE Released == \A e \in Entries : lock'[e] \in {lock[e], None}
             Taken(g, x) == /\ lock' = [lock EXCEPT ![x] = g]
                            /\ \A f \in Entries : lock[f] # g
                            /\ Does(g, x)'
  <1> SUFFICES Released \/ \E x \in Entries, g \in Calls \cup Goroutines : Taken(g, x)
    OBVIOUS
  <1>1. /\ lock \in [Entries -> Calls \cup Goroutines \cup {None}]
        /\ pc \in [Calls -> PCs] /\ ent \in [Calls -> 0..nEntries]
        /\ \A e \in stale : e \in Entries
        /\ \A p \in Closers : \A e \in closing[p] : e \in Entries
    <2>1. 1..nEntries \subseteq Entries
      BY Constants DEF Typed, TypeOK, PoolTypes, Entries
    <2>2. QED
      BY <2>1 DEF Typed, TypeOK, PoolTypes, CallTypes, JanitorTypes
  <1>2. ASSUME NEW c \in Calls, pc[c] \in {"enter", "evict"}
        PROVE  (\A f \in Entries : lock[f] # c) /\ ent[c] \in Entries /\ ~Ephemeral(c)
    <2>1. ent[c] \in Entries /\ ~Ephemeral(c)
      BY <1>2, EntryOf DEF Typed, Locals, At
    <2>2. c # "run" /\ c \notin Closers /\ c # None
      BY Constants
    <2>3. ASSUME NEW f \in Entries, lock[f] = c PROVE FALSE
      <3>1. Does(c, f)
        BY <2>2, <2>3, HoldersDo
      <3>2. QED
        BY <1>2, <2>2, <3>1 DEF Does, Dials
    <2>4. QED
      BY <2>1, <2>3
  <1>3. CASE UNCHANGED lock
    BY <1>3
  <1>4. ASSUME NEW e, lock' = [lock EXCEPT ![e] = None] PROVE Released
    BY <1>1, <1>4
  <1>5. ASSUME NEW c \in Calls, Enter(c), ~UNCHANGED lock PROVE Taken(c, ent[c])
    <2>1. /\ pc[c] = "enter" /\ UNCHANGED <<req, ent>>
          /\ lock' = [lock EXCEPT ![ent[c]] = c] /\ pc'[c] = "dial"
      BY <1>1, <1>5 DEF Enter, Goto
    <2>2. ~Ephemeral(c)'
      BY <1>2, <2>1, EphemeralKept
    <2>3. QED
      BY <1>2, <2>1, <2>2 DEF Does, Dials
  <1>6. ASSUME NEW c \in Calls, Evict(c), ~UNCHANGED lock PROVE Taken(c, ent[c])
    <2>1. /\ pc[c] = "evict" /\ UNCHANGED ent
          /\ lock' = [lock EXCEPT ![ent[c]] = c] /\ pc'[c] = "close"
      BY <1>1, <1>6 DEF Evict, NothingToClose, CloseStart, Goto
    <2>2. QED
      BY <1>2, <2>1 DEF Does
  <1>7. ASSUME NEW e \in stale, SweepDrop(e), ~UNCHANGED lock PROVE Taken("run", e)
    <2>1. /\ lock' = [lock EXCEPT ![e] = "run"] /\ ~Busy("run")
          /\ rpc' = "drop" /\ e \in stale'
      BY <1>7 DEF SweepDrop, NothingToClose, CloseStart
    <2>2. QED
      BY <2>1 DEF Does, Busy
  <1>8. ASSUME NEW p \in Closers, NEW e \in closing[p], CloseEntry(p, e), ~UNCHANGED lock
        PROVE  Taken(p, e)
    <2>1. lock' = [lock EXCEPT ![e] = p] /\ ~Busy(p) /\ e \in closing'[p]
      BY <1>8 DEF CloseEntry, NothingToClose, CloseStart
    <2>2. QED
      BY <2>1 DEF Does, Busy
  <1>9. CASE \E c \in Calls : Arrive(c) \/ CallStep(c)
    <2>1. PICK c \in Calls : Arrive(c) \/ CallStep(c)
      BY <1>9
    <2>2. CASE Enter(c) \/ Evict(c)
      BY <1>2, <1>3, <1>5, <1>6, <2>2 DEF Enter, Evict
    <2>3. CASE DialOk(c) \/ DialFail(c)
      BY <1>3, <1>4, <2>3 DEF DialOk, DialFail, Unlock
    <2>4. CASE Evicted(c)
      BY <1>4, <2>4 DEF Evicted, CloseEnd
    <2>5. CASE Arrive(c) \/ Lookup(c) \/ Send(c) \/ Return(c) \/ Leave(c) \/ Unlink(c)
      BY <1>3, <2>5 DEF Arrive, Lookup, Send, Return, Leave, Unlink, poolVars
    <2>6. QED
      BY <2>1, <2>2, <2>3, <2>4, <2>5 DEF CallStep
  <1>10. CASE \E e \in stale : SweepDrop(e) \/ SweepDropped(e)
    BY <1>1, <1>3, <1>4, <1>7, <1>10, Constants DEF SweepDropped, CloseEnd
  <1>11. CASE \E p \in Closers : CloseStep(p)
    BY <1>1, <1>3, <1>4, <1>8, <1>11, Constants DEF CloseStep, ClosedEntry, CloseEnd
  <1>12. QED
    BY <1>3, <1>9, <1>10, <1>11 DEF Next, SweepStep, SweepProgress, Over, vars, Execute, Restart,
       Age, SweepBegin, SweepVisit, SweepUnlock, CloseBegin, poolVars

\* Who keeps a lock goes on with what it has the lock for.
LEMMA HoldersGoOn ==
  ASSUME Typed, TakenOut, HoldersTalk, [Next]_vars,
         NEW e \in Entries, NEW g, g # None, lock[e] = g, lock'[e] = g
  PROVE  Does(g, e)'
  <1>1. Does(g, e) /\ \A f \in Entries : lock[f] = g => f = e
    BY HoldersDo
  <1>2. ASSUME NEW f, lock' = [lock EXCEPT ![f] = None] PROVE f # e
    BY <1>2 DEF Typed, TypeOK, PoolTypes
  <1>3. Busy(g)
    BY DEF Busy
  <1>4. \A f \in stale : f \in Entries
    BY Constants DEF Typed, TypeOK, PoolTypes, JanitorTypes, Entries
  <1>5. \A p \in Closers : \A f \in closing[p] : f \in Entries
    BY Constants DEF Typed, TypeOK, PoolTypes, JanitorTypes, Entries
  <1>6. CASE g \in Calls /\ pc[g] \in {"dial", "close"} /\ ent[g] = e
             /\ (pc[g] = "dial" => ~Ephemeral(g))
    <2>1. ~CallStep(g)
      <3>1. ~(DialOk(g) \/ DialFail(g))
        BY <1>2, <1>6 DEF DialOk, DialFail, Unlock
      <3>2. ~Evicted(g)
        BY <1>2, <1>6 DEF Evicted, CloseEnd
      <3>3. QED
        BY <1>6, <3>1, <3>2 DEF CallStep, Lookup, Enter, Send, Return, Leave, Unlink, Evict
    <2>2. UNCHANGED <<pc[g], req[g], ent[g]>>
      BY <1>6, <2>1, OthersStayPut
    <2>3. QED
      BY <1>6, <2>2 DEF Does, Dials, Ephemeral, Key
  <1>7. CASE g = "run" /\ rpc = "drop" /\ e \in stale
    <2>1. ASSUME NEW f \in stale, SweepDrop(f) PROVE FALSE
      BY <1>3, <1>7, <2>1 DEF SweepDrop
    <2>2. ASSUME NEW f \in stale, SweepDropped(f) PROVE FALSE
      BY <1>1, <1>2, <1>4, <1>7, <2>2 DEF SweepDropped, CloseEnd
    <2>3. ASSUME NEW p \in Closers, CloseBegin(p) PROVE UNCHANGED <<rpc, stale>>
      BY <1>7, <2>3 DEF CloseBegin
    <2>4. UNCHANGED <<rpc, stale>>
      BY <1>7, <2>1, <2>2, <2>3 DEF Next, CallStep, Arrive, Lookup, Enter, DialOk, DialFail, Send,
         Return, Leave, Unlink, Evict, Evicted, SweepStep, SweepProgress, CloseStep, Over, vars,
         Execute, Restart, Age, SweepBegin, SweepVisit, SweepUnlock, CloseEntry, ClosedEntry,
         janitorVars
    <2>5. QED
      BY <1>7, <2>4 DEF Does
  <1>8. CASE g \in Closers /\ e \in closing[g]
    <2>1. closing \in [Closers -> SUBSET (1..nEntries)]
      BY DEF Typed, TypeOK, JanitorTypes
    <2>2. ASSUME NEW p \in Closers, CloseBegin(p) PROVE UNCHANGED closing[g]
      <3>1. p # g
        BY <1>8, <2>2 DEF CloseBegin, TakenOut
      <3>2. QED
        BY <2>1, <2>2, <3>1 DEF CloseBegin
    <2>3. ASSUME NEW p \in Closers, NEW f \in closing[p], CloseEntry(p, f) PROVE UNCHANGED closing[g]
      <3>1. p # g
        BY <1>3, <2>3 DEF CloseEntry
      <3>2. QED
        BY <1>8, <2>1, <2>3, <3>1 DEF CloseEntry, DoneWith
    <2>4. ASSUME NEW p \in Closers, NEW f \in closing[p], ClosedEntry(p, f)
          PROVE  UNCHANGED closing[g]
      <3>1. p # g
        BY <1>1, <1>2, <1>5, <2>4 DEF ClosedEntry, CloseEnd
      <3>2. QED
        BY <1>8, <2>1, <2>4, <3>1 DEF ClosedEntry, DoneWith
    <2>5. UNCHANGED closing[g]
      BY <2>2, <2>3, <2>4 DEF Next, CallStep, Arrive, Lookup, Enter, DialOk, DialFail, Send, Return,
         Leave, Unlink, Evict, Evicted, SweepStep, SweepProgress, CloseStep, Over, vars, Execute,
         Restart, Age, SweepBegin, SweepVisit, SweepUnlock, SweepDrop, SweepDropped, janitorVars
    <2>6. QED
      BY <1>8, <2>5 DEF Does
  <1>9. QED
    BY <1>1, <1>6, <1>7, <1>8 DEF Does, Dials

\* Whoever holds the lock of an entry talks to the server for it.
LEMMA HoldersTalkStep ==
  Typed /\ EntriesApart /\ TakenOut /\ HoldersTalk /\ [Next]_vars => HoldersTalk'
  <1> SUFFICES ASSUME Typed, EntriesApart, TakenOut, HoldersTalk, [Next]_vars PROVE HoldersTalk'
    OBVIOUS
  <1>1. lock \in [Entries -> Calls \cup Goroutines \cup {None}]
    BY DEF Typed, TypeOK, PoolTypes
  <1>2. ASSUME NEW g, NEW e \in Entries, Does(g, e)' PROVE (Dials(g, e) \/ Closes(g, e))'
    <2>1. TakenOut'
      BY TakenOutStep
    <2>2. QED
      BY <1>2, <2>1 DEF Does, Closes, TakenOut, At
  <1>3. ASSUME \A e \in Entries : \A g : lock'[e] = g /\ g # None
                 => Does(g, e)' /\ \A f \in Entries : lock'[f] = g => f = e
        PROVE  HoldersTalk'
    <2>1. SUFFICES ASSUME NEW e \in Entries, NEW g, lock'[e] = g, g # None
                   PROVE  Talks(g, e)'
      BY DEF HoldersTalk
    <2>2. Does(g, e)' /\ \A f \in Entries : lock'[f] = g => f = e
      BY <1>3, <2>1
    <2>3. QED
      BY <1>2, <2>2 DEF Talks
  <1>4. CASE \A e \in Entries : lock'[e] \in {lock[e], None}
    <2>1. SUFFICES ASSUME NEW e \in Entries, NEW g, lock'[e] = g, g # None
                   PROVE  Does(g, e)' /\ \A f \in Entries : lock'[f] = g => f = e
      BY <1>3
    <2>2. lock[e] = g
      BY <1>4, <2>1
    <2>3. Does(g, e)'
      BY <2>1, <2>2, HoldersGoOn
    <2>4. QED
      BY <1>4, <2>1, <2>2, <2>3, HoldersDo
  <1>5. ASSUME NEW x \in Entries, NEW h \in Calls \cup Goroutines,
               lock' = [lock EXCEPT ![x] = h], \A f \in Entries : lock[f] # h, Does(h, x)'
        PROVE  HoldersTalk'
    <2>1. lock'[x] = h /\ \A f \in Entries \ {x} : lock'[f] = lock[f]
      BY <1>1, <1>5
    <2>2. SUFFICES ASSUME NEW e \in Entries, NEW g, lock'[e] = g, g # None
                   PROVE  Does(g, e)' /\ \A f \in Entries : lock'[f] = g => f = e
      BY <1>3
    <2>3. CASE e = x
      BY <1>5, <2>1, <2>2, <2>3
    <2>4. CASE e # x
      <3>1. lock[e] = g /\ g # h
        BY <1>5, <2>1, <2>2, <2>4
      <3>2. Does(g, e)'
        BY <2>2, <3>1, HoldersGoOn
      <3>3. QED
        BY <2>1, <2>2, <3>1, <3>2, HoldersDo
    <2>5. QED
      BY <2>3, <2>4
  <1>6. QED
    BY <1>4, <1>5, LocksMove

\* Whoever holds the lock of an entry is in an exchange with the server for that
\* entry, a dial or a close, and waits for no lock; who closes has taken the
\* entry out of the map before, so a sweep in its visits waits for no close.
THEOREM HoldersOnlyTalk == Spec => [](HoldersTalk /\ TakenOut)
  <1>1. Init => HoldersTalk /\ TakenOut
    BY DEF Init, HoldersTalk, TakenOut, At
  <1>2. Apart => Typed /\ EntriesApart
    BY DEF Apart
  <1>3. QED
    BY <1>1, <1>2, HoldersTalkStep, TakenOutStep, ApartAlways, PTL DEF Spec

\* A sweep that is to drop entries has one left.
DropsSomething == rpc = "drop" => stale # {}

\* Every step keeps it so: the last one that is dropped ends the sweep.
LEMMA DropsSomethingStep == DropsSomething /\ [Next]_vars => DropsSomething'
  <1> SUFFICES ASSUME DropsSomething, [Next]_vars, rpc' = "drop" PROVE stale' # {}
    BY DEF DropsSomething
  <1>1. CASE SweepUnlock
    BY <1>1 DEF SweepUnlock
  <1>2. ASSUME NEW e \in stale, SweepDrop(e) \/ SweepDropped(e) PROVE stale' # {}
    BY <1>2 DEF SweepDrop, SweepDropped, Dropped
  <1>3. ASSUME NEW k \in todo, SweepVisit(k) PROVE FALSE
    BY <1>3 DEF SweepVisit
  <1>4. CASE SweepBegin
    BY <1>4 DEF SweepBegin
  <1>5. ASSUME NEW p \in Closers, CloseBegin(p) PROVE stale' # {}
    BY <1>5 DEF CloseBegin, DropsSomething
  <1>6. CASE UNCHANGED <<rpc, stale>>
    BY <1>6 DEF DropsSomething
  <1>7. CASE \E c \in Calls : Arrive(c) \/ CallStep(c)
    BY <1>6, <1>7 DEF CallStep, Arrive, Lookup, Enter, DialOk, DialFail, Send, Return, Leave, Unlink,
       Evict, Evicted, janitorVars
  <1>8. QED
    BY <1>1, <1>2, <1>3, <1>4, <1>5, <1>6, <1>7 DEF Next, SweepStep, SweepProgress, CloseStep, Over,
       vars, Execute, Restart, Age, CloseEntry, ClosedEntry, janitorVars

\* Whoever waits for a lock waits for one that dials or closes, and for nobody
\* else; the sweep, with the map's lock in hand, for one that dials; and never
\* for the lock of an entry that there is not: calls, closers and the sweep do
\* not wait in a circle.
THEOREM NobodyWaitsInACircle == Spec => []NoCircle
  <1>1. Typed /\ HoldersTalk /\ DropsSomething => NoCircle
    <2> SUFFICES ASSUME Typed, HoldersTalk, DropsSomething PROVE NoCircle
      OBVIOUS
    <2>1. nEntries \in Nat /\ 1..nEntries \subseteq Entries
      BY Constants DEF Typed, TypeOK, PoolTypes, Entries
    <2>2. \A e \in 1..nEntries : FreeOrTalked(e)
      BY <2>1 DEF FreeOrTalked, HoldersTalk
    <2>3. ASSUME NEW c \in Calls, pc[c] \in {"enter", "evict"} PROVE ent[c] \in 1..nEntries
      <3>1. ent[c] \in 0..nEntries /\ ent[c] # 0
        BY <2>3 DEF Typed, TypeOK, CallTypes, Locals, At
      <3>2. QED
        BY <2>1, <3>1
    <2>4. ASSUME rpc = "sweep", NEW k \in todo PROVE FreeOrDialled(pool[k])
      <3>1. pool[k] \in 0..nEntries /\ pool[k] # 0 /\ k \in Keys
        BY <2>4 DEF Typed, TypeOK, PoolTypes, JanitorTypes, Visiting
      <3>2. pool[k] \in 1..nEntries
        BY <2>1, <3>1
      <3>3. ~Unlinked(pool[k])
        BY <3>1 DEF Unlinked
      <3>4. QED
        BY <2>2, <3>2, <3>3 DEF FreeOrTalked, FreeOrDialled, Talks, Closes
    <2>5. stale \subseteq 1..nEntries /\ \A p \in Closers : closing[p] \subseteq 1..nEntries
      BY DEF Typed, TypeOK, JanitorTypes
    <2>6. QED
      BY <2>2, <2>3, <2>4, <2>5 DEF NoCircle, DropsSomething
  <1>2. Init => DropsSomething
    BY DEF Init, DropsSomething
  <1>3. Apart => Typed
    BY DEF Apart
  <1>4. QED
    BY <1>1, <1>2, <1>3, ApartAlways, HoldersOnlyTalk, DropsSomethingStep, PTL DEF Spec

\* A failed attempt is the end of the call, or costs it the first of its two.
LEMMA FailingGetsOn ==
  ASSUME Typed, NEW c \in Calls, FailAttempt(c),
         pc[c] \in {"lookup", "dial", "send", "wait", "failing"}
  PROVE  Left(c)' < Left(c)
  <1>1. attempt \in [Calls -> {1, 2}] /\ pc \in [Calls -> PCs]
    BY DEF Typed, TypeOK, CallTypes
  <1>2. attempt[c] \in {1, 2}
    BY <1>1
  <1>3. CASE pc'[c] = "failed" /\ attempt'[c] = attempt[c]
    BY <1>2, <1>3 DEF Left, StepsLeft
  <1>4. CASE pc'[c] = "dial" /\ attempt[c] = 1 /\ attempt'[c] = 2
    BY <1>4 DEF Left, StepsLeft
  <1>5. CASE pc'[c] = "unlink" /\ attempt'[c] = attempt[c]
    BY <1>2, <1>5 DEF Left, StepsLeft
  <1>6. QED
    BY <1>1, <1>2, <1>3, <1>4, <1>5 DEF FailAttempt, Goto

\* A call takes at most nineteen steps, ten of its first attempt and nine of the
\* second, whatever the others do.
THEOREM CallsAlwaysGetOn == Spec => CallsGetOn
  <1> DEFINE GetsOn(c) == pc'[c] # pc[c] \/ attempt'[c] # attempt[c] => Left(c)' < Left(c)
             Others(c) == \A d \in Calls \ {c} : UNCHANGED <<pc[d], attempt[d]>>
  <1>1. Typed /\ [Next]_vars => \A c \in Calls : GetsOn(c)
    <2> SUFFICES ASSUME Typed, [Next]_vars PROVE \A c \in Calls : GetsOn(c)
      OBVIOUS
    <2>1. pc \in [Calls -> PCs] /\ attempt \in [Calls -> {1, 2}]
      BY DEF Typed, TypeOK, CallTypes
    <2>2. ASSUME NEW c \in Calls, GetsOn(c), Others(c) PROVE \A d \in Calls : GetsOn(d)
      BY <2>2
    <2>3. ASSUME NEW c \in Calls, Arrive(c) PROVE \A d \in Calls : GetsOn(d)
      <3>1. pc[c] = "idle" /\ pc'[c] \in {"lookup", "dial"} /\ UNCHANGED attempt /\ Others(c)
        BY <2>1, <2>3 DEF Arrive, Goto, Start
      <3>2. Left(c)' < Left(c)
        BY <2>1, <3>1 DEF Left, StepsLeft
      <3>3. QED
        BY <2>2, <3>1, <3>2
    <2>4. ASSUME NEW c \in Calls, FailAttempt(c),
                 pc[c] \in {"lookup", "dial", "send", "wait", "failing"}
          PROVE  \A d \in Calls : GetsOn(d)
      <3>1. Others(c)
        BY <2>1, <2>4 DEF FailAttempt, Goto
      <3>2. QED
        BY <2>2, <2>4, <3>1, FailingGetsOn
    <2>5. ASSUME NEW c \in Calls, UNCHANGED attempt,
                 NEW label \in PCs, Goto(c, label), StepsLeft[label] < StepsLeft[pc[c]]
          PROVE  \A d \in Calls : GetsOn(d)
      <3>1. pc'[c] = label /\ Others(c)
        BY <2>1, <2>5 DEF Goto
      <3>2. StepsLeft[label] \in Nat /\ StepsLeft[pc[c]] \in Nat /\ attempt[c] \in {1, 2}
        BY <2>1 DEF StepsLeft, PCs
      <3>3. Left(c)' < Left(c)
        BY <2>5, <3>1, <3>2 DEF Left
      <3>4. QED
        BY <2>2, <3>1, <3>3
    <2>6. ASSUME NEW c \in Calls, Again(c), pc[c] \in {"unlink", "evict", "close"}
          PROVE  \A d \in Calls : GetsOn(d)
      <3>1. attempt[c] = 1 /\ attempt'[c] = 2 /\ pc'[c] = "lookup" /\ Others(c)
        BY <2>1, <2>6 DEF Again, Goto, Typed, Locals, At
      <3>2. Left(c)' < Left(c)
        BY <2>6, <3>1 DEF Left, StepsLeft
      <3>3. QED
        BY <2>2, <3>1, <3>2
    <2>7. ASSUME NEW c \in Calls, CallStep(c) PROVE \A d \in Calls : GetsOn(d)
      <3>1. CASE Lookup(c)
        BY <3>1, <2>4, <2>5 DEF Lookup, StepsLeft, PCs
      <3>2. CASE Enter(c)
        BY <3>2, <2>5 DEF Enter, StepsLeft, PCs
      <3>3. CASE DialOk(c) \/ DialFail(c)
        BY <3>3, <2>4, <2>5 DEF DialOk, DialFail, StepsLeft, PCs
      <3>4. CASE Send(c) \/ Return(c) \/ Leave(c)
        BY <3>4, <2>4, <2>5 DEF Send, Return, Leave, GiveUp, StepsLeft, PCs
      <3>5. CASE Unlink(c) \/ Evict(c) \/ Evicted(c)
        BY <3>5, <2>5, <2>6 DEF Unlink, Evict, Evicted, StepsLeft, PCs
      <3>6. QED
        BY <2>7, <3>1, <3>2, <3>3, <3>4, <3>5 DEF CallStep
    <2>8. QED
      BY <2>3, <2>7 DEF Next, SweepStep, SweepProgress, CloseStep, Over, vars, Execute, Restart, Age,
         SweepBegin, SweepVisit, SweepUnlock, SweepDrop, SweepDropped, CloseBegin, CloseEntry,
         ClosedEntry, callVars
  <1>2. Apart => Typed
    BY DEF Apart
  <1>3. Typed /\ [Next]_vars =>
          [\A c \in Calls : pc'[c] # pc[c] \/ attempt'[c] # attempt[c] => Left(c)' < Left(c)]_vars
    BY <1>1
  <1>4. QED
    BY <1>2, <1>3, ApartAlways, PTL DEF Spec, CallsGetOn

\* No caller puts an entry back in the map once a Close has begun.
THEOREM NoEntryComesBack == Spec => []NoEntryAfterClose
  <1>1. Init => NoEntryAfterClose
    BY DEF Init, NoEntryAfterClose
  <1>2. Typed /\ NoEntryAfterClose /\ [Next]_vars => NoEntryAfterClose'
    <2> SUFFICES ASSUME Typed, NoEntryAfterClose, [Next]_vars, shut' # {}, NEW k \in Keys
                 PROVE  pool'[k] = 0
      BY DEF NoEntryAfterClose
    <2>1. ASSUME NEW p \in Closers, CloseBegin(p) PROVE pool'[k] = 0
      BY <2>1 DEF CloseBegin
    <2>2. ASSUME NEW c \in Calls, Lookup(c) PROVE pool'[k] = 0
      BY <2>2 DEF Lookup, Refused, NoEntryAfterClose, janitorVars
    <2>3. ASSUME UNCHANGED shut,
                 UNCHANGED pool \/ \E l \in Keys : pool' = [pool EXCEPT ![l] = 0]
          PROVE  pool'[k] = 0
      BY <2>3 DEF NoEntryAfterClose, Typed, TypeOK, PoolTypes
    <2>4. ASSUME NEW c \in Calls, Unlink(c) PROVE pool'[k] = 0
      BY <2>4 DEF Unlink, NoEntryAfterClose, Typed, TypeOK, PoolTypes, janitorVars
    <2>5. QED
      BY <2>1, <2>2, <2>3, <2>4 DEF Next, CallStep, Arrive, Enter, DialOk, DialFail, Send, Return,
         Leave, Evict, Evicted, SweepStep, SweepProgress, CloseStep, Over, vars, Execute, Restart,
         Age, SweepBegin, SweepVisit, SweepUnlock, SweepDrop, SweepDropped, CloseEntry, ClosedEntry,
         poolVars, janitorVars, Typed, TypeOK, JanitorTypes
  <1>3. Apart => Typed
    BY DEF Apart
  <1>4. QED
    BY <1>1, <1>2, <1>3, ApartAlways, PTL DEF Spec

\* A call that is made again is made on another session, whoever replaced the
\* first one meanwhile.
THEOREM RetriesElsewhere == Spec => []RetryElsewhere
  <1>1. Init => Elsewhere /\ RetryElsewhere
    BY DEF Init, Elsewhere, RetryElsewhere
  <1>2. Apart /\ Elsewhere /\ RetryElsewhere /\ [Next]_vars => Elsewhere' /\ RetryElsewhere'
    <2> SUFFICES ASSUME Apart, Elsewhere, RetryElsewhere, [Next]_vars
                 PROVE  Elsewhere' /\ RetryElsewhere'
      OBVIOUS
    <2>1. Elsewhere'
      BY ElsewhereStep DEF Apart
    <2>2. CASE UNCHANGED sent
      BY <2>1, <2>2 DEF RetryElsewhere
    <2>3. ASSUME NEW c \in Calls, Send(c), sent' = sent \cup {Message(c)} PROVE RetryElsewhere'
      <3>1. \A m \in sent : m.call = c => m.attempt # attempt[c]
        BY <2>3 DEF Send, Apart, OncePerAttempt, At
      <3>2. \A m \in sent : m.call = c => m.session # sess[c]
        BY <2>3, <3>1 DEF Send, Elsewhere, OutOfReach, At
      <3>3. QED
        BY <2>3, <3>2 DEF RetryElsewhere, Message
    <2>4. QED
      BY <2>1, <2>2, <2>3 DEF Next, CallStep, Arrive, Lookup, Enter, DialOk, DialFail, Send, Return,
         Leave, Unlink, Evict, Evicted, SweepStep, SweepProgress, CloseStep, Over, vars, Execute,
         Restart, Age, SweepBegin, SweepVisit, SweepUnlock, SweepDrop, SweepDropped, CloseBegin,
         CloseEntry, ClosedEntry, serverVars
  <1>3. QED
    BY <1>1, <1>2, ApartAlways, PTL DEF Spec

-----------------------------------------------------------------------------
(***************************************************************************)
(* The refinement: each step of the pool is a step of the promise, under   *)
(* the mapping of SessionPoolRefines, or leaves it alone.                  *)
(***************************************************************************)

\* The variables of the promise depend on these of the pool.
LEMMA MappingUnchanged ==
  ASSUME UNCHANGED <<req, ran>>
  PROVE  /\ Runs' = Runs /\ ActedAs' = ActedAs
         /\ UNCHANGED pc => Status' = Status /\ Callers' = Callers /\ Limit' = Limit
  BY DEF Status, Callers, Limit, Runs, ActedAs, RunsOf, Returned, Caller

\* A request that a call has sent is for one of its attempts, and a call that
\* must not be repeated has one.
LEMMA Attempts ==
  ASSUME Apart, NEW m \in sent
  PROVE  /\ m.call \in Calls /\ m.attempt \in {1, 2} /\ pc[m.call] # "idle"
         /\ req[m.call].kind # "read" => m.attempt = 1
  <1>1. m.call \in Calls /\ m.attempt \in {1, 2} /\ m.attempt <= attempt[m.call]
    BY DEF Apart, Typed, TypeOK, ServerTypes, Messages, OncePerAttempt
  <1>2. attempt[m.call] \in {1, 2} /\ (attempt[m.call] # 1 => req[m.call].kind = "read")
    BY <1>1 DEF Apart, Typed, TypeOK, CallTypes, Locals, Idempotent
  <1>3. pc[m.call] # "idle"
    BY <1>1 DEF Apart, Typed, Locals, At
  <1>4. QED
    BY <1>1, <1>2, <1>3

\* What ran for a call ran for its first attempt or its second, once for each.
LEMMA OneRunAnAttempt ==
  ASSUME Apart, NEW c \in Calls, NEW r \in RunsOf(c), NEW q \in RunsOf(c),
         r.msg.attempt = q.msg.attempt
  PROVE  r = q
  BY DEF RunsOf, Apart, OncePerAttempt

LEMMA RunsAreFinite ==
  ASSUME Apart, NEW c \in Calls
  PROVE  IsFiniteSet(RunsOf(c))
  <1> DEFINE Of(n) == {r \in RunsOf(c) : r.msg.attempt = n}
  <1>1. ASSUME NEW n \in {1, 2} PROVE IsFiniteSet(Of(n))
    <2>1. CASE Of(n) = {}
      BY <2>1, FS_EmptySet
    <2>2. CASE Of(n) # {}
      <3>1. PICK r \in Of(n) : TRUE
        BY <2>2
      <3>2. Of(n) \subseteq {r}
        BY <3>1, OneRunAnAttempt
      <3>3. QED
        BY <3>2, FS_Singleton, FS_Subset
    <2>3. QED
      BY <2>1, <2>2
  <1>2. RunsOf(c) = Of(1) \cup Of(2)
    <2>1. \A r \in RunsOf(c) : r.msg \in sent
      BY DEF RunsOf, Apart, OncePerAttempt
    <2>2. QED
      BY <2>1, Attempts
  <1>3. IsFiniteSet(Of(1)) /\ IsFiniteSet(Of(2))
    BY <1>1
  <1> HIDE DEF Of
  <1>4. IsFiniteSet(Of(1) \cup Of(2))
    BY <1>3, FS_Union
  <1>5. QED
    BY <1>2, <1>4

\* A request that has not run yet leaves room under its call's limit.
LEMMA RoomToRun ==
  ASSUME Apart, NEW m \in sent, \A r \in ran : r.msg # m
  PROVE  Cardinality(RunsOf(m.call)) < IF req[m.call].kind = "read" THEN 2 ELSE 1
  <1> DEFINE c == m.call
  <1>1. \A r \in RunsOf(c) : r.msg \in sent /\ r.msg.attempt # m.attempt
    BY DEF RunsOf, Apart, OncePerAttempt
  <1>2. CASE RunsOf(c) = {}
    BY <1>2, FS_EmptySet
  <1>3. CASE RunsOf(c) # {}
    <2>1. PICK r \in RunsOf(c) : TRUE
      BY <1>3
    <2>2. \A q \in RunsOf(c) : q.msg.attempt \in {1, 2} /\ q.msg.call = c
      BY <1>1, Attempts DEF RunsOf
    <2>3. RunsOf(c) = {r}
      BY <1>1, <2>1, <2>2, Attempts, OneRunAnAttempt
    <2>4. req[c].kind = "read"
      BY <1>1, <2>1, <2>2, Attempts
    <2>5. Cardinality({r}) = 1
      BY FS_Singleton
    <2>6. Cardinality(RunsOf(m.call)) = 1
      BY <2>3, <2>5
    <2>7. QED
      BY <2>4, <2>6
  <1>4. QED
    BY <1>2, <1>3

\* A call that arrives is accepted.
LEMMA ArriveAccepts ==
  ASSUME Apart, NEW c \in Calls, Arrive(c)
  PROVE  Promise!Accept(c)
  <1>1. PICK r \in Requests[c] : req' = [req EXCEPT ![c] = r] /\ Goto(c, Start(sessionKey(r)))
    BY DEF Arrive
  <1>2. pc[c] = "idle" /\ pc' = [pc EXCEPT ![c] = Start(sessionKey(r))]
        /\ Start(sessionKey(r)) \in {"dial", "lookup"}
    BY <1>1 DEF Arrive, Goto, Start
  <1>3. \A d \in Calls \ {c} : pc'[d] = pc[d] /\ req'[d] = req[d] /\ Caller(d)' = Caller(d)
    BY <1>1, <1>2 DEF Caller, Apart, Typed, TypeOK, CallTypes
  <1>4. pc'[c] \in {"dial", "lookup"} /\ Caller(c)' \in Identities
    <2>1. req' \in [Calls -> Request]
      BY <1>1, Constants DEF Apart, Typed, TypeOK, CallTypes
    <2>2. Caller(c)' \in Identities
      BY <2>1 DEF Caller, Identities, Keys, Request
    <2>3. QED
      BY <1>2, <2>2 DEF Apart, Typed, TypeOK, CallTypes
  <1>5. Status[c] = "idle" /\ Status' = [Status EXCEPT ![c] = "active"]
    BY <1>2, <1>3, <1>4 DEF Status, Returned
  <1>6. Callers' = [Callers EXCEPT ![c] = Caller(c)']
    BY <1>2, <1>3, <1>4 DEF Callers
  <1>7. \E n \in {1, 2} : Limit' = [Limit EXCEPT ![c] = n]
    BY <1>2, <1>3, <1>4 DEF Limit
  <1>8. UNCHANGED <<Runs, ActedAs>>
    BY DEF Arrive, serverVars, Runs, ActedAs, RunsOf
  <1>9. QED
    BY <1>4, <1>5, <1>6, <1>7, <1>8 DEF Promise!Accept

\* A request that runs is one more run of its call.
LEMMA ExecuteRuns ==
  ASSUME Apart, NEW m \in sent, Execute(m)
  PROVE  Promise!RunOnce(m.call)
  <1> DEFINE c == m.call
             new == [msg |-> m, as |-> Resolve(m)]
  <1>1. /\ c \in Calls /\ pc[c] # "idle"
        /\ ran' = ran \cup {new} /\ new \notin ran /\ \A r \in ran : r.msg # m
        /\ UNCHANGED <<pc, req>>
    BY Attempts DEF Execute, callVars
  <1>2. RunsOf(c)' = RunsOf(c) \cup {new} /\ new \notin RunsOf(c)
    BY <1>1 DEF RunsOf
  <1>3. \A d \in Calls \ {c} : RunsOf(d)' = RunsOf(d)
    BY <1>1 DEF RunsOf
  <1>4. Cardinality(RunsOf(c)') = Cardinality(RunsOf(c)) + 1
    BY <1>1, <1>2, RunsAreFinite, FS_AddElement
  <1>5. Runs' = [Runs EXCEPT ![c] = @ + 1]
    BY <1>1, <1>3, <1>4 DEF Runs
  <1>6. ActedAs' = [ActedAs EXCEPT ![c] = @ \cup {Resolve(m)}]
    <2>1. {r.as : r \in RunsOf(c)'} = {r.as : r \in RunsOf(c)} \cup {Resolve(m)}
      BY <1>2
    <2>2. \A d \in Calls \ {c} : {r.as : r \in RunsOf(d)'} = {r.as : r \in RunsOf(d)}
      BY <1>3
    <2>3. ActedAs' = [d \in Calls |-> {r.as : r \in RunsOf(d)'}]
      BY DEF ActedAs
    <2>4. QED
      BY <1>1, <2>1, <2>2, <2>3 DEF ActedAs
  <1>7. Runs[c] < Limit[c]
    BY <1>1, RoomToRun DEF Runs, Limit
  <1>8. Resolve(m) \in {Callers[c], Nobody}
    <2>1. Isolation'
      BY ApartStep DEF Apart, Next
    <2>2. Resolve(m) \in {Caller(c), Nobody}
      BY <1>1, <2>1 DEF Isolation, Caller
    <2>3. QED
      BY <1>1, <2>2 DEF Callers
  <1>9. UNCHANGED <<Status, Callers, Limit>>
    BY <1>1 DEF Status, Callers, Limit, Returned, Caller
  <1>10. QED
    BY <1>5, <1>6, <1>7, <1>8, <1>9 DEF Promise!RunOnce

\* A call that is under way goes on, fails, or returns what ran.
LEMMA CallGoesOnOrEnds ==
  ASSUME Apart, NEW c \in Calls, CallStep(c)
  PROVE  Promise!End(c) \/ UNCHANGED Promise!promiseVars
  <1>1. UNCHANGED <<req, ran>>
    BY DEF CallStep, Lookup, Enter, DialOk, DialFail, Send, Return, Leave, Unlink, Evict, Evicted,
       serverVars
  <1>2. pc[c] \in PCs \ {"idle", "answered", "failed"} /\ pc \in [Calls -> PCs]
    BY DEF CallStep, Lookup, Enter, DialOk, DialFail, Send, Return, Leave, Unlink, Evict, Evicted, PCs,
           Apart, Typed, TypeOK, CallTypes
  <1>3. \E label \in PCs \ {"idle"} :
          /\ Goto(c, label)
          /\ label = "answered" => \E r \in ran : r.msg = Message(c)
    BY DEF CallStep, Lookup, Enter, DialOk, DialFail, Send, Return, Leave, Unlink, Evict, Evicted,
           FailAttempt, GiveUp, Again, PCs, Apart, AnswerRan, At
  <1>4. PICK label \in PCs \ {"idle"} :
          /\ pc' = [pc EXCEPT ![c] = label]
          /\ label = "answered" => \E r \in ran : r.msg = Message(c)
    BY <1>3 DEF Goto
  <1>5. UNCHANGED <<Callers, Limit, Runs, ActedAs>>
    <2>1. \A d \in Calls : pc'[d] = "idle" <=> pc[d] = "idle"
      BY <1>2, <1>4
    <2>2. QED
      BY <1>1, <2>1 DEF Callers, Limit, Runs, ActedAs, RunsOf, Caller
  <1>6. CASE label \in {"answered", "failed"}
    <2>1. Status[c] = "active" /\ Status' = [Status EXCEPT ![c] = label]
      BY <1>2, <1>4, <1>6 DEF Status, Returned
    <2>2. label = "answered" => Runs[c] > 0
      <3>1. SUFFICES ASSUME label = "answered" PROVE Cardinality(RunsOf(c)) > 0
        BY DEF Runs
      <3>2. RunsOf(c) # {}
        BY <1>4, <3>1 DEF RunsOf, Message
      <3>3. QED
        BY <3>2, RunsAreFinite, FS_EmptySet, FS_CardinalityType
    <2>3. QED
      BY <1>5, <1>6, <2>1, <2>2 DEF Promise!End
  <1>7. CASE label \notin {"answered", "failed"}
    <2>1. Status' = Status
      BY <1>2, <1>4, <1>7 DEF Status, Returned
    <2>2. QED
      BY <1>5, <2>1 DEF Promise!promiseVars
  <1>8. QED
    BY <1>6, <1>7

\* Every step of the pool is a step of the promise, or leaves it alone.
LEMMA StepKeepsPromise ==
  ASSUME Apart, [Next]_vars
  PROVE  [Promise!PNext]_(Promise!promiseVars)
  <1>1. ASSUME NEW c \in Calls, Arrive(c) \/ CallStep(c)
        PROVE  [Promise!PNext]_(Promise!promiseVars)
    BY <1>1, ArriveAccepts, CallGoesOnOrEnds DEF Promise!PNext
  <1>2. ASSUME NEW m \in sent, Execute(m) PROVE Promise!PNext
    BY <1>2, ExecuteRuns, Attempts DEF Promise!PNext
  <1>3. CASE UNCHANGED <<pc, req, ran>>
    BY <1>3, MappingUnchanged DEF Promise!promiseVars
  <1>4. QED
    BY <1>1, <1>2, <1>3 DEF Next, SweepStep, SweepProgress, CloseStep, Over, vars, Restart, Age,
       SweepBegin, SweepVisit, SweepUnlock, SweepDrop, SweepDropped, CloseBegin, CloseEntry,
       ClosedEntry, callVars, serverVars

\* Whatever the sweep, the closers and the other calls do, a call is answered
\* only if it ran, runs no more often than its caller allowed, and as nobody else.
THEOREM PoolKeepsPromise == Spec => KeepsPromise
  <1>1. Init => Promise!PInit
    BY FS_EmptySet
       DEF Init, Promise!PInit, Status, Callers, Limit, Runs, ActedAs, RunsOf, Returned
  <1>2. QED
    BY <1>1, StepKeepsPromise, ApartAlways, PTL DEF Spec, KeepsPromise, Promise!PSpec

=============================================================================
