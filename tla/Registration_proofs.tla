------------------------- MODULE Registration_proofs -------------------------
(***************************************************************************)
(* Proofs about Registration, for any number of runs, of foreign           *)
(* transactions and of deployments, patient or not, and whatever URLs the  *)
(* cards advertise.                                                        *)
(***************************************************************************)
EXTENDS Registration, SequenceTheorems, TLAPS

\* What a run wants is not the blank record, and an absent value is no text.
LEMMA WantFacts == NoWant \notin Wants
  BY NoneAssumption DEF Wants, NoWant

\* BuildUpdate keeps a price, the card and the endpoint, returns a record, and
\* leaves no drift.
LEMMA UpdateLeavesNoDrift ==
  ASSUME NEW existing \in Wants, NEW w \in Wants
  PROVE  /\ BuildUpdate(existing, w) \in Wants
         /\ Drift(BuildUpdate(existing, w), w) = {}
         /\ existing.price # None => BuildUpdate(existing, w).price # None
         /\ Agrees(w) => Agrees(BuildUpdate(existing, w))
  BY DEF BuildUpdate, Drift, Wants, Agrees

\* So what a run that read a sound record sends is sound, and so is what a run
\* that names a price sends.
LEMMA UpdateIsBuilt ==
  ASSUME NEW existing \in Wants, NEW r \in Runs, want[r] \in Wants, Agrees(want[r]),
         existing.price # None
  PROVE  Built(r, BuildUpdate(existing, want[r]))
  BY UpdateLeavesNoDrift DEF Built, Sound

\* A first registration is exactly what was wanted.
LEMMA RegisterLeavesNoDrift == \A w : BuildRegister(w) = w /\ Drift(w, w) = {}
  BY DEF BuildRegister, Drift

\* No run has begun, and nothing is on the chain.
LEMMA ConsistentInit == Init => Consistent
  <1> SUFFICES ASSUME Init PROVE Consistent
    OBVIOUS
  <1>1. TypeOK
    BY DEF Init, TypeOK
  <1>2. PriceKept /\ PointsToItself /\ Composed /\ Queued
    BY DEF Init, PriceKept, PointsToItself, Composed, Queued
  <1>3. QED
    BY <1>1, <1>2 DEF Consistent

\* A step of one run leaves what the others are about to send as it was.
LEMMA ComposedElsewhere ==
  ASSUME Consistent, NEW r \in Runs,
         \A q \in Runs \ {r} : /\ pc'[q] = pc[q] /\ want'[q] = want[q]
                               /\ snap'[q] = snap[q] /\ target'[q] = target[q],
         pc'[r] \notin {"idle", "failed"} => want'[r] \in Wants /\ Agrees(want[r])',
         pc'[r] \in {"bond", "account", "broadcast"} => target'[r] # 0 /\ Built(r, Message(r))'
  PROVE  Composed'
  BY DEF Consistent, Composed, Built, Sound, Agrees, Message, IsUpdate

\* What stands in the mempool and on the chain is of the type it should be.
LEMMA QueueTyped == Consistent => \A p \in DOMAIN mempool : mempool[p] \in Txs
  BY DEF Consistent, TypeOK

\* A record in the registry is one that a run could want, under a positive index.
LEMMA RecordTyped == Consistent => \A i \in DOMAIN record : record[i] \in Wants /\ i \in Nat \ {0}
  BY DEF Consistent, TypeOK

\* Appending or replacing an element adds no other.
LEMMA Appended ==
  ASSUME NEW T, NEW s \in Seq(T), NEW e \in T, NEW t, t = s \/ t = Append(s, e)
  PROVE  t \in Seq(T) /\ \A p \in DOMAIN t : t[p] = e \/ (p \in DOMAIN s /\ t[p] = s[p])
  OBVIOUS

\* Replacing one element of a sequence leaves its length and the others.
LEMMA Replaced ==
  ASSUME NEW T, NEW s \in Seq(T), NEW e \in T, NEW i \in DOMAIN s,
         NEW t, t = [s EXCEPT ![i] = e]
  PROVE  t \in Seq(T) /\ \A p \in DOMAIN t : t[p] = e \/ (p \in DOMAIN s /\ t[p] = s[p])
  BY ExceptSeq

\* A step that sends nothing, and is not from a run that has ended, leaves the
\* mempool in order.
LEMMA QueuedElsewhere ==
  ASSUME Consistent, NEW r \in Runs, ~(pc[r] \in {"submitted", "failed"}), UNCHANGED mempool,
         \A q \in Runs \ {r} : pc'[q] = pc[q] /\ want'[q] = want[q]
  PROVE  Queued'
  <1>1. \A p \in DOMAIN mempool : mempool[p].by \in Runs \cup {None}
    BY QueueTyped DEF Txs
  <1>2. \A p \in DOMAIN mempool : mempool[p].by # r
    BY NoneAssumption DEF Consistent, Queued
  <1>3. ASSUME NEW p \in DOMAIN mempool, mempool[p].by # None
        PROVE  /\ pc'[mempool[p].by] \in {"submitted", "failed"}
               /\ Built(mempool[p].by, mempool[p].write)'
    BY <1>1, <1>2, <1>3 DEF Consistent, Queued, Built, Sound, Agrees
  <1>4. QED
    BY <1>3 DEF Consistent, Queued, Sound, Agrees

\* Every step preserves the inductive invariant.
LEMMA ConsistentStep == Consistent /\ [Next]_vars => Consistent'
  <1> SUFFICES ASSUME Consistent, [Next]_vars PROVE Consistent'
    OBVIOUS
  <1> USE DEF Consistent
  <1>1. ASSUME NEW r \in Runs, Begin(r) PROVE Consistent'
    <2>1. PICK w \in Wants :
            \/ Agrees(w) /\ want' = [want EXCEPT ![r] = w] /\ Goto(r, "owned")
            \/ Goto(r, "failed") /\ UNCHANGED want
      BY <1>1 DEF Begin
    <2>2. TypeOK'
      <3>1. pc' = [pc EXCEPT ![r] = "owned"] \/ pc' = [pc EXCEPT ![r] = "failed"]
        BY <2>1 DEF Goto
      <3>2. want' = [want EXCEPT ![r] = w] \/ want' = want
        BY <2>1
      <3>3. UNCHANGED <<patient, served, deploys, foreign, target, snap, nonce,
                        record, sequence, mempool>>
        BY <1>1 DEF Begin, chainVars
      <3>4. /\ pc' \in [Runs -> {"idle", "owned", "index", "bond", "account", "broadcast",
                                "current", "submitted", "failed"}]
            /\ want' \in [Runs -> Wants \cup {NoWant}]
        BY <3>1, <3>2 DEF TypeOK
      <3>5. QED
        BY <3>3, <3>4 DEF TypeOK
    <2>3. Composed'
      <3>1. pc'[r] = "failed" \/ (pc'[r] = "owned" /\ want'[r] = w /\ Agrees(w))
        BY <1>1, <2>1 DEF Begin, Goto, TypeOK
      <3>2. \A q \in Runs \ {r} : pc'[q] = pc[q] /\ want'[q] = want[q]
        BY <1>1, <2>1 DEF Begin, Goto, TypeOK
      <3>3. pc'[r] # "failed" => want'[r] \in Wants /\ Agrees(want[r])'
        BY <3>1 DEF Agrees
      <3>4. QED
        BY <1>1, <3>1, <3>2, <3>3, ComposedElsewhere DEF Begin
    <2>4. Queued'
      BY <1>1, <2>1, QueuedElsewhere DEF Begin, Goto, TypeOK, chainVars
    <2>5. QED
      BY <1>1, <2>2, <2>3, <2>4 DEF Begin, PriceKept, PointsToItself, chainVars
  <1>2. ASSUME NEW r \in Runs, Owned(r) PROVE Consistent'
    <2>1. Len(record) = 1 => record[1] \in Wants /\ record[1].price # None
      <3>1. Len(record) = 1 => 1 \in DOMAIN record
        BY DEF TypeOK
      <3>2. QED
        BY <3>1, RecordTyped DEF PriceKept
    <2>2. TypeOK'
      <3>1. \/ UNCHANGED <<target, snap>>
            \/ /\ target' = [target EXCEPT ![r] = 1]
               /\ \E s \in Wants : snap' = [snap EXCEPT ![r] = s]
        BY <1>2, <2>1 DEF Owned
      <3>2. target' \in [Runs -> Nat] /\ snap' \in [Runs -> Wants \cup {NoWant}]
        <4>1. target \in [Runs -> Nat] /\ snap \in [Runs -> Wants \cup {NoWant}]
          BY DEF TypeOK
        <4>2. CASE UNCHANGED <<target, snap>>
          BY <4>1, <4>2
        <4>3. CASE ~UNCHANGED <<target, snap>>
          BY <3>1, <4>1, <4>3
        <4>4. QED
          BY <4>2, <4>3
      <3>3. pc' \in [Runs -> {"idle", "owned", "index", "bond", "account", "broadcast",
                              "current", "submitted", "failed"}]
        BY <1>2 DEF Owned, Goto, TypeOK
      <3>4. QED
        BY <1>2, <3>2, <3>3 DEF Owned, TypeOK, chainVars
    <2>3. Composed'
      <3>1. CASE pc'[r] # "account"
        BY <1>2, <3>1, ComposedElsewhere
           DEF Owned, Goto, TypeOK, Composed, NoneOwned, Agrees
      <3>2. CASE pc'[r] = "account"
        <4>1. snap'[r] = record[1] /\ target'[r] = 1 /\ Len(record) = 1 /\ UNCHANGED want
          BY <1>2, <3>2 DEF Owned, Goto, TypeOK
        <4>2. want[r] \in Wants /\ Agrees(want[r])
          BY <1>2 DEF Owned, Composed
        <4>3. Message(r)' = BuildUpdate(record[1], want[r])
          BY <2>1, <4>1, WantFacts DEF Message, IsUpdate
        <4>4. Built(r, Message(r))'
          <5>1. Built(r, BuildUpdate(record[1], want[r]))
            BY <2>1, <4>1, <4>2, UpdateIsBuilt
          <5>2. QED
            BY <4>1, <4>3, <5>1 DEF Built, Sound, Agrees
        <4>5. \A q \in Runs \ {r} : /\ pc'[q] = pc[q] /\ want'[q] = want[q]
                                    /\ snap'[q] = snap[q] /\ target'[q] = target[q]
          BY <1>2 DEF Owned, Goto, TypeOK
        <4>6. QED
          BY <4>1, <4>2, <4>4, <4>5, ComposedElsewhere DEF Agrees
      <3>3. QED
        BY <3>1, <3>2
    <2>4. Queued'
      BY <1>2, QueuedElsewhere DEF Owned, Goto, TypeOK, chainVars
    <2>5. QED
      BY <1>2, <2>2, <2>3, <2>4 DEF Owned, PriceKept, PointsToItself, chainVars
  <1>3. ASSUME NEW r \in Runs, Index(r) PROVE Consistent'
    <2>1. TypeOK'
      BY <1>3 DEF Index, Goto, NextIndex, TypeOK, chainVars
    <2>2. Composed'
      <3>1. want[r] \in Wants /\ Agrees(want[r]) /\ UNCHANGED <<want, snap>>
        BY <1>3 DEF Index, Composed
      <3>2. target'[r] # 0
        BY <1>3 DEF Index, NextIndex, TypeOK
      <3>3. ASSUME want[r].price # None PROVE Built(r, Message(r))'
        <4>1. CASE snap[r] = NoWant
          BY <3>1, <3>3, <4>1, RegisterLeavesNoDrift DEF Built, Sound, Agrees, Message, IsUpdate
        <4>2. CASE snap[r] # NoWant
          <5>1. snap[r] \in Wants /\ BuildUpdate(snap[r], want[r]).price = want[r].price
            BY <3>1, <3>3, <4>2 DEF TypeOK, BuildUpdate, Wants
          <5>2. QED
            BY <3>1, <3>3, <4>2, <5>1, UpdateLeavesNoDrift
               DEF Built, Sound, Agrees, Message, IsUpdate
        <4>3. QED
          BY <4>1, <4>2
      <3>4. QED
        BY <1>3, <3>1, <3>2, <3>3, ComposedElsewhere DEF Index, Goto, TypeOK, Agrees
    <2>3. Queued'
      BY <1>3, QueuedElsewhere DEF Index, Goto, TypeOK, chainVars
    <2>4. QED
      BY <1>3, <2>1, <2>2, <2>3 DEF Index, PriceKept, PointsToItself, chainVars
  <1>4. ASSUME NEW r \in Runs, Account(r) PROVE Consistent'
    <2>1. TypeOK'
      BY <1>4 DEF Account, Goto, TypeOK, chainVars
    <2>2. Composed'
      BY <1>4, ComposedElsewhere DEF Account, Goto, TypeOK, Composed, Built, Sound, Agrees,
         Message, IsUpdate
    <2>3. Queued'
      BY <1>4, QueuedElsewhere DEF Account, Goto, TypeOK, chainVars
    <2>4. QED
      BY <1>4, <2>1, <2>2, <2>3 DEF Account, PriceKept, PointsToItself, chainVars
  <1>4a. ASSUME NEW r \in Runs, Bond(r) PROVE Consistent'
    <2>1. TypeOK'
      BY <1>4a DEF Bond, Goto, TypeOK, chainVars
    <2>2. Composed'
      BY <1>4a, ComposedElsewhere DEF Bond, Goto, TypeOK, Composed, Built, Sound, Agrees,
         Message, IsUpdate
    <2>3. Queued'
      BY <1>4a, QueuedElsewhere DEF Bond, Goto, TypeOK, chainVars
    <2>4. QED
      BY <1>4a, <2>1, <2>2, <2>3 DEF Bond, PriceKept, PointsToItself, chainVars
  <1>5. ASSUME NEW r \in Runs, Abort(r) PROVE Consistent'
    <2>1. TypeOK'
      BY <1>5 DEF Abort, Goto, TypeOK, chainVars
    <2>2. Composed'
      BY <1>5, ComposedElsewhere DEF Abort, Goto, TypeOK, Composed
    <2>3. Queued'
      BY <1>5, QueuedElsewhere DEF Abort, Goto, TypeOK, chainVars
    <2>4. QED
      BY <1>5, <2>1, <2>2, <2>3 DEF Abort, PriceKept, PointsToItself, chainVars
  <1>6. ASSUME NEW r \in Runs, Broadcast(r) PROVE Consistent'
    <2> DEFINE tx == Tx(r, IF IsUpdate(r) THEN "update" ELSE "register", target[r], Message(r))
    <2>1. /\ want[r] \in Wants /\ Agrees(want[r]) /\ target[r] # 0
          /\ Built(r, Message(r)) /\ Message(r) \in Wants
      BY <1>6, UpdateLeavesNoDrift
         DEF Broadcast, Composed, Message, IsUpdate, TypeOK, BuildRegister
    <2>2. tx \in Txs /\ tx.by = r /\ tx.write = Message(r)
      BY <2>1 DEF Tx, Txs, TypeOK
    <2>3. pc'[r] \in {"submitted", "failed"} /\ \A q \in Runs \ {r} : pc'[q] = pc[q]
      BY <1>6 DEF Broadcast, Goto, TypeOK
    <2>4. mempool' = mempool \/ mempool' = Append(mempool, tx)
      BY <1>6 DEF Broadcast
    <2>5. TypeOK'
      <3>1. mempool' \in Seq(Txs)
        BY <2>2, <2>4, Appended DEF TypeOK
      <3>2. pc' \in [Runs -> {"idle", "owned", "index", "bond", "account", "broadcast",
                              "current", "submitted", "failed"}]
        BY <1>6 DEF Broadcast, Goto, TypeOK
      <3>3. QED
        BY <1>6, <3>1, <3>2 DEF Broadcast, TypeOK
    <2>6. Composed'
      BY <1>6, <2>1, <2>3, ComposedElsewhere DEF Broadcast, Agrees
    <2>7. Queued'
      <3>0. \A p \in DOMAIN mempool : mempool[p].by \in Runs \cup {None}
        BY QueueTyped DEF Txs
      <3>1. \A p \in DOMAIN mempool : mempool[p].by # r
        BY <1>6, NoneAssumption DEF Broadcast, Queued
      <3>2. ASSUME NEW p \in DOMAIN mempool', mempool'[p] = tx
            PROVE  /\ Sound(mempool[p].write)'
                   /\ pc'[mempool'[p].by] \in {"submitted", "failed"}
                   /\ Built(mempool[p].by, mempool[p].write)'
        BY <1>6, <2>1, <2>2, <2>3, <3>2 DEF Broadcast, Built, Sound, Agrees
      <3>3. ASSUME NEW p \in DOMAIN mempool, mempool'[p] = mempool[p]
            PROVE  /\ Sound(mempool[p].write)'
                   /\ mempool'[p].by # None => /\ pc'[mempool'[p].by] \in {"submitted", "failed"}
                                              /\ Built(mempool[p].by, mempool[p].write)'
        BY <1>6, <2>3, <3>0, <3>1, <3>3 DEF Broadcast, Built, Sound, Agrees, Queued
      <3>4. \A p \in DOMAIN mempool' :
              mempool'[p] = tx \/ (p \in DOMAIN mempool /\ mempool'[p] = mempool[p])
        BY <2>2, <2>4, Appended DEF TypeOK
      <3>5. QED
        BY <3>2, <3>3, <3>4 DEF Queued
    <2>8. QED
      BY <1>6, <2>5, <2>6, <2>7 DEF Broadcast, PriceKept, PointsToItself
  <1>7. ASSUME Deliver PROVE Consistent'
    <2>1. /\ Head(mempool) \in Txs /\ Sound(Head(mempool).write)
          /\ mempool' \in Seq(Txs)
          /\ \A p \in DOMAIN mempool' : p + 1 \in DOMAIN mempool /\ mempool'[p] = mempool[p + 1]
      BY <1>7 DEF Deliver, TypeOK, Queued
    <2>2. /\ record' \in Seq(Wants)
          /\ \A i \in DOMAIN record' : record'[i] = Head(mempool).write
                                         \/ (i \in DOMAIN record /\ record'[i] = record[i])
      <3>1. Head(mempool).write \in Wants
        BY <2>1 DEF Txs
      <3>2. \/ record' = record
            \/ record' = Append(record, Head(mempool).write)
            \/ /\ Head(mempool).index \in DOMAIN record
               /\ record' = [record EXCEPT ![Head(mempool).index] = Head(mempool).write]
        BY <1>7 DEF Deliver
      <3>3. QED
        BY <3>1, <3>2, Appended, Replaced DEF TypeOK
    <2>3. TypeOK'
      BY <1>7, <2>1, <2>2 DEF Deliver, TypeOK, runVars
    <2>4. PriceKept' /\ PointsToItself'
      <3>1. PriceKept'
        BY <2>1, <2>2 DEF PriceKept, Sound
      <3>2. PointsToItself'
        BY <2>1, <2>2 DEF PointsToItself, Sound, Agrees
      <3>3. QED
        BY <3>1, <3>2
    <2>5. Composed'
      BY <1>7 DEF Deliver, runVars, Composed, Built, Sound, Agrees, Message, IsUpdate
    <2>6. Queued'
      <3>1. UNCHANGED <<patient, runVars>>
        BY <1>7 DEF Deliver
      <3>2. ASSUME NEW p \in DOMAIN mempool'
            PROVE  /\ Sound(mempool'[p].write)
                   /\ mempool'[p].by # None =>
                        /\ pc[mempool'[p].by] \in {"submitted", "failed"}
                        /\ Built(mempool'[p].by, mempool'[p].write)
        BY <2>1, <3>2 DEF Queued
      <3>3. QED
        BY <3>1, <3>2 DEF runVars, Queued, Built, Sound, Agrees
    <2>7. QED
      BY <2>3, <2>4, <2>5, <2>6
  <1>8. ASSUME NEW i \in DOMAIN record, Foreign(i) PROVE Consistent'
    <2>1. PICK f \in {"price", "metadata"}, v \in Texts :
            mempool' = Append(mempool, Tx(None, "update", i, [record[i] EXCEPT ![f] = v]))
      BY <1>8 DEF Foreign
    <2> DEFINE tx == Tx(None, "update", i, [record[i] EXCEPT ![f] = v])
    <2>2. record[i] \in Wants /\ Sound(record[i]) /\ i \in Nat \ {0}
      BY RecordTyped DEF PriceKept, PointsToItself, Sound, Agrees
    <2>3. tx \in Txs /\ tx.by = None /\ Sound(tx.write)
      <3>1. [record[i] EXCEPT ![f] = v] \in Wants /\ Sound([record[i] EXCEPT ![f] = v])
        BY <2>2, NoneAssumption DEF Wants, Sound, Agrees
      <3>2. QED
        BY <2>2, <3>1 DEF Tx, Txs, TypeOK
    <2>4. TypeOK'
      <3> HIDE DEF tx
      <3>1. mempool' = Append(mempool, tx)
        BY <2>1 DEF tx
      <3>2. QED
        BY <1>8, <2>3, <3>1 DEF Foreign, TypeOK, runVars
    <2>5. Composed'
      BY <1>8 DEF Foreign, runVars, Composed, Built, Sound, Agrees, Message, IsUpdate
    <2>6. Queued'
      <3> HIDE DEF tx
      <3>1. mempool' = Append(mempool, tx)
        BY <2>1 DEF tx
      <3>2. \A p \in DOMAIN mempool' :
              mempool'[p] = tx \/ (p \in DOMAIN mempool /\ mempool'[p] = mempool[p])
        BY <3>1 DEF TypeOK
      <3>3. QED
        BY <1>8, <2>3, <3>2 DEF Foreign, runVars, Queued, Built, Sound, Agrees
    <2>7. QED
      BY <1>8, <2>4, <2>5, <2>6 DEF Foreign, PriceKept, PointsToItself
  <1>9. CASE Deploy \/ UNCHANGED vars
    <2>1. /\ UNCHANGED <<patient, runVars, chainVars, foreign>>
          /\ served' \in Cards /\ deploys' \in Nat
      BY <1>9 DEF Deploy, vars, TypeOK
    <2>2. TypeOK'
      BY <2>1 DEF TypeOK, runVars, chainVars
    <2>3. PriceKept' /\ PointsToItself' /\ Composed' /\ Queued'
      BY <2>1 DEF runVars, chainVars, PriceKept, PointsToItself, Composed, Queued, Built,
         Sound, Agrees, Message, IsUpdate
    <2>4. QED
      BY <2>2, <2>3
  <1>10. QED
    BY <1>1, <1>2, <1>3, <1>4, <1>4a, <1>5, <1>6, <1>7, <1>8, <1>9 DEF Next, Step, Over

\* The inductive invariant holds in every reachable state.
THEOREM ConsistentAlways == Spec => []Consistent
  BY ConsistentInit, ConsistentStep, PTL DEF Spec

\* Every variable keeps its type.
THEOREM RegistrationTyped == Spec => []TypeOK
  <1>1. Consistent => TypeOK
    BY DEF Consistent
  <1>2. QED
    BY <1>1, ConsistentAlways, PTL

\* No record names an endpoint that its own card does not advertise: whatever
\* is deployed between the fetch of the card and the block, the pair that was
\* checked is the pair that is written.
THEOREM RecordsPointToThemselves == Spec => []PointsToItself
  <1>1. Consistent => PointsToItself
    BY DEF Consistent
  <1>2. QED
    BY <1>1, ConsistentAlways, PTL

\* No run takes the price of a registered agent away, whatever else the owner
\* sends between its reading of the record and its transaction's execution.
THEOREM PriceIsKept == Spec => []PriceKept
  <1>1. Consistent => PriceKept
    BY DEF Consistent
  <1>2. QED
    BY <1>1, ConsistentAlways, PTL

\* A run's transaction, when it takes effect, leaves the record without drift
\* from what the run wanted, so that the same run again would change nothing.
THEOREM EffectLeavesNoDrift == Spec => EffectIsWanted
  <1>1. ASSUME Consistent, [Next]_vars, NEW r \in Runs, Executes(r)
        PROVE  Drift(record'[Executed], want[r]) = {}
    <2>1. /\ mempool # <<>> /\ mempool \in Seq(Txs) /\ Head(mempool).by = r /\ record' # record
          /\ mempool' = Tail(mempool)
      BY <1>1 DEF Executes, Consistent, TypeOK
    <2>2. Drift(Head(mempool).write, want[r]) = {}
      <3>1. 1 \in DOMAIN mempool /\ mempool[1].by = r /\ r # None
        BY <2>1, NoneAssumption
      <3>2. Built(mempool[1].by, mempool[1].write)
        BY <1>1, <3>1 DEF Consistent, Queued
      <3>3. QED
        BY <2>1, <3>1, <3>2 DEF Built
    <2>3. Deliver
      BY <1>1, <2>1 DEF Next, Step, Begin, Owned, Index, Bond, Account, Broadcast, Abort,
         Foreign, Deploy, Over, vars, chainVars
    <2>4. record'[Executed] = Head(mempool).write
      BY <1>1, <2>1, <2>3 DEF Deliver, Executed, Consistent, TypeOK
    <2>5. QED
      BY <2>2, <2>4
  <1>2. Consistent /\ [Next]_vars =>
          [\A r \in Runs : Executes(r) => Drift(record'[Executed], want[r]) = {}]_vars
    BY <1>1
  <1>3. QED
    BY <1>2, ConsistentAlways, PTL DEF Spec, EffectIsWanted

-----------------------------------------------------------------------------
(***************************************************************************)
(* A patient operator.                                                     *)
(***************************************************************************)

\* While a run is under way nothing is sent, so that a step of it that sends
\* nothing leaves the chain as the run knows it.
LEMMA AloneQuery ==
  ASSUME Consistent, Alone, NEW r \in Runs, ~Ended(r),
         UNCHANGED <<record, mempool, want>>,
         pc'[r] \in {"owned", "index"} => ~IsUpdate(r)', pc'[r] # "idle",
         \A q \in Runs \ {r} : pc'[q] = pc[q] /\ snap'[q] = snap[q] /\ target'[q] = target[q],
         ~Ended(r)' => IF IsUpdate(r)' THEN record # <<>> /\ target'[r] = 1 /\ snap'[r] = record[1]
                                      ELSE pc'[r] # "owned" => record = <<>>
  PROVE  Alone'
  <1>1. \A q \in Runs \ {r} : Ended(q)' = Ended(q) /\ Ended(q)
    BY DEF Ended, Alone
  <1>2. mempool = <<>>
    BY DEF Alone
  <1>3. QED
    BY <1>1, <1>2 DEF Alone, IsUpdate

\* Every step of a patient operator and of the chain keeps them in turn.
LEMMA AloneStep ==
  ASSUME Consistent, patient, Alone, [Next]_vars
  PROVE  Alone'
  <1> USE DEF Consistent, TypeOK
  <1>1. ASSUME NEW r \in Runs, Begin(r) PROVE Alone'
    <2>1. /\ pc[r] = "idle" /\ mempool = <<>> /\ \A q \in Runs : Ended(q)
          /\ UNCHANGED <<record, mempool, snap, target>>
          /\ \A q \in Runs \ {r} : pc'[q] = pc[q]
          /\ pc'[r] \in {"owned", "failed"}
      BY <1>1 DEF Begin, Goto, chainVars
    <2>2. ~IsUpdate(r)
      BY <2>1 DEF Alone
    <2>3. \A q \in Runs \ {r} : Ended(q)'
      BY <2>1 DEF Ended
    <2>4. QED
      BY <2>1, <2>2, <2>3 DEF Alone, Ended, IsUpdate
  <1>2. ASSUME NEW r \in Runs, Owned(r) PROVE Alone'
    <2>1. /\ pc[r] = "owned" /\ ~IsUpdate(r) /\ UNCHANGED <<record, mempool, want>>
          /\ \A q \in Runs \ {r} : pc'[q] = pc[q] /\ snap'[q] = snap[q] /\ target'[q] = target[q]
      BY <1>2 DEF Owned, Goto, Alone, chainVars
    <2>2. \/ pc'[r] = "index" /\ record = <<>> /\ UNCHANGED snap
          \/ /\ pc'[r] \in {"current", "account"} /\ record # <<>>
             /\ target'[r] = 1 /\ snap'[r] = record[1] /\ snap'[r] # NoWant
          \/ pc'[r] = "failed"
      <3>1. CASE NoneOwned /\ Goto(r, "index") /\ UNCHANGED <<target, snap>>
        BY <1>2, <3>1 DEF NoneOwned, Goto
      <3>2. CASE /\ Len(record) = 1
                 /\ target' = [target EXCEPT ![r] = 1]
                 /\ snap' = [snap EXCEPT ![r] = record[1]]
                 /\ Goto(r, IF Drift(record[1], want[r]) = {} THEN "current" ELSE "account")
        <4>1. record # <<>> /\ record[1] \in Wants
          <5>1. record \in Seq(Wants) /\ Len(record) = 1
            BY <3>2
          <5>2. QED
            BY ONLY <5>1
        <4>2. record[1] # NoWant
          BY <4>1, WantFacts
        <4>3. target'[r] = 1 /\ snap'[r] = record[1]
          BY <3>2
        <4>4. pc'[r] \in {"current", "account"}
          BY <3>2 DEF Goto
        <4>5. QED
          BY <4>1, <4>2, <4>3, <4>4
      <3>3. CASE Goto(r, "failed")
        BY <3>3 DEF Goto
      <3>4. QED
        BY <1>2, <3>1, <3>2, <3>3 DEF Owned
    <2>3. QED
      BY <2>1, <2>2, AloneQuery DEF Ended, IsUpdate
  <1>3. ASSUME NEW r \in Runs, Index(r) PROVE Alone'
    <2>1. /\ pc[r] = "index" /\ ~IsUpdate(r) /\ UNCHANGED <<record, mempool, want, snap>>
          /\ \A q \in Runs \ {r} : pc'[q] = pc[q] /\ target'[q] = target[q]
          /\ pc'[r] \in {"bond", "failed"}
      BY <1>3 DEF Index, Goto, Alone, chainVars
    <2>2. record = <<>>
      BY <2>1 DEF Alone, Ended
    <2>3. QED
      BY <2>1, <2>2, AloneQuery DEF Ended, IsUpdate
  <1>4. ASSUME NEW r \in Runs, Bond(r) \/ Account(r) \/ Abort(r) PROVE Alone'
    <2>1. /\ ~Ended(r) /\ UNCHANGED <<record, mempool, want, snap, target>>
          /\ \A q \in Runs \ {r} : pc'[q] = pc[q]
          /\ pc[r] = "owned" => pc'[r] = "failed"
          /\ pc'[r] \in {"account", "broadcast", "failed"}
      BY <1>4 DEF Bond, Account, Abort, Goto, Ended, chainVars
    <2>2. IF IsUpdate(r) THEN record # <<>> /\ target[r] = 1 /\ snap[r] = record[1]
                         ELSE pc[r] # "owned" => record = <<>>
      BY <2>1 DEF Alone
    <2>3. QED
      BY <2>1, <2>2, AloneQuery DEF Ended, IsUpdate
  <1>5. ASSUME NEW r \in Runs, Broadcast(r) PROVE Alone'
    <2> DEFINE tx == Tx(r, IF IsUpdate(r) THEN "update" ELSE "register", target[r], Message(r))
    <2>1. /\ pc[r] = "broadcast" /\ UNCHANGED <<record, want, snap, target>> /\ mempool = <<>>
          /\ mempool' = mempool \/ mempool' = Append(mempool, tx)
          /\ \A q \in Runs \ {r} : pc'[q] = pc[q]
          /\ pc'[r] \in {"submitted", "failed"}
      BY <1>5 DEF Broadcast, Goto, Alone, Ended
    <2>2. IF IsUpdate(r) THEN record # <<>> /\ target[r] = 1 /\ snap[r] = record[1]
                         ELSE record = <<>>
      BY <2>1 DEF Alone, Ended
    <2>3. \A q \in Runs : Ended(q)'
      BY <2>1 DEF Alone, Ended
    <2>4. ASSUME IsUpdate(r), want[r].price = None
          PROVE  Message(r).price = record[target[r]].price
      <3>1. want[r] \in Wants
        BY <2>1 DEF Composed
      <3>2. BuildUpdate(snap[r], want[r]).price = snap[r].price
        BY <2>4, <3>1 DEF BuildUpdate, Wants
      <3>3. QED
        BY <2>2, <2>4, <3>2 DEF Message
    <2>5. /\ tx.by = r /\ tx.index = target[r] /\ tx.write = Message(r)
          /\ tx.kind = IF IsUpdate(r) THEN "update" ELSE "register"
      BY DEF Tx
    <2>6. mempool' = <<>> \/ mempool' = <<tx>>
      BY <2>1
    <2>7. (mempool' # <<>> => Head(mempool') = tx) /\ Len(mempool') <= 1
      <3> HIDE DEF tx
      <3>1. CASE mempool' = <<>>
        BY <3>1
      <3>2. CASE mempool' = <<tx>>
        BY <3>2
      <3>3. QED
        BY <2>6, <3>1, <3>2
    <2>8. mempool' # <<>> =>
            /\ Head(mempool').kind = "register" => record = <<>>
            /\ /\ Head(mempool').kind = "update" /\ Head(mempool').by # None
               /\ want[Head(mempool').by].price = None
               => Head(mempool').write.price = record[Head(mempool').index].price
      BY <2>2, <2>4, <2>5, <2>7
    <2>9. \A q \in Runs : pc'[q] \in {"idle", "owned", "index"} => ~IsUpdate(q)
      BY <2>1 DEF Alone
    <2>10. QED
      BY <2>1, <2>3, <2>7, <2>8, <2>9 DEF Alone, IsUpdate
  <1>6. ASSUME Deliver PROVE Alone'
    <2>1. mempool' = <<>> /\ UNCHANGED <<pc, snap, target, want>> /\ \A q \in Runs : Ended(q)
      BY <1>6 DEF Deliver, Alone, runVars
    <2>2. Len(record') <= 1
      BY <1>6 DEF Deliver, Alone
    <2>3. QED
      BY <2>1, <2>2 DEF Alone, Ended, IsUpdate
  <1>7. ASSUME NEW i \in DOMAIN record, Foreign(i) PROVE Alone'
    <2>1. PICK f \in {"price", "metadata"}, v \in Texts :
            mempool' = Append(mempool, Tx(None, "update", i, [record[i] EXCEPT ![f] = v]))
      BY <1>7 DEF Foreign
    <2>2. /\ mempool = <<>> /\ (\A q \in Runs : Ended(q))
          /\ UNCHANGED <<record, pc, snap, target, want>>
      BY <1>7 DEF Foreign, runVars
    <2>3. Len(mempool') = 1 /\ Head(mempool').by = None /\ Head(mempool').kind = "update"
      BY <2>1, <2>2 DEF Tx
    <2>4. QED
      BY <2>2, <2>3 DEF Alone, Ended, IsUpdate
  <1>8. CASE UNCHANGED <<record, mempool, pc, snap, target, want>>
    BY <1>8 DEF Alone, Ended, IsUpdate
  <1>9. QED
    BY <1>1, <1>2, <1>3, <1>4, <1>5, <1>6, <1>7, <1>8
       DEF Next, Step, Deploy, Over, vars, runVars, chainVars

\* With a patient operator, no step interferes with a run under way.
LEMMA PatientAlways == Spec => []PatientRuns
  <1>1. Init => PatientRuns
    BY DEF Init, PatientRuns, Alone, Ended, IsUpdate
  <1>2. [Next]_vars => UNCHANGED patient
    BY DEF Next, Step, Begin, Owned, Index, Bond, Account, Broadcast, Abort, Deliver, Deploy,
       Over, Foreign, vars
  <1>3. Consistent /\ PatientRuns /\ [Next]_vars => PatientRuns'
    BY <1>2, AloneStep DEF PatientRuns
  <1>4. QED
    BY <1>1, <1>3, ConsistentAlways, PTL DEF Spec

\* One key registers one agent, if its owner waits for one thing at a time.
THEOREM OneAgentIfPatient == Spec => []OneAgent
  <1>1. PatientRuns => OneAgent
    BY DEF PatientRuns, Alone, OneAgent
  <1>2. QED
    BY <1>1, PatientAlways, PTL

\* An update without a price leaves the price alone, if its owner waits.
THEOREM PriceLeftAloneIfPatient == Spec => PatientLeavesPrice
  <1>1. ASSUME Consistent, PatientRuns, [Next]_vars, patient, NEW r \in Runs
        PROVE  KeepsPrice(r)
    <2>1. SUFFICES ASSUME Executes(r), Head(mempool).kind = "update", want[r].price = None
                   PROVE  record'[Executed].price = record[Executed].price
      BY DEF KeepsPrice
    <2>2. /\ mempool # <<>> /\ mempool \in Seq(Txs) /\ Head(mempool).by = r /\ record' # record
          /\ mempool' = Tail(mempool)
      BY <1>1, <2>1 DEF Executes, Consistent, TypeOK
    <2>3. Deliver
      BY <1>1, <2>2 DEF Next, Step, Begin, Owned, Index, Bond, Account, Broadcast, Abort,
         Foreign, Deploy, Over, vars, chainVars
    <2>4. record'[Executed] = Head(mempool).write
      BY <1>1, <2>1, <2>2, <2>3 DEF Deliver, Executed, Consistent, TypeOK
    <2>5. Head(mempool).write.price = record[Head(mempool).index].price
      BY <1>1, <2>1, <2>2, NoneAssumption DEF PatientRuns, Alone
    <2>6. QED
      BY <2>4, <2>5 DEF Executed
  <1>2. Consistent /\ PatientRuns /\ [Next]_vars =>
          [patient => \A r \in Runs : KeepsPrice(r)]_vars
    BY <1>1
  <1>3. QED
    BY <1>2, ConsistentAlways, PatientAlways, PTL DEF Spec, PatientLeavesPrice

=============================================================================
