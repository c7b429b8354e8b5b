---------------------------- MODULE Registration ----------------------------
(***************************************************************************)
(* cmd/agent-register and internal/agentchain: putting the running agent   *)
(* on the chain under its owner's key, or bringing its record up to date.  *)
(*                                                                         *)
(* A run reads the chain with several queries, decides between a first     *)
(* registration, an update and nothing, signs one transaction and hands it *)
(* to the mempool.  Nothing it read is still certain when the transaction  *)
(* is executed.  The chain is external: a mempool, an account sequence,    *)
(* and the registry's records.                                             *)
(***************************************************************************)
EXTENDS Naturals, Sequences

CONSTANTS
  Runs,         \* runs of agent-register
  Endpoints,    \* base URLs
  Cards,        \* hashes of cards the agent may serve
  Advertises,   \* the base URLs that the interface of each of them lies under
  Texts,        \* metadata values, and likewise prices and capability sets
  None,         \* no value: "" or nil
  MaxForeign,   \* bound: transactions the owner sends by other means
  MaxDeploys    \* bound: deployments that change the card

ASSUME NoneAssumption == None \notin Texts /\ None \notin Runs
ASSUME CardsAssumption == Advertises \in [Cards -> SUBSET Endpoints]

\* Desired: what a run wants on the chain.  Metadata and price may be absent.
Wants == [endpoint : Endpoints, card : Cards, tags : Texts,
          metadata : Texts \cup {None}, price : Texts \cup {None}]

VARIABLES
  patient,    \* the operator waits for one run and its transaction
  served,     \* the card the agent serves
  deploys, foreign,
  pc,         \* where a run is
  want,       \* Desired
  target,     \* the allocation index the run resolved (0: none)
  snap,       \* existing: the record it read
  nonce,      \* the account sequence it read
  record,     \* chain: index |-> record, in order of allocation
  sequence,   \* chain: the owner's account sequence
  mempool     \* chain: transactions accepted by CheckTx

runVars == <<pc, want, target, snap, nonce>>
chainVars == <<record, sequence, mempool>>
vars == <<patient, served, deploys, foreign, runVars, chainVars>>

\* The order of the chain's checks does not matter here: who sent it, what
\* sequence it was signed with, which agent it names, what it writes.
Tx(r, kind, index, w) ==
  [by |-> r, kind |-> kind, nonce |-> sequence + Len(mempool), index |-> index, write |-> w]

\* BuildRegister, BuildUpdate and Drift.
BuildRegister(w) == w

\* Variant: the update is built from what the deploy knows.
BuildUpdate_FromZero(existing, w) == w

\* Variant: metadata that is set already is never overridden.
BuildUpdate_KeepsMetadata(existing, w) ==
  [w EXCEPT !.metadata = IF existing.metadata # None THEN existing.metadata ELSE @,
            !.price    = IF @ = None THEN existing.price ELSE @]

BuildUpdate(existing, w) ==
  [w EXCEPT !.metadata = IF @ = None THEN existing.metadata ELSE @,
            !.price    = IF @ = None THEN existing.price ELSE @]

Drift(existing, w) ==
  {f \in {"endpoint", "card", "tags"} : existing[f] # w[f]} \cup
  {f \in {"metadata", "price"} : w[f] # None /\ existing[f] # w[f]}

NoWant == [endpoint |-> None, card |-> None, tags |-> None, metadata |-> None, price |-> None]

Init ==
  /\ patient \in BOOLEAN
  /\ served \in Cards
  /\ deploys = 0 /\ foreign = 0
  /\ pc = [r \in Runs |-> "idle"]
  /\ want = [r \in Runs |-> NoWant]
  /\ target = [r \in Runs |-> 0]
  /\ snap = [r \in Runs |-> NoWant]
  /\ nonce = [r \in Runs |-> 0]
  /\ record = <<>>
  /\ sequence = 0
  /\ mempool = <<>>

Goto(r, label) == pc' = [pc EXCEPT ![r] = label]
Ended(r) == pc[r] \in {"idle", "current", "submitted", "failed"}

(***************************************************************************)
(* A run.                                                                  *)
(***************************************************************************)

\* Any query may fail, and with it the run; -dry-run stops before the last one.
Abort(r) ==
  /\ pc[r] \in {"owned", "index", "bond", "account"}
  /\ Goto(r, "failed")
  /\ UNCHANGED <<patient, served, deploys, foreign, want, target, snap, nonce, chainVars>>

\* Variant: whatever a card says of its URL.
Agrees_Unchecked(w) == TRUE

\* checkCardURL: the card sends callers to a URL under the one that is to be
\* registered, or to none.
Agrees(w) == w.endpoint \in Advertises[w.card]

\* The card is fetched and hashed as it is served now.
Begin(r) ==
  /\ pc[r] = "idle"
  /\ patient => mempool = <<>> /\ \A q \in Runs : Ended(q)
  /\ \E w \in Wants :
       /\ w.card = served
       /\ \/ Agrees(w) /\ want' = [want EXCEPT ![r] = w] /\ Goto(r, "owned")
          \/ ~Agrees(w) /\ Goto(r, "failed") /\ UNCHANGED want
  /\ UNCHANGED <<patient, served, deploys, foreign, target, snap, nonce, chainVars>>

\* Variant: a query that fails means that nothing is registered.
NoneOwned_OrUnknown == TRUE

NoneOwned == Len(record) = 0

\* ResolveAgent, first query: the agents of this owner.
Owned(r) ==
  /\ pc[r] = "owned"
  /\ \/ NoneOwned /\ Goto(r, "index") /\ UNCHANGED <<target, snap>>
     \/ /\ Len(record) = 1
        /\ target' = [target EXCEPT ![r] = 1]
        /\ snap' = [snap EXCEPT ![r] = record[1]]
        /\ Goto(r, IF Drift(record[1], want[r]) = {} THEN "current" ELSE "account")
     \/ Len(record) > 1 /\ Goto(r, "failed") /\ UNCHANGED <<target, snap>>
  /\ UNCHANGED <<patient, served, deploys, foreign, want, nonce, chainVars>>

\* Variant: the id is derived from the owner's address alone.
NextIndex_Legacy == 0

NextIndex == Len(record) + 1

\* ResolveAgent, second query: the id that the chain would allocate next.  The
\* chain takes no agent without a price, so the run does not ask it to.
Index(r) ==
  /\ pc[r] = "index"
  /\ target' = [target EXCEPT ![r] = NextIndex]
  /\ Goto(r, IF want[r].price # None THEN "bond" ELSE "failed")
  /\ UNCHANGED <<patient, served, deploys, foreign, want, snap, nonce, chainVars>>

\* resolveBond: one more query, for the chain's minimum.
Bond(r) ==
  /\ pc[r] = "bond"
  /\ Goto(r, "account")
  /\ UNCHANGED <<patient, served, deploys, foreign, want, target, snap, nonce, chainVars>>

\* The account's sequence, as of the last block.
Account(r) ==
  /\ pc[r] = "account"
  /\ nonce' = [nonce EXCEPT ![r] = sequence]
  /\ Goto(r, "broadcast")
  /\ UNCHANGED <<patient, served, deploys, foreign, want, target, snap, chainVars>>

IsUpdate(r) == snap[r] # NoWant
Message(r) == IF IsUpdate(r) THEN BuildUpdate(snap[r], want[r]) ELSE BuildRegister(want[r])

\* BroadcastSync: CheckTx accepts the next sequence only.  The reply may be
\* lost, and then the run fails with its transaction in the mempool.
Broadcast(r) ==
  /\ pc[r] = "broadcast"
  /\ \/ /\ nonce[r] = sequence + Len(mempool)
        /\ mempool' = Append(mempool, Tx(r, IF IsUpdate(r) THEN "update" ELSE "register",
                                         target[r], Message(r)))
        /\ \E outcome \in {"submitted", "failed"} : Goto(r, outcome)
     \/ Goto(r, "failed") /\ UNCHANGED mempool
  /\ UNCHANGED <<patient, served, deploys, foreign, want, target, snap, nonce, record, sequence>>

(***************************************************************************)
(* The chain and the world.                                                *)
(***************************************************************************)

\* A block executes the oldest transaction, which may fail (fees, bond, gas).
Deliver ==
  /\ mempool # <<>>
  /\ LET tx == Head(mempool)
     IN  \/ UNCHANGED record
         \/ /\ tx.kind = "register" /\ tx.index = Len(record) + 1
            /\ record' = Append(record, tx.write)
         \/ /\ tx.kind = "update" /\ tx.index \in DOMAIN record
            /\ record' = [record EXCEPT ![tx.index] = tx.write]
  /\ sequence' = sequence + 1
  /\ mempool' = Tail(mempool)
  /\ UNCHANGED <<patient, served, deploys, foreign, runVars>>

\* The owner changes the price or the metadata with another tool.
Foreign(i) ==
  /\ foreign < MaxForeign /\ foreign' = foreign + 1
  /\ patient => mempool = <<>> /\ \A q \in Runs : Ended(q)
  /\ \E f \in {"price", "metadata"}, v \in Texts :
       mempool' = Append(mempool, Tx(None, "update", i, [record[i] EXCEPT ![f] = v]))
  /\ UNCHANGED <<patient, served, deploys, runVars, record, sequence>>

Deploy ==
  /\ deploys < MaxDeploys /\ deploys' = deploys + 1
  /\ served' \in Cards \ {served}
  /\ UNCHANGED <<patient, foreign, runVars, chainVars>>

Step(r) == Begin(r) \/ Owned(r) \/ Index(r) \/ Bond(r) \/ Account(r) \/ Broadcast(r) \/ Abort(r)

Over == (\A r \in Runs : Ended(r) /\ pc[r] # "idle") /\ mempool = <<>> /\ UNCHANGED vars

Next ==
  \/ \E r \in Runs : Step(r)
  \/ Deliver \/ Deploy \/ Over
  \/ \E i \in DOMAIN record : Foreign(i)

Spec == Init /\ [][Next]_vars

(***************************************************************************)
(* What holds.                                                             *)
(***************************************************************************)
Txs == [by : Runs \cup {None}, kind : {"register", "update"}, nonce : Nat,
        index : Nat \ {0}, write : Wants]

\* Every variable stays in its type; a transaction names an allocated index.
TypeOK ==
  /\ patient \in BOOLEAN /\ served \in Cards /\ deploys \in Nat /\ foreign \in Nat
  /\ pc \in [Runs -> {"idle", "owned", "index", "bond", "account", "broadcast", "current",
                      "submitted", "failed"}]
  /\ want \in [Runs -> Wants \cup {NoWant}] /\ snap \in [Runs -> Wants \cup {NoWant}]
  /\ target \in [Runs -> Nat] /\ nonce \in [Runs -> Nat]
  /\ record \in Seq(Wants) /\ sequence \in Nat /\ mempool \in Seq(Txs)

\* BuildUpdate: an update "built from the deploy's knowledge alone would
\* silently wipe pricing": no transaction of a run takes the price of a
\* registered agent away, whatever lands between reading and executing.
PriceKept == \A i \in DOMAIN record : record[i].price # None

\* checkCardURL: "registering -url would publish an endpoint whose own card
\* points callers somewhere else": every record's endpoint is one that the
\* card it names advertises, whatever is deployed while runs are under way.
PointsToItself ==
  \A i \in DOMAIN record : record[i].endpoint \in Advertises[record[i].card]

\* Which run's transaction a step executes, and whether with effect.
Executes(r) ==
  mempool # <<>> /\ mempool' = Tail(mempool) /\ Head(mempool).by = r /\ record' # record
Executed == Head(mempool).index

\* Whatever became of the record since a run read it, once its transaction
\* takes effect there is nothing left that the run would call drift.
EffectIsWanted ==
  [][\A r \in Runs : Executes(r) => Drift(record'[Executed], want[r]) = {}]_vars

\* The inductive invariant behind the three: what a run is about to send, and
\* what it has sent, has a price, names the endpoint of its card, and leaves no
\* drift from what the run wants.
Sound(write) == write.price # None /\ Agrees(write)
Built(r, write) == Sound(write) /\ Drift(write, want[r]) = {}
Composed ==
  \A r \in Runs :
    /\ pc[r] \notin {"idle", "failed"} => want[r] \in Wants /\ Agrees(want[r])
    /\ pc[r] \in {"bond", "account", "broadcast"} => target[r] # 0 /\ Built(r, Message(r))
Queued ==
  \A p \in DOMAIN mempool :
    /\ Sound(mempool[p].write)
    /\ mempool[p].by # None => /\ pc[mempool[p].by] \in {"submitted", "failed"}
                              /\ Built(mempool[p].by, mempool[p].write)
Consistent == TypeOK /\ PriceKept /\ PointsToItself /\ Composed /\ Queued

(***************************************************************************)
(* What holds only if the operator is patient.                             *)
(***************************************************************************)

\* What the two below rest on: one run at a time, with nothing queued, knows what
\* is registered; and at most one transaction is queued, which knew it, too.
Alone ==
  /\ Len(record) <= 1 /\ Len(mempool) <= 1
  /\ \A q, r \in Runs : ~Ended(q) /\ ~Ended(r) => q = r
  /\ \A r \in Runs : pc[r] \in {"idle", "owned", "index"} => ~IsUpdate(r)
  /\ \A r \in Runs : ~Ended(r) =>
       /\ mempool = <<>>
       /\ IF IsUpdate(r) THEN record # <<>> /\ target[r] = 1 /\ snap[r] = record[1]
                         ELSE pc[r] # "owned" => record = <<>>
  /\ mempool # <<>> =>
       LET tx == Head(mempool)
       IN  /\ tx.kind = "register" => record = <<>>
           /\ tx.kind = "update" /\ tx.by # None /\ want[tx.by].price = None
                => tx.write.price = record[tx.index].price
PatientRuns == patient => Alone

\* README: "one key registers exactly one agent".
OneAgent == patient => Len(record) <= 1

\* The update of a run that names no price leaves the price alone.
KeepsPrice(r) ==
  Executes(r) /\ Head(mempool).kind = "update" /\ want[r].price = None =>
    record'[Executed].price = record[Executed].price

\* Desired.Pricing: "nil on an update leaves the registered value alone", when
\* nothing of the owner's lands between the run's reading and its writing.
PatientLeavesPrice == [][patient => \A r \in Runs : KeepsPrice(r)]_vars

(***************************************************************************)
(* What the comments say and the code does not do.                         *)
(***************************************************************************)

\* Desired.Pricing: "nil on an update leaves the registered value alone": an
\* update without a price leaves the price, whoever else sends transactions.
PriceLeftAlone == [][\A r \in Runs : KeepsPrice(r)]_vars

=============================================================================
