--------------------------- MODULE Planner_proofs ---------------------------
(***************************************************************************)
(* Proofs about Planner, for any number of questions, any tools, any       *)
(* bounds of the configuration and any fan-out of the model's replies.     *)
(***************************************************************************)
EXTENDS Planner, SequenceTheorems, TLAPS

\* What BuildCatalog leaves is served, and is not withheld.
LEMMA UsableFacts ==
  ASSUME NEW tools \in SUBSET Tools
  PROVE  Usable(tools) \subseteq Tools /\ Usable(tools) \cap Withheld = {}
  BY DEF Usable

\* A reply asks for a sequence of tools no longer than MaxFanout.
LEMMA RepliesFacts == \A calls \in Replies : calls \in Seq(Tools) /\ Len(calls) <= MaxFanout
  BY BoundsAssumption DEF Replies

\* Nothing has been asked, read or dispatched at the start.
LEMMA BoundedInit == Init => Bounded
  <1> SUFFICES ASSUME Init PROVE Bounded
    OBVIOUS
  <1>1. TypeOK
    BY BoundsAssumption, NobodyAssumption DEF Init, TypeOK, Reasons
  <1>2. Counted /\ Confined /\ TurnsBounded /\ OvershootBounded /\ Boundary
    BY BoundsAssumption
       DEF Init, Counted, Confined, TurnsBounded, OvershootBounded, Boundary
  <1>3. QED
    BY <1>1, <1>2 DEF Bounded

\* What a step of one question does to the others: nothing they can see but
\* the catalog, its lock, and the calls that were dispatched.
LEMMA CountedElsewhere ==
  ASSUME TypeOK, Counted, NEW a \in Asks,
         \A b \in Asks \ {a} : /\ pc'[b] = pc[b] /\ iter'[b] = iter[b]
                               /\ records'[b] = records[b] /\ asked'[b] = asked[b]
                               /\ results'[b] = results[b],
         pc'[a] = "tools" => ~Last(a)' /\ Len(asked'[a]) <= MaxFanout,
         pc'[a] \in {"idle", "lock", "load", "plan"} /\ iter'[a] = 0 => results'[a] = <<>>
  PROVE  Counted'
  BY DEF Counted, Last

\* Up to the model's reply: a question begins, waits for the catalog, reads it
\* without what is withheld, and sends.
LEMMA EntryStep ==
  ASSUME Bounded, NEW a \in Asks, Begin(a) \/ Lock(a) \/ Load(a) \/ Send(a)
  PROVE  Bounded'
  <1>1. pc'[a] # "tools" /\ \A b \in Asks \ {a} : pc'[b] = pc[b]
    BY DEF Bounded, TypeOK, Begin, Lock, Load, Send, Goto, Fail
  <1>2. UNCHANGED <<provider, iter, records, asked, results, dispatched, expired>>
    BY DEF Begin, Lock, Load, Send
  <1>3. pc' \in [Asks -> {"idle", "lock", "load", "plan", "model", "tools", "answered", "failed"}]
    BY DEF Bounded, TypeOK, Begin, Lock, Load, Send, Goto, Fail
  <1>4. why' \in [Asks -> Reasons]
    BY DEF Bounded, TypeOK, Begin, Lock, Load, Send, Goto, Fail, Reason, Reasons
  <1>5. catalog' \subseteq Tools /\ catalogMu' \in Asks \cup {Nobody} /\ Confined'
    BY UsableFacts DEF Bounded, TypeOK, Confined, Begin, Lock, Load, Send, Unlock
  <1>6. transcript' \in [Asks -> Seq(Messages)]
    <2>1. CASE Send(a)
      <3>1. Text(a) \in Seq(Messages)
        <4>1. User("budget") \in Messages /\ User("question") \in Messages
          BY DEF User, Users, Messages
        <4>2. Text(a) \in {<<User("budget")>>, <<User("question")>>, <<>>}
          BY DEF Text
        <4>3. \A m \in Messages : <<m>> \in Seq(Messages)
          OBVIOUS
        <4>4. <<>> \in Seq(Messages)
          OBVIOUS
        <4>5. QED
          BY <4>1, <4>2, <4>3, <4>4
      <3>2. ResultsOf(a) \in Seq(Messages)
        <4>1. results[a] \in Seq(Nat) /\ iter[a] \in 0..MaxIterations
          BY DEF Bounded, TypeOK
        <4>2. iter[a] = 0 => results[a] = <<>>
          BY <2>1 DEF Bounded, Counted, Send
        <4>3. results[a] # <<>> => iter[a] - 1 \in Nat
          BY <4>1, <4>2, BoundsAssumption
        <4>4. \A calls \in Seq(Nat) : results[a] # <<>> => Result(iter[a] - 1, calls) \in Messages
          BY <4>3 DEF Result, Messages
        <4>5. OpenAIResults(iter[a] - 1, results[a]) \in Seq(Messages)
          <5>1. \A p \in DOMAIN results[a] : results[a] # <<>> /\ <<results[a][p]>> \in Seq(Nat)
            BY <4>1
          <5>2. \A p \in DOMAIN results[a] : Result(iter[a] - 1, <<results[a][p]>>) \in Messages
            BY <4>4, <5>1
          <5>3. DOMAIN results[a] = 1..Len(results[a]) /\ Len(results[a]) \in Nat
            BY <4>1
          <5>4. QED
            BY <5>2, <5>3 DEF OpenAIResults
        <4>6. AnthropicResults(iter[a] - 1, results[a]) \in Seq(Messages)
          BY <4>1, <4>4 DEF AnthropicResults
        <4>7. QED
          BY <4>5, <4>6 DEF ResultsOf
      <3>3. Opening(a) \in Seq(Messages)
        <4>1. System \in Messages
          BY DEF Messages
        <4>2. QED
          BY <4>1 DEF Opening
      <3>5. transcript[a] \o Opening(a) \o Text(a) \o ResultsOf(a) \in Seq(Messages)
        BY <3>1, <3>2, <3>3 DEF Bounded, TypeOK
      <3>6. QED
        BY <2>1, <3>5 DEF Bounded, TypeOK, Send
    <2>2. CASE ~Send(a)
      BY <2>2 DEF Bounded, TypeOK, Begin, Lock, Load
    <2>3. QED
      BY <2>1, <2>2
  <1>7. TypeOK'
    BY <1>2, <1>3, <1>4, <1>5, <1>6 DEF Bounded, TypeOK
  <1>8. Counted'
    <2>1. pc'[a] = "plan" => pc[a] \in {"lock", "load"}
      BY DEF Bounded, TypeOK, Begin, Lock, Load, Send, Goto, Fail
    <2>2. pc'[a] \in {"idle", "lock", "load"} => pc[a] \in {"idle", "lock"}
      BY DEF Bounded, TypeOK, Begin, Lock, Load, Send, Goto, Fail
    <2>3. QED
      BY <1>1, <1>2, <2>1, <2>2, CountedElsewhere DEF Bounded, Counted
  <1>9. QED
    BY <1>2, <1>5, <1>7, <1>8
       DEF Bounded, TurnsBounded, OvershootBounded, Boundary

\* The model's reply: tools are asked for only in a turn that is not the last.
LEMMA ReplyStep ==
  ASSUME Bounded, NEW a \in Asks, Reply(a)
  PROVE  Bounded'
  <1>1. /\ \A b \in Asks \ {a} : pc'[b] = pc[b] /\ asked'[b] = asked[b] /\ results'[b] = results[b]
        /\ pc'[a] \in {"answered", "failed", "tools"}
    BY DEF Bounded, TypeOK, Reply, Deny, Answer, UseTools, Goto, Fail
  <1>2. UNCHANGED <<iter, records, dispatched, expired, catalog, catalogMu>>
    BY DEF Reply
  <1>3. pc' \in [Asks -> {"idle", "lock", "load", "plan", "model", "tools", "answered", "failed"}]
    BY DEF Bounded, TypeOK, Reply, Deny, Answer, UseTools, Goto, Fail
  <1>4. why' \in [Asks -> Reasons]
    BY DEF Bounded, TypeOK, Reply, Deny, Answer, UseTools, Goto, Fail, Reason, Reasons
  <1>5. /\ asked' \in [Asks -> Seq(Tools)] /\ results' \in [Asks -> Seq(Nat)]
        /\ transcript' \in [Asks -> Seq(Messages)]
        /\ pc'[a] = "tools" => ~Last(a)' /\ Len(asked'[a]) <= MaxFanout
    <2>1. CASE UseTools(a)
      <3>1. PICK calls \in Replies :
              /\ asked' = [asked EXCEPT ![a] = calls]
              /\ results' = [results EXCEPT ![a] = [p \in DOMAIN calls |-> 0]]
              /\ transcript' = [transcript EXCEPT ![a] = Append(@, Model(iter[a], Len(calls)))]
        BY <2>1 DEF UseTools
      <3>2. calls \in Seq(Tools) /\ Len(calls) \in Nat /\ Len(calls) <= MaxFanout
        BY RepliesFacts
      <3>3. [p \in DOMAIN calls |-> 0] \in Seq(Nat)
        BY <3>2
      <3>4. Model(iter[a], Len(calls)) \in Messages
        BY <3>2, BoundsAssumption DEF Bounded, TypeOK, Model, Messages
      <3>5. Append(transcript[a], Model(iter[a], Len(calls))) \in Seq(Messages)
        BY <3>4 DEF Bounded, TypeOK
      <3>6. ~Last(a)'
        BY <1>2, <2>1 DEF UseTools, Last
      <3>7. QED
        BY <3>1, <3>2, <3>3, <3>5, <3>6 DEF Bounded, TypeOK
    <2>2. CASE ~UseTools(a)
      BY <2>2 DEF Bounded, TypeOK, Reply, Deny, Answer, Goto, Fail
    <2>3. QED
      BY <2>1, <2>2
  <1>6. TypeOK'
    BY <1>2, <1>3, <1>4, <1>5 DEF Bounded, TypeOK, Reply
  <1>7. Counted'
    BY <1>1, <1>2, <1>5, CountedElsewhere DEF Bounded
  <1>8. QED
    BY <1>2, <1>6, <1>7
       DEF Bounded, Confined, TurnsBounded, OvershootBounded, Boundary

\* The boundary is here: what is dispatched is allowed, and what is allowed is
\* in the catalog.
LEMMA RunToolStep ==
  ASSUME Bounded, NEW a \in Asks, NEW i \in DOMAIN asked[a], RunTool(a, i)
  PROVE  Bounded'
  <1>1. UNCHANGED <<provider, catalog, catalogMu, pc, iter, records, asked, transcript, why,
                   expired>>
    BY DEF RunTool
  <1>2. pc[a] = "tools" /\ i \in Nat /\ asked[a][i] \in Tools /\ iter[a] \in Nat
    BY BoundsAssumption DEF Bounded, TypeOK, RunTool
  <1>3. results' \in [Asks -> Seq(Nat)]
    <2>1. [results[a] EXCEPT ![i] = i] \in Seq(Nat)
      <3>1. results[a] \in Seq(Nat)
        BY DEF Bounded, TypeOK
      <3>2. CASE i \in DOMAIN results[a]
        BY <1>2, <3>1, <3>2, ExceptSeq
      <3>3. CASE i \notin DOMAIN results[a]
        <4>1. [results[a] EXCEPT ![i] = i] = results[a]
          BY <3>1, <3>3
        <4>2. QED
          BY <3>1, <4>1
      <3>4. QED
        BY <3>2, <3>3
    <2>2. results' = [results EXCEPT ![a] = [results[a] EXCEPT ![i] = i]]
      BY DEF RunTool, Place
    <2>3. QED
      BY <2>1, <2>2 DEF Bounded, TypeOK
  <1>4. CallOf(a, i) \in Records /\ CallOf(a, i).tool = asked[a][i]
    BY <1>2 DEF CallOf, Records
  <1>5. dispatched' \subseteq [ask : Asks, call : Records] /\ Boundary'
    <2>1. CASE Allows(asked[a][i])
      <3>1. asked[a][i] \notin Withheld
        BY <2>1 DEF Allows, Bounded, Confined
      <3>2. dispatched' = dispatched \cup {[ask |-> a, call |-> CallOf(a, i)]}
        BY <2>1 DEF RunTool
      <3>3. QED
        BY <1>4, <3>1, <3>2 DEF Bounded, TypeOK, Boundary
    <2>2. CASE ~Allows(asked[a][i])
      BY <2>2 DEF RunTool, Bounded, TypeOK, Boundary
    <2>3. QED
      BY <2>1, <2>2
  <1>6. TypeOK'
    BY <1>1, <1>3, <1>5 DEF Bounded, TypeOK
  <1>7. Counted'
    BY <1>1, <1>2 DEF Bounded, Counted, Last, RunTool, TypeOK
  <1>8. QED
    BY <1>1, <1>5, <1>6, <1>7
       DEF Bounded, Confined, TurnsBounded, OvershootBounded

\* The bounds are here: a turn that runs tools is not the last.
LEMMA JoinStep ==
  ASSUME Bounded, NEW a \in Asks, Join(a)
  PROVE  Bounded'
  <1>1. UNCHANGED <<provider, catalog, catalogMu, asked, results, transcript, why, expired,
                   dispatched>>
    BY DEF Join
  <1>2. /\ ~Last(a) /\ Len(asked[a]) <= MaxFanout /\ iter[a] \in Nat
        /\ records[a] \in Seq(Records) /\ asked[a] \in Seq(Tools)
    BY BoundsAssumption DEF Bounded, TypeOK, Counted, Join
  <1>3. \A i \in DOMAIN asked[a] : CallOf(a, i) \in Records
    BY <1>2 DEF CallOf, Records
  <1>4. Recorded(a) \in Seq(Records) /\ Len(Recorded(a)) = Len(records[a]) + Len(asked[a])
    <2> DEFINE new == [i \in DOMAIN asked[a] |-> CallOf(a, i)]
    <2>1. new \in Seq(Records) /\ Len(new) = Len(asked[a])
      BY <1>2, <1>3
    <2>2. Recorded(a) = records[a] \o new
      BY DEF Recorded
    <2>3. records[a] \in Seq(Records)
      BY <1>2
    <2> HIDE DEF new
    <2>4. /\ records[a] \o new \in Seq(Records)
          /\ Len(records[a] \o new) = Len(records[a]) + Len(new)
      BY <2>1, <2>3, ConcatProperties
    <2>5. QED
      BY <2>1, <2>2, <2>4
  <1>5. Len(Recorded(a)) < MaxToolCalls + MaxFanout /\ iter[a] + 1 < MaxIterations
    <2>1. iter[a] < MaxIterations - 1 /\ Len(records[a]) < MaxToolCalls
      BY <1>2, LenProperties, BoundsAssumption DEF Last
    <2>2. Len(asked[a]) \in Nat /\ Len(records[a]) \in Nat
      BY <1>2, LenProperties
    <2>3. Len(records[a]) + Len(asked[a]) < MaxToolCalls + MaxFanout
      <3>1. \A x, y, b, c \in Nat : x < b /\ y <= c => x + y < b + c
        OBVIOUS
      <3>2. MaxToolCalls \in Nat /\ MaxFanout \in Nat /\ Len(asked[a]) <= MaxFanout
        BY <1>2, BoundsAssumption
      <3>3. QED
        BY <2>1, <2>2, <3>1, <3>2
    <2>4. iter[a] + 1 < MaxIterations
      BY <1>2, <2>1, BoundsAssumption
    <2>5. QED
      BY <1>4, <2>3, <2>4
  <1>6. /\ pc' \in [Asks -> {"idle", "lock", "load", "plan", "model", "tools", "answered",
                            "failed"}]
        /\ pc'[a] = "plan" /\ \A b \in Asks \ {a} : pc'[b] = pc[b]
    BY DEF Bounded, TypeOK, Join, Goto
  <1>7. /\ iter' \in [Asks -> 0..MaxIterations] /\ iter'[a] = iter[a] + 1
        /\ \A b \in Asks \ {a} : iter'[b] = iter[b]
    <2>1. iter \in [Asks -> 0..MaxIterations] /\ iter' = [iter EXCEPT ![a] = iter[a] + 1]
      BY DEF Bounded, TypeOK, Join
    <2>2. iter[a] + 1 \in 0..MaxIterations
      BY <1>2, <1>5, BoundsAssumption
    <2>3. QED
      BY <2>1, <2>2
  <1>8. /\ records' \in [Asks -> Seq(Records)] /\ records'[a] = Recorded(a)
        /\ \A b \in Asks \ {a} : records'[b] = records[b]
    BY <1>4 DEF Bounded, TypeOK, Join
  <1>9. TypeOK'
    BY <1>1, <1>6, <1>7, <1>8 DEF Bounded, TypeOK
  <1>10. Counted'
    <2>1. iter'[a] # 0
      BY <1>2, <1>7
    <2>2. QED
      BY <1>1, <1>6, <1>7, <1>8, <2>1, CountedElsewhere DEF Bounded
  <1>11. TurnsBounded' /\ OvershootBounded'
    BY <1>5, <1>7, <1>8 DEF Bounded, TurnsBounded, OvershootBounded
  <1>12. QED
    BY <1>1, <1>9, <1>10, <1>11 DEF Bounded, Confined, Boundary

\* Every step preserves the inductive invariant.
LEMMA BoundedStep == Bounded /\ [Next]_vars => Bounded'
  <1> SUFFICES ASSUME Bounded, [Next]_vars PROVE Bounded'
    OBVIOUS
  <1>1. CASE \E a \in Asks : Expire(a)
    BY <1>1 DEF Expire, askVars, Bounded, TypeOK, Counted, Last, Confined, TurnsBounded,
                OvershootBounded, Boundary
  <1>2. CASE UNCHANGED vars
    BY <1>2 DEF vars, askVars, Bounded, TypeOK, Counted, Last, Confined, TurnsBounded,
                OvershootBounded, Boundary
  <1>3. QED
    BY <1>1, <1>2, EntryStep, ReplyStep, RunToolStep, JoinStep DEF Next, Progress, Stopped

\* The inductive invariant holds in every reachable state.
THEOREM BoundedAlways == Spec => []Bounded
  BY BoundedInit, BoundedStep, PTL DEF Spec

\* Every variable stays in its type, for any number of questions and tools.
THEOREM PlannerTyped == Spec => []TypeOK
  <1>1. Bounded => TypeOK
    BY DEF Bounded
  <1>2. QED
    BY <1>1, BoundedAlways, PTL

\* No call of a withheld tool leaves the agent, whatever the MCP server lists
\* and whatever the model asks for.
THEOREM BoundaryHolds == Spec => []Boundary
  <1>1. Bounded => Boundary
    BY DEF Bounded
  <1>2. QED
    BY <1>1, BoundedAlways, PTL

\* A question takes at most MaxIterations turns.
THEOREM TurnsAreBounded == Spec => []TurnsBounded
  <1>1. Bounded => TurnsBounded
    BY DEF Bounded
  <1>2. QED
    BY <1>1, BoundedAlways, PTL

\* The tool calls of a question pass MaxToolCalls by less than one reply's.
THEOREM OvershootIsBounded == Spec => []OvershootBounded
  <1>1. Bounded => OvershootBounded
    BY DEF Bounded
  <1>2. QED
    BY <1>1, BoundedAlways, PTL

\* Every question moves towards its end, turn by turn.
THEOREM AsksAlwaysGetOn == Spec => AsksGetOn
  <1> DEFINE GetsOn(a) == pc'[a] # pc[a] => Left(a)' \in 0..(Left(a) - 1)
  <1>1. Bounded /\ [Next]_vars => \A a \in Asks : GetsOn(a)
    <2> SUFFICES ASSUME Bounded, [Next]_vars PROVE \A a \in Asks : GetsOn(a)
      OBVIOUS
    <2>1. /\ pc \in [Asks -> DOMAIN StepsLeft] /\ iter \in [Asks -> 0..MaxIterations - 1]
          /\ MaxIterations \in Nat \ {0}
      BY BoundsAssumption DEF Bounded, TypeOK, TurnsBounded, StepsLeft
    <2>2. ASSUME NEW a \in Asks, UNCHANGED iter, NEW label \in DOMAIN StepsLeft, Goto(a, label),
                 StepsLeft[label] < StepsLeft[pc[a]]
          PROVE  \A b \in Asks : GetsOn(b)
      <3>1. pc'[a] = label /\ \A b \in Asks \ {a} : UNCHANGED pc[b]
        BY <2>1, <2>2 DEF Goto
      <3>2. iter[a] \in 0..MaxIterations - 1 /\ pc[a] \in DOMAIN StepsLeft
        BY <2>1
      <3>3. StepsLeft[label] \in Nat /\ StepsLeft[pc[a]] \in Nat
        BY <2>2, <3>2 DEF StepsLeft
      <3>4. Left(a)' \in 0..(Left(a) - 1)
        BY <2>1, <2>2, <3>1, <3>2, <3>3 DEF Left
      <3>5. QED
        BY <3>1, <3>4
    <2>3. ASSUME NEW a \in Asks, Begin(a) \/ Lock(a) \/ Load(a) PROVE \A b \in Asks : GetsOn(b)
      BY <2>2, <2>3 DEF Begin, Lock, Load, Fail, StepsLeft
    <2>4. ASSUME NEW a \in Asks, Send(a) \/ Reply(a) PROVE \A b \in Asks : GetsOn(b)
      BY <2>2, <2>4 DEF Send, Reply, Deny, Answer, UseTools, Fail, StepsLeft
    <2>5. ASSUME NEW a \in Asks, Join(a) PROVE \A b \in Asks : GetsOn(b)
      <3>1. /\ pc[a] = "tools" /\ pc'[a] = "plan" /\ iter'[a] = iter[a] + 1 /\ iter'[a] < MaxIterations
            /\ \A b \in Asks \ {a} : UNCHANGED pc[b]
        <4>1. ~Last(a)
          BY <2>5 DEF Bounded, Counted, Join
        <4>2. iter[a] \in 0..MaxIterations - 1 /\ ~(iter[a] >= MaxIterations - 1)
          BY <2>1, <4>1 DEF Last
        <4>3. QED
          BY <2>1, <2>5, <4>2 DEF Join, Goto
      <3>2. iter[a] \in 0..MaxIterations - 1
        BY <2>1
      <3>3. Left(a)' \in 0..(Left(a) - 1)
        BY <2>1, <3>1, <3>2 DEF Left, StepsLeft
      <3>4. QED
        BY <3>1, <3>3
    <2>6. CASE UNCHANGED pc
      BY <2>6
    <2>7. QED
      BY <2>3, <2>4, <2>5, <2>6 DEF Next, Progress, RunTool, Expire, Stopped, vars, askVars
  <1>2. Bounded /\ [Next]_vars => [\A a \in Asks : pc'[a] # pc[a] => Left(a)' \in 0..(Left(a) - 1)]_vars
    BY <1>1
  <1>3. QED
    BY <1>2, BoundedAlways, PTL DEF Spec, AsksGetOn

(***************************************************************************)
(* The catalog.                                                            *)
(***************************************************************************)
\* Nobody reads the catalog at the start.
LEMMA ReadingInit == Init => Reading
  BY DEF Init, Reading

\* Every step preserves Reading: who gets the lock looks again before reading.
LEMMA ReadingStep == TypeOK /\ Reading /\ [Next]_vars => Reading'
  <1> SUFFICES ASSUME TypeOK, Reading, [Next]_vars PROVE Reading'
    OBVIOUS
  <1>1. ASSUME NEW a \in Asks, Lock(a) PROVE Reading'
    BY <1>1, NobodyAssumption DEF TypeOK, Lock, Goto, Reading
  <1>2. ASSUME NEW a \in Asks, Load(a) PROVE Reading'
    BY <1>2 DEF TypeOK, Load, Unlock, Goto, Fail, Reading
  <1>3. ASSUME NEW a \in Asks, Begin(a) \/ Send(a) \/ Reply(a) \/ Join(a) PROVE Reading'
    BY <1>3 DEF TypeOK, Begin, Send, Reply, Deny, Answer, UseTools, Join, Goto, Fail, Reading
  <1>4. ASSUME NEW a \in Asks, NEW i \in DOMAIN asked[a], RunTool(a, i) PROVE Reading'
    BY <1>4 DEF RunTool, Reading
  <1>5. CASE (\E a \in Asks : Expire(a)) \/ UNCHANGED vars
    BY <1>5 DEF Expire, vars, askVars, Reading
  <1>6. QED
    BY <1>1, <1>2, <1>3, <1>4, <1>5 DEF Next, Progress, Stopped

\* Hence whoever reads the catalog has the lock.
LEMMA ReadingAlways == Spec => []Reading
  BY PlannerTyped, ReadingInit, ReadingStep, PTL DEF Spec

\* The catalog, once read, is not read again, however many questions waited
\* for it: whoever gets the lock looks again before reading.
THEOREM CatalogLoadedOnce == Spec => LoadedOnce
  <1>1. Bounded /\ Reading /\ [Next]_vars
          => [catalog # {} => UNCHANGED catalog /\ \A a \in Asks : pc'[a] # "load"]_vars
    <2> SUFFICES ASSUME Bounded, Reading, Next, catalog # {}
                 PROVE  UNCHANGED catalog /\ \A a \in Asks : pc'[a] # "load"
      OBVIOUS
    <2>1. \A a \in Asks : pc[a] # "load"
      BY DEF Reading
    <2>2. ASSUME NEW a \in Asks, Begin(a) \/ Lock(a) \/ Send(a) \/ Reply(a) \/ Join(a)
          PROVE  UNCHANGED catalog /\ \A b \in Asks : pc'[b] # "load"
      BY <2>1, <2>2 DEF Bounded, TypeOK, Begin, Lock, Send, Reply, Deny, Answer, UseTools, Join,
                        Goto, Fail
    <2>3. CASE \E a \in Asks : Expire(a) \/ \E i \in DOMAIN asked[a] : RunTool(a, i)
      BY <2>1, <2>3 DEF Expire, RunTool, askVars
    <2>4. CASE Stopped
      BY <2>1, <2>4 DEF Stopped, vars, askVars
    <2>5. QED
      BY <2>1, <2>2, <2>3, <2>4 DEF Next, Progress, Load
  <1>2. QED
    BY <1>1, ReadingAlways, BoundedAlways, PTL DEF Spec, LoadedOnce

(***************************************************************************)
(* The records.                                                            *)
(***************************************************************************)

\* Steps of a question whose tools do not run, and end running none.
LEMMA AccountedElsewhere ==
  ASSUME TypeOK, Accounted, NEW a \in Asks, Begin(a) \/ Lock(a) \/ Load(a) \/ Send(a) \/ Reply(a)
  PROVE  Accounted'
  <1>1. UNCHANGED <<iter, records, dispatched>> /\ pc[a] # "tools"
    BY DEF Begin, Lock, Load, Send, Reply
  <1>2. \A b \in Asks \ {a} : pc'[b] = pc[b] /\ asked'[b] = asked[b]
    BY DEF TypeOK, Begin, Lock, Load, Send, Reply, Deny, Answer, UseTools, Goto, Fail
  <1>3. \A d \in dispatched : d.ask \in Asks
    BY DEF TypeOK
  <1>4. QED
    BY <1>1, <1>2, <1>3 DEF Accounted, CallOf

\* What was in a sequence, and what was put behind it, is in the whole.
LEMMA Concatenated ==
  ASSUME NEW S, NEW s \in Seq(S), NEW t \in Seq(S)
  PROVE  /\ \A p \in DOMAIN s : p \in DOMAIN (s \o t) /\ (s \o t)[p] = s[p]
         /\ \A p \in DOMAIN t : /\ Len(s) + p \in DOMAIN (s \o t)
                              /\ (s \o t)[Len(s) + p] = t[p]
  <1>1. /\ Len(s) \in Nat /\ DOMAIN s = 1..Len(s) /\ Len(t) \in Nat /\ DOMAIN t = 1..Len(t)
        /\ DOMAIN (s \o t) = 1..(Len(s) + Len(t))
    OBVIOUS
  <1>2. ASSUME NEW p \in DOMAIN s PROVE p \in DOMAIN (s \o t) /\ (s \o t)[p] = s[p]
    BY <1>1
  <1>3. ASSUME NEW p \in DOMAIN t
        PROVE  Len(s) + p \in DOMAIN (s \o t) /\ (s \o t)[Len(s) + p] = t[p]
    <2>1. p \in 1..Len(t) /\ Len(s) + p \in 1..(Len(s) + Len(t))
      BY <1>1
    <2>2. (s \o t)[Len(s) + p] = t[p]
      BY <1>1, <2>1
    <2>3. QED
      BY <1>1, <2>1, <2>2
  <1>4. QED
    BY <1>2, <1>3

\* When the tools of a turn are done, its calls follow the records so far.
LEMMA AccountedJoin ==
  ASSUME TypeOK, Accounted, NEW a \in Asks, Join(a)
  PROVE  Accounted'
  <1> DEFINE new == [i \in DOMAIN asked[a] |-> CallOf(a, i)]
  <1>1. /\ UNCHANGED <<asked, dispatched>> /\ records'[a] = records[a] \o new
        /\ \A b \in Asks \ {a} : pc'[b] = pc[b] /\ iter'[b] = iter[b] /\ records'[b] = records[b]
    BY DEF TypeOK, Join, Goto, Recorded
  <1>2. records[a] \in Seq(Records) /\ asked[a] \in Seq(Tools) /\ iter[a] \in Nat
    BY BoundsAssumption DEF TypeOK
  <1>3. \A i \in DOMAIN asked[a] : CallOf(a, i) \in Records
    <2>1. \A i \in DOMAIN asked[a] : i \in Nat /\ asked[a][i] \in Tools
      BY <1>2
    <2>2. QED
      BY <1>2, <2>1 DEF CallOf, Records
  <1>4. new \in Seq(Records) /\ Len(new) = Len(asked[a])
    <2>1. DOMAIN asked[a] = 1..Len(asked[a]) /\ Len(asked[a]) \in Nat
      BY <1>2
    <2>2. QED
      BY <1>3, <2>1
  <1>5. /\ \A p \in DOMAIN records[a] : p \in DOMAIN records'[a] /\ records'[a][p] = records[a][p]
        /\ \A p \in DOMAIN new : \E q \in DOMAIN records'[a] : records'[a][q] = new[p]
    <2> HIDE DEF new
    <2> DEFINE whole == records[a] \o new
    <2>1. /\ \A p \in DOMAIN records[a] : p \in DOMAIN whole /\ whole[p] = records[a][p]
          /\ \A p \in DOMAIN new : /\ Len(records[a]) + p \in DOMAIN whole
                                 /\ whole[Len(records[a]) + p] = new[p]
      BY <1>2, <1>4, Concatenated
    <2> HIDE DEF whole
    <2>2. \A p \in DOMAIN new : \E q \in DOMAIN whole : whole[q] = new[p]
      BY <2>1
    <2>3. records'[a] = whole
      BY <1>1 DEF whole
    <2>4. QED
      BY <2>1, <2>2, <2>3
  <1>6. \A i \in DOMAIN asked[a] : \E p \in DOMAIN records'[a] : records'[a][p] = CallOf(a, i)
    BY <1>5
  <1>7. ASSUME NEW d \in dispatched PROVE
          LET b == d.ask IN
            \/ \E p \in DOMAIN records'[b] : records'[b][p] = d.call
            \/ pc'[b] = "tools" /\ \E i \in DOMAIN asked'[b] : d.call = CallOf(b, i)'
    <2>1. d.ask \in Asks
      BY DEF TypeOK
    <2>2. CASE d.ask = a
      BY <1>5, <1>6, <2>2 DEF Accounted
    <2>3. CASE d.ask # a
      <3>1. /\ pc'[d.ask] = pc[d.ask] /\ records'[d.ask] = records[d.ask]
            /\ asked'[d.ask] = asked[d.ask]
            /\ \A i : CallOf(d.ask, i)' = CallOf(d.ask, i)
        BY <1>1, <2>1, <2>3 DEF CallOf
      <3>2. QED
        BY <3>1 DEF Accounted
    <2>4. QED
      BY <2>2, <2>3
  <1>8. QED
    BY <1>1, <1>7 DEF Accounted

\* Every step keeps the calls accounted for.
LEMMA AccountedStep == TypeOK /\ Accounted /\ [Next]_vars => Accounted'
  <1> SUFFICES ASSUME TypeOK, Accounted, [Next]_vars PROVE Accounted'
    OBVIOUS
  <1>1. ASSUME NEW a \in Asks, NEW i \in DOMAIN asked[a], RunTool(a, i) PROVE Accounted'
    <2>1. /\ UNCHANGED <<pc, iter, records, asked>> /\ pc[a] = "tools"
          /\ dispatched' \subseteq dispatched \cup {[ask |-> a, call |-> CallOf(a, i)]}
      BY <1>1 DEF RunTool
    <2>2. QED
      BY <2>1 DEF Accounted, CallOf
  <1>2. CASE (\E a \in Asks : Expire(a)) \/ UNCHANGED vars
    BY <1>2 DEF Expire, vars, askVars, Accounted, CallOf
  <1>3. QED
    BY <1>1, <1>2, AccountedElsewhere, AccountedJoin DEF Next, Progress, Stopped

\* Every call that left the agent for an answer is among the answer's records.
THEOREM AuditedAlways == Spec => []Audited
  <1>1. Init => Accounted
    BY DEF Init, Accounted
  <1>2. TypeOK /\ Accounted => Audited
    BY DEF TypeOK, Accounted, Audited
  <1>3. QED
    BY <1>1, <1>2, PlannerTyped, AccountedStep, PTL DEF Spec


-----------------------------------------------------------------------------
(***************************************************************************)
(* Results in order.                                                       *)
(***************************************************************************)

\* A turn that is settled stays settled when the transcript goes on with
\* anything but one more result.
LEMMA SettledGoesOn ==
  ASSUME NEW api, NEW s \in Seq(Messages), NEW T \in Seq(Messages),
         Len(s) <= Len(T), \A i \in 1..Len(s) : T[i] = s[i],
         Len(s) < Len(T) => T[Len(s) + 1].by # "tool",
         NEW p \in DOMAIN s, s[p].by = "model", NEW q \in {p, p + 1}, SettledAt(api, s, p, q)
  PROVE  SettledAt(api, T, p, q)
  <1>1. s[p].calls \in Nat /\ T[p] = s[p] /\ p \in Nat /\ q \in Nat
    <2>1. p \in 1..Len(s) /\ s[p] \in Messages
      BY LenProperties, ElementOfSeq
    <2>2. s[p].calls \in Nat
      BY <2>1 DEF Messages, System, Users
    <2>3. QED
      BY <2>1, <2>2
  <1>2. End(api, T, p, q) = End(api, s, p, q) /\ End(api, s, p, q) \in Nat /\ End(api, s, p, q) <= Len(s)
    <2>1. End(api, T, p, q) = End(api, s, p, q)
      BY <1>1 DEF End
    <2>2. End(api, s, p, q) \in Nat
      BY <1>1 DEF End
    <2>3. End(api, s, p, q) <= Len(s)
      BY DEF SettledAt
    <2>4. QED
      BY <2>1, <2>2, <2>3
  <1>3. InOrder(api, T, q, T[p].turn, T[p].calls)
    <2>1. CASE api = "openai" /\ \A i \in 1..s[p].calls : s[q + i] = Result(s[p].turn, <<i>>)
      <3>1. \A i \in 1..s[p].calls : q + i \in 1..Len(s)
        BY <1>1, <1>2, <2>1 DEF End
      <3>2. QED
        BY <1>1, <2>1, <3>1 DEF InOrder
    <2>2. CASE /\ api = "anthropic"
               /\ s[p].calls > 0 => s[q + 1] = Result(s[p].turn, [i \in 1..s[p].calls |-> i])
      <3>1. s[p].calls > 0 => q + 1 \in 1..Len(s)
        BY <1>1, <1>2, <2>2 DEF End
      <3>2. QED
        BY <1>1, <2>2, <3>1 DEF InOrder
    <2>3. QED
      BY <2>1, <2>2 DEF SettledAt, InOrder
  <1>4. End(api, T, p, q) < Len(T) => T[End(api, T, p, q) + 1].by # "tool"
    <2>1. CASE End(api, s, p, q) < Len(s)
      BY <1>2, <2>1 DEF SettledAt
    <2>2. CASE End(api, s, p, q) = Len(s)
      BY <1>2, <2>2
    <2>3. QED
      BY <1>2, <2>1, <2>2
  <1>5. q = p + 1 => q <= Len(T) /\ T[q] = User("budget")
    BY <1>1 DEF SettledAt
  <1>6. QED
    BY <1>2, <1>3, <1>4, <1>5 DEF SettledAt

\* T is what came before a reply, the reply, a notice up to q if there is one,
\* and the results of the calls in their order.
Sent(api, before, turn, calls, back, T, k, q) ==
  /\ api \in {"openai", "anthropic"} /\ turn \in Nat
  /\ before \in Seq(Messages) /\ Settled(api, before)
  /\ calls \in Seq(Nat) /\ \A i \in DOMAIN calls : calls[i] = i
  /\ back \in Seq(Messages)
  /\ api = "openai" => back = OpenAIResults(turn, calls)
  /\ api = "anthropic" => back = AnthropicResults(turn, calls)
  /\ k \in Nat /\ k = Len(before) + 1 /\ q \in {k, k + 1}
  /\ T \in Seq(Messages) /\ Len(T) = q + Len(back)
  /\ \A i \in 1..Len(before) : T[i] = before[i]
  /\ T[k] = Model(turn, Len(calls)) /\ (q = k + 1 => T[q] = User("budget"))
  /\ \A i \in 1..Len(back) : T[q + i] = back[i]

\* What Send appends to a reply settles it, whether it comes with a notice or
\* without.
LEMMA TurnSettles ==
  ASSUME NEW api, NEW before, NEW turn, NEW calls, NEW back, NEW T, NEW k, NEW q,
         Sent(api, before, turn, calls, back, T, k, q)
  PROVE  Settled(api, T)
  <1> USE DEF Sent
  <1>0. /\ Len(before) \in Nat /\ DOMAIN before = 1..Len(before)
        /\ Len(back) \in Nat /\ DOMAIN back = 1..Len(back)
        /\ Len(T) \in Nat /\ DOMAIN T = 1..Len(T)
        /\ Len(calls) \in Nat /\ DOMAIN calls = 1..Len(calls)
    BY LenProperties
  <1>1. q \in Nat /\ k <= q /\ q <= Len(T) /\ k \in DOMAIN T
    <2>1. k \in Nat /\ q \in {k, k + 1} /\ Len(T) = q + Len(back) /\ k = Len(before) + 1
      OBVIOUS
    <2>2. QED
      BY ONLY <1>0, <2>1
  <1>2. \A i \in DOMAIN back : back[i].by = "tool"
    BY DEF OpenAIResults, AnthropicResults, Result
  <1>3. SettledAt(api, T, k, q)
    <2>1. T[k].turn = turn /\ T[k].calls = Len(calls)
      BY DEF Model
    <2>2. CASE api = "openai"
      <3>1. Len(back) = Len(calls) /\ \A i \in 1..Len(calls) : back[i] = Result(turn, <<i>>)
        BY <2>2 DEF OpenAIResults
      <3>2. InOrder(api, T, q, turn, Len(calls))
        BY <2>2, <3>1 DEF InOrder
      <3>3. End(api, T, k, q) = Len(T)
        BY <1>1, <2>1, <2>2, <3>1 DEF End
      <3>4. QED
        BY <1>1, <2>1, <3>2, <3>3 DEF SettledAt
    <2>3. CASE api = "anthropic" /\ calls = <<>>
      <3>1. back = <<>> /\ Len(calls) = 0
        BY <2>3 DEF AnthropicResults
      <3>2. InOrder(api, T, q, turn, Len(calls))
        BY <2>3, <3>1 DEF InOrder
      <3>3. End(api, T, k, q) = Len(T)
        BY <1>1, <2>1, <2>3, <3>1 DEF End
      <3>4. QED
        BY <1>1, <2>1, <3>2, <3>3 DEF SettledAt
    <2>4. CASE api = "anthropic" /\ calls # <<>>
      <3>1. back = <<Result(turn, calls)>> /\ Len(calls) > 0
        BY <2>4 DEF AnthropicResults
      <3>2. calls = [i \in 1..Len(calls) |-> i]
        OBVIOUS
      <3>3. T[q + 1] = Result(turn, [i \in 1..Len(calls) |-> i])
        <4>1. Len(back) = 1 /\ back[1] = Result(turn, calls)
          BY <3>1
        <4>2. T[q + 1] = back[1]
          BY <4>1
        <4>3. QED
          BY <3>2, <4>1, <4>2
      <3>4. InOrder(api, T, q, turn, Len(calls))
        BY <2>4, <3>3 DEF InOrder
      <3>5. End(api, T, k, q) = Len(T)
        <4>1. Len(back) = 1
          BY <3>1
        <4>2. T[k].calls # 0 /\ api # "openai"
          BY <2>1, <2>4, <3>1
        <4>3. End(api, T, k, q) = q + 1
          BY <4>2 DEF End
        <4>4. QED
          BY <4>1, <4>3
      <3>6. QED
        BY <1>1, <2>1, <3>4, <3>5 DEF SettledAt
    <2>5. QED
      BY <2>2, <2>3, <2>4
  <1>4. ASSUME NEW p \in DOMAIN T, T[p].by = "model"
        PROVE  \E r \in {p, p + 1} : SettledAt(api, T, p, r)
    <2>1. CASE p < k
      <3>1. p \in DOMAIN before /\ before[p].by = "model"
        BY <1>0, <1>4, <2>1
      <3>2. PICK r \in {p, p + 1} : SettledAt(api, before, p, r)
        BY <3>1 DEF Settled
      <3>3. T[k].by # "tool"
        BY DEF Model
      <3>4. QED
        <4>1. Len(before) <= Len(T) /\ (Len(before) < Len(T) => T[Len(before) + 1].by # "tool")
          BY <1>0, <1>1, <3>3
        <4>2. SettledAt(api, before, p, r) /\ p \in DOMAIN before /\ before[p].by = "model"
          BY <3>1, <3>2
        <4>3. SettledAt(api, T, p, r)
          BY <4>1, <4>2, SettledGoesOn
        <4>4. QED
          BY <4>3
    <2>2. CASE p = k
      BY <1>1, <1>3, <2>2
    <2>3. CASE p > k
      <3>1. p <= q => T[p].by = "user"
        BY <1>1, <1>4, <2>3 DEF User
      <3>2. p > q => T[p].by = "tool"
        <4>1. SUFFICES ASSUME p > q PROVE T[p].by = "tool"
          OBVIOUS
        <4>2. p - q \in 1..Len(back) /\ q + (p - q) = p
          BY <1>0, <1>1, <1>4, <4>1
        <4>3. T[q + (p - q)] = back[p - q]
          BY <4>2
        <4>4. back[p - q].by = "tool"
          BY <1>0, <1>2, <4>2
        <4>5. QED
          BY <4>2, <4>3, <4>4
      <3>3. QED
        BY <1>1, <1>4, <2>3, <3>1, <3>2
    <2>4. QED
      BY <1>1, <1>4, <2>1, <2>2, <2>3
  <1>5. QED
    BY <1>4 DEF Settled

\* A question that a step does not touch stays as it is.
LEMMA InTurnElsewhere ==
  ASSUME UNCHANGED provider, NEW b \in Asks, InTurn(b), pc'[b] = pc[b], iter'[b] = iter[b],
         asked'[b] = asked[b], results'[b] = results[b], transcript'[b] = transcript[b]
  PROVE  InTurn(b)'
  BY DEF InTurn, Pending

\* A transcript that ends with a reply, of which the rest is settled.
LEMMA AppendPending ==
  ASSUME NEW s \in Seq(Messages), NEW m
  PROVE  /\ Append(s, m) # <<>> /\ Append(s, m)[Len(Append(s, m))] = m
         /\ SubSeq(Append(s, m), 1, Len(Append(s, m)) - 1) = s
  <1>1. Len(Append(s, m)) = Len(s) + 1 /\ Append(s, m)[Len(s) + 1] = m /\ Append(s, m) # <<>>
    OBVIOUS
  <1>2. SubSeq(Append(s, m), 1, Len(s)) = s
    OBVIOUS
  <1>3. QED
    BY <1>1, <1>2

\* Up to the first turn nothing is on the transcript.
LEMMA InTurnEntry ==
  ASSUME TypeOK, NEW a \in Asks, InTurn(a), Begin(a) \/ Lock(a) \/ Load(a)
  PROVE  InTurn(a)'
  <1>1. /\ pc[a] \in {"idle", "lock", "load"} /\ pc'[a] \in {"lock", "load", "plan", "failed"}
        /\ UNCHANGED <<iter, results, transcript>>
    BY DEF TypeOK, Begin, Lock, Load, Goto, Fail
  <1>2. iter[a] = 0 /\ transcript[a] = <<>> /\ results[a] = <<>>
    BY <1>1 DEF InTurn
  <1>3. QED
    BY <1>1, <1>2 DEF InTurn

\* Send opens a transcript, or settles the turn before.
LEMMA InTurnSend ==
  ASSUME TypeOK, TypeOK', NEW a \in Asks, InTurn(a), Send(a)
  PROVE  InTurn(a)'
  <1> DEFINE T == transcript[a]
             back == ResultsOf(a)
  <1>1. /\ pc[a] = "plan" /\ pc'[a] = "model" /\ UNCHANGED provider
        /\ transcript'[a] = T \o Opening(a) \o Text(a) \o back
    BY DEF TypeOK, Send, Goto
  <1>2. /\ T \in Seq(Messages) /\ transcript'[a] \in Seq(Messages) /\ iter[a] \in Nat
        /\ results[a] \in Seq(Nat) /\ provider \in {"openai", "anthropic"}
    BY DEF TypeOK
  <1>3. SUFFICES Settled(provider, transcript'[a])
    BY <1>1 DEF InTurn
  <1>4. CASE iter[a] = 0
    <2>1. T = <<>> /\ results[a] = <<>>
      BY <1>1, <1>4 DEF InTurn
    <2>2. back = <<>>
      BY <2>1 DEF ResultsOf, OpenAIResults, AnthropicResults
    <2>3. Opening(a) = <<>> \/ Opening(a) = <<System>>
      BY DEF Opening
    <2>4. PICK x \in {"budget", "question"} : Text(a) = <<User(x)>>
      BY <1>4 DEF Text
    <2>5. \A p \in DOMAIN transcript'[a] : transcript'[a][p] \in {System, User(x)}
      <3>1. CASE Opening(a) = <<>>
        BY <1>1, <2>1, <2>2, <2>4, <3>1
      <3>2. CASE Opening(a) = <<System>>
        BY <1>1, <2>1, <2>2, <2>4, <3>2
      <3>3. QED
        BY <2>3, <3>1, <3>2
    <2>6. \A p \in DOMAIN transcript'[a] : transcript'[a][p].by # "model"
      BY <2>5 DEF System, User
    <2>7. QED
      BY <2>6 DEF Settled
  <1>5. CASE iter[a] # 0
    <2> DEFINE k == Len(T)
               q == k + Len(Text(a))
               before == SubSeq(T, 1, k - 1)
    <2>1. /\ T # <<>> /\ T[k] = Model(iter[a] - 1, Len(results[a])) /\ Settled(provider, before)
          /\ \A p \in DOMAIN results[a] : results[a][p] = p
      BY <1>1, <1>5 DEF InTurn, Pending
    <2>2. k \in Nat \ {0} /\ iter[a] - 1 \in Nat
      BY <1>2, <1>5, <2>1
    <2>3. /\ before \in Seq(Messages) /\ k = Len(before) + 1
          /\ \A i \in 1..Len(before) : before[i] = T[i]
      BY <1>2, <2>2, SubSeqProperties
    <2>4. Opening(a) = <<>> /\ (Text(a) = <<>> \/ Text(a) = <<User("budget")>>)
      BY <1>5 DEF Opening, Text
    <2>5. back \in Seq(Messages)
      <3>1. \A p \in DOMAIN results[a] : <<results[a][p]>> \in Seq(Nat)
        BY <1>2
      <3>2. \A c \in Seq(Nat) : Result(iter[a] - 1, c) \in Messages
        BY <2>2 DEF Result, Messages
      <3>3. OpenAIResults(iter[a] - 1, results[a]) \in Seq(Messages)
        <4>1. DOMAIN results[a] = 1..Len(results[a]) /\ Len(results[a]) \in Nat
          BY <1>2
        <4>2. \A p \in 1..Len(results[a]) : Result(iter[a] - 1, <<results[a][p]>>) \in Messages
          BY <3>1, <3>2, <4>1
        <4>3. [p \in 1..Len(results[a]) |-> Result(iter[a] - 1, <<results[a][p]>>)] \in Seq(Messages)
          BY <4>1, <4>2
        <4>4. QED
          BY <4>1, <4>3 DEF OpenAIResults
      <3>4. AnthropicResults(iter[a] - 1, results[a]) \in Seq(Messages)
        BY <1>2, <3>2 DEF AnthropicResults
      <3>5. QED
        BY <3>3, <3>4 DEF ResultsOf
    <2>6. /\ Len(transcript'[a]) = q + Len(back) /\ q \in {k, k + 1}
          /\ \A i \in 1..k : transcript'[a][i] = T[i]
          /\ q = k + 1 => transcript'[a][q] = User("budget")
          /\ \A i \in 1..Len(back) : transcript'[a][q + i] = back[i]
      <3> HIDE DEF back, T
      <3>1. CASE Text(a) = <<>>
        BY <1>1, <1>2, <2>2, <2>4, <2>5, <3>1
      <3>2. CASE Text(a) = <<User("budget")>>
        BY <1>1, <1>2, <2>2, <2>4, <2>5, <3>2
      <3>3. QED
        BY <2>4, <3>1, <3>2
    <2>7. back = IF provider = "openai" THEN OpenAIResults(iter[a] - 1, results[a])
                                        ELSE AnthropicResults(iter[a] - 1, results[a])
      BY DEF ResultsOf
    <2>8. \A i \in 1..Len(before) : transcript'[a][i] = before[i]
      BY <2>2, <2>3, <2>6
    <2>9. transcript'[a][k] = Model(iter[a] - 1, Len(results[a]))
      BY <2>1, <2>2, <2>6
    <2> DEFINE turn == iter[a] - 1
               calls == results[a]
               new == transcript'[a]
    <2>10. Sent(provider, before, turn, calls, back, new, k, q)
      <3> HIDE DEF back, q, before, k
      <3>1. /\ provider = "openai" => back = OpenAIResults(turn, calls)
            /\ provider = "anthropic" => back = AnthropicResults(turn, calls)
        BY <2>7
      <3>2. QED
        BY <1>2, <2>1, <2>2, <2>3, <2>5, <2>6, <2>8, <2>9, <3>1 DEF Sent
    <2> HIDE DEF back, q, before, k, turn, calls, new
    <2>11. Settled(provider, new)
      BY <2>10, TurnSettles
    <2>12. QED
      BY <2>11 DEF new
  <1>6. QED
    BY <1>4, <1>5

\* A reply that asks for tools is yet to be settled; any other ends the question.
LEMMA InTurnReply ==
  ASSUME TypeOK, NEW a \in Asks, InTurn(a), Reply(a)
  PROVE  InTurn(a)'
  <1>1. pc[a] = "model" /\ UNCHANGED <<provider, iter>>
    BY DEF Reply
  <1>2. CASE Deny(a) \/ Answer(a)
    <2>1. pc'[a] \in {"answered", "failed"}
      BY <1>2 DEF TypeOK, Deny, Answer, Goto, Fail
    <2>2. QED
      BY <2>1 DEF InTurn
  <1>3. CASE UseTools(a)
    <2>1. PICK calls \in Replies :
            /\ asked'[a] = calls /\ results'[a] = [p \in DOMAIN calls |-> 0]
            /\ transcript'[a] = Append(transcript[a], Model(iter[a], Len(calls)))
      BY <1>3 DEF TypeOK, UseTools
    <2>2. pc'[a] = "tools"
      BY <1>3 DEF TypeOK, UseTools, Goto
    <2>3. calls \in Seq(Tools) /\ transcript[a] \in Seq(Messages)
      BY RepliesFacts DEF TypeOK
    <2>4. Len(results'[a]) = Len(calls) /\ \A p \in DOMAIN results'[a] : results'[a][p] = 0
      BY <2>1, <2>3
    <2>5. Settled(provider, transcript[a])
      BY <1>1 DEF InTurn
    <2>6. Pending(a)'
      <3>1. /\ transcript'[a] # <<>>
            /\ transcript'[a][Len(transcript'[a])] = Model(iter[a], Len(calls))
            /\ SubSeq(transcript'[a], 1, Len(transcript'[a]) - 1) = transcript[a]
        BY <2>1, <2>3, AppendPending
      <3>2. QED
        BY <1>1, <2>2, <2>4, <2>5, <3>1 DEF Pending
    <2>7. QED
      BY <2>1, <2>2, <2>4, <2>6 DEF InTurn
  <1>4. QED
    BY <1>2, <1>3 DEF Reply

\* A goroutine of runTools fills its own place.
LEMMA InTurnRunTool ==
  ASSUME TypeOK, NEW a \in Asks, InTurn(a), NEW i \in DOMAIN asked[a], RunTool(a, i)
  PROVE  InTurn(a)'
  <1>1. /\ pc[a] = "tools" /\ UNCHANGED <<provider, pc, iter, asked, transcript>>
        /\ results' = [results EXCEPT ![a][i] = i]
    BY DEF RunTool, Place
  <1>2. /\ Pending(a) /\ Len(results[a]) = Len(asked[a]) /\ results[a] \in Seq(Nat)
        /\ \A p \in DOMAIN results[a] : results[a][p] \in {0, p}
    BY <1>1 DEF InTurn, TypeOK
  <1>3. results'[a] = [results[a] EXCEPT ![i] = i]
    BY <1>1 DEF TypeOK
  <1>4. /\ Len(results'[a]) = Len(results[a])
        /\ \A p \in DOMAIN results'[a] : results'[a][p] \in {0, p}
    BY <1>2, <1>3
  <1>5. Pending(a)'
    BY <1>1, <1>2, <1>4 DEF Pending
  <1>6. QED
    BY <1>1, <1>2, <1>4, <1>5 DEF InTurn

\* The turn is over when every place is filled.
LEMMA InTurnJoin ==
  ASSUME TypeOK, NEW a \in Asks, InTurn(a), Join(a)
  PROVE  InTurn(a)'
  <1>1. /\ pc[a] = "tools" /\ pc'[a] = "plan" /\ UNCHANGED <<provider, asked, results, transcript>>
        /\ iter'[a] = iter[a] + 1 /\ iter[a] \in Nat
        /\ \A p \in DOMAIN results[a] : results[a][p] # 0
    BY BoundsAssumption DEF Join, Goto, TypeOK
  <1>2. /\ Pending(a) /\ \A p \in DOMAIN results[a] : results[a][p] \in {0, p}
    BY <1>1 DEF InTurn
  <1>3. \A p \in DOMAIN results[a] : results[a][p] = p
    BY <1>1, <1>2
  <1>4. iter'[a] # 0 /\ iter'[a] - 1 = iter[a]
    BY <1>1
  <1>5. Pending(a)'
    BY <1>1, <1>2, <1>4 DEF Pending
  <1>6. QED
    BY <1>1, <1>3, <1>4, <1>5 DEF InTurn

\* Every step of a question keeps its own order, and does not touch another's.
LEMMA OrderedStep == TypeOK /\ TypeOK' /\ Ordered /\ [Next]_vars => Ordered'
  <1> SUFFICES ASSUME TypeOK, TypeOK', Ordered, [Next]_vars PROVE Ordered'
    OBVIOUS
  <1>1. ASSUME NEW a \in Asks,
               Begin(a) \/ Progress(a)
        PROVE  Ordered'
    <2>1. InTurn(a)'
      BY <1>1, InTurnEntry, InTurnSend, InTurnReply, InTurnRunTool, InTurnJoin
         DEF Ordered, Progress
    <2>2. ASSUME NEW b \in Asks \ {a} PROVE InTurn(b)'
      <3>1. /\ UNCHANGED provider /\ pc'[b] = pc[b] /\ iter'[b] = iter[b]
            /\ asked'[b] = asked[b] /\ results'[b] = results[b] /\ transcript'[b] = transcript[b]
        <4>1. CASE Begin(a) \/ Lock(a) \/ Load(a) \/ Send(a)
          BY <4>1, <2>2 DEF Begin, Lock, Load, Send, Goto, Fail, TypeOK
        <4>2. CASE Reply(a)
          <5>1. CASE Deny(a) \/ Answer(a)
            BY <4>2, <5>1, <2>2 DEF Reply, Deny, Answer, Goto, Fail, TypeOK
          <5>2. CASE UseTools(a)
            BY <4>2, <5>2, <2>2 DEF Reply, UseTools, Goto, TypeOK
          <5>3. QED
            BY <4>2, <5>1, <5>2 DEF Reply
        <4>3. CASE (\E p \in DOMAIN asked[a] : RunTool(a, p)) \/ Join(a)
          BY <4>3, <2>2 DEF RunTool, Join, Goto, TypeOK
        <4>4. QED
          BY <1>1, <4>1, <4>2, <4>3 DEF Progress
      <3>2. QED
        BY <3>1, InTurnElsewhere DEF Ordered
    <2>3. QED
      BY <2>1, <2>2 DEF Ordered
  <1>2. CASE UNCHANGED <<provider, askVars>>
    <2>1. ASSUME NEW b \in Asks PROVE InTurn(b)'
      BY <1>2, InTurnElsewhere DEF Ordered, askVars
    <2>2. QED
      BY <2>1 DEF Ordered
  <1>3. QED
    BY <1>1, <1>2 DEF Next, Expire, Stopped, vars

\* Hence every question keeps its order.
LEMMA OrderedAlways == Spec => []Ordered
  <1>1. Init => Ordered
    BY DEF Init, Ordered, InTurn
  <1>2. QED
    BY <1>1, PlannerTyped, OrderedStep, PTL DEF Spec

\* The results of a turn follow the calls that they answer, one for each and
\* in their order, however the goroutines of the turn finished.
THEOREM AnswersComeInOrder == Spec => []AnswersInOrder
  <1>1. Ordered => AnswersInOrder
    BY DEF Ordered, InTurn, AnswersInOrder
  <1>2. QED
    BY <1>1, OrderedAlways, PTL

(***************************************************************************)
(* Nobody is stuck.                                                        *)
(***************************************************************************)

\* The lock is somebody's only while that question reads the catalog.
LockIsReaders == catalogMu # Nobody => catalogMu \in Asks /\ pc[catalogMu] = "load"

\* Every step keeps it so: reading ends with the lock given back, whether or not
\* it failed.
LEMMA LockIsReadersStep ==
  TypeOK /\ Reading /\ LockIsReaders /\ [Next]_vars => LockIsReaders'
  <1> SUFFICES ASSUME TypeOK, Reading, LockIsReaders, [Next]_vars, catalogMu' # Nobody
               PROVE  catalogMu' \in Asks /\ pc'[catalogMu'] = "load"
    BY DEF LockIsReaders
  <1>1. ASSUME NEW a \in Asks, Lock(a) PROVE catalogMu' \in Asks /\ pc'[catalogMu'] = "load"
    BY <1>1 DEF TypeOK, Lock, Goto
  <1>2. ASSUME NEW a \in Asks, Load(a) PROVE FALSE
    BY <1>2 DEF Load, Unlock
  <1>3. ASSUME NEW a \in Asks, Begin(a) \/ Send(a) \/ Reply(a) \/ Join(a)
        PROVE  catalogMu' \in Asks /\ pc'[catalogMu'] = "load"
    <2>1. pc[a] # "load" /\ UNCHANGED catalogMu
      BY <1>3 DEF Begin, Send, Reply, Join
    <2>2. catalogMu # a
      BY <2>1 DEF LockIsReaders
    <2>3. \A b \in Asks \ {a} : pc'[b] = pc[b]
      BY <1>3 DEF TypeOK, Begin, Send, Reply, Deny, Answer, UseTools, Join, Goto, Fail
    <2>4. QED
      BY <2>1, <2>2, <2>3 DEF LockIsReaders
  <1>4. CASE \/ \E a \in Asks : Expire(a) \/ \E i \in DOMAIN asked[a] : RunTool(a, i)
             \/ UNCHANGED vars
    BY <1>4 DEF Expire, RunTool, vars, askVars, LockIsReaders
  <1>5. QED
    BY <1>1, <1>2, <1>3, <1>4 DEF Next, Progress, Stopped

\* No question is stuck, however many there are: whoever waits for the lock waits
\* for a reader, and an empty place of runTools has a tool that still runs.
THEOREM AsksNeverStuck == Spec => []NeverStuck
  <1>1. TypeOK /\ LockIsReaders /\ Ordered => NeverStuck
    <2> SUFFICES ASSUME TypeOK, LockIsReaders, Ordered, NEW a \in Asks, pc[a] = "tools",
                        NEW p \in DOMAIN results[a], results[a][p] = 0
                 PROVE  p \in DOMAIN asked[a] /\ \A q \in DOMAIN results[a] : results[a][q] # p
      BY DEF NeverStuck, LockIsReaders
    <2>1. results[a] \in Seq(Nat) /\ asked[a] \in Seq(Tools)
      BY DEF TypeOK
    <2>2. Len(results[a]) = Len(asked[a]) /\ \A q \in DOMAIN results[a] : results[a][q] \in {0, q}
      BY DEF Ordered, InTurn
    <2>3. p \in DOMAIN asked[a] /\ p # 0
      BY <2>1, <2>2
    <2>4. ASSUME NEW q \in DOMAIN results[a], results[a][q] = p PROVE FALSE
      BY <2>2, <2>3, <2>4
    <2>5. QED
      BY <2>3, <2>4
  <1>2. Init => LockIsReaders
    BY DEF Init, LockIsReaders
  <1>3. Spec => []LockIsReaders
    BY <1>2, ReadingAlways, PlannerTyped, LockIsReadersStep, PTL DEF Spec
  <1>4. QED
    BY <1>1, <1>3, PlannerTyped, OrderedAlways, PTL

=============================================================================
