-------------------------- MODULE Clearing_proofs --------------------------
(***************************************************************************)
(* Proofs about Clearing: the loop's invariants, and what they say of the  *)
(* printed estimate.                                                       *)
(***************************************************************************)
EXTENDS Clearing, SumTheorems

(***************************************************************************)
(* Arithmetic.                                                             *)
(***************************************************************************)

\* Multiplying by a natural number keeps the order.
LEMMA TimesMonotone ==
  ASSUME NEW a \in Nat, NEW b \in Nat, NEW c \in Nat, a <= b
  PROVE  a * c <= b * c /\ a * c \in Nat /\ b * c \in Nat
  OBVIOUS

\* A sum that lies between t and w times f, with s more at a price p that is
\* no less than either, lies between t and p times f + s.
LEMMA MoreAtAHigherPrice ==
  ASSUME NEW t \in Nat, NEW f \in Nat, NEW c \in Nat, NEW w \in Nat, NEW p \in Nat,
         NEW s \in Nat, t <= p, w <= p \/ f = 0, t * f <= c, c <= w * f
  PROVE  t * (f + s) <= c + p * s /\ c + p * s <= p * (f + s)
  <1>1. t * (f + s) = t * f + t * s /\ p * (f + s) = p * f + p * s
    OBVIOUS
  <1>2. t * s <= p * s /\ w * f <= p * f
    BY TimesMonotone
  <1>3. {t * f, t * s, p * f, p * s, w * f} \subseteq Nat
    OBVIOUS
  <1>4. QED
    BY <1>1, <1>2, <1>3

\* The same the other way round.
LEMMA MoreAtALowerPrice ==
  ASSUME NEW t \in Nat, NEW f \in Nat, NEW c \in Nat, NEW w \in Nat, NEW p \in Nat,
         NEW s \in Nat, t >= p, w >= p \/ f = 0, t * f >= c, c >= w * f
  PROVE  t * (f + s) >= c + p * s /\ c + p * s >= p * (f + s)
  <1>1. t * (f + s) = t * f + t * s /\ p * (f + s) = p * f + p * s
    OBVIOUS
  <1>2. t * s >= p * s /\ w * f >= p * f
    BY TimesMonotone
  <1>3. {t * f, t * s, p * f, p * s, w * f} \subseteq Nat
    OBVIOUS
  <1>4. QED
    BY <1>1, <1>2, <1>3

\* A quotient is no less than what fits, and less than what does not.
LEMMA Quotient ==
  ASSUME NEW a \in Nat, NEW b \in Nat \ {0}, NEW q \in Nat
  PROVE  /\ a \div b \in Nat
         /\ q * b <= a => q <= a \div b
         /\ a < (q + 1) * b => a \div b <= q
  OBVIOUS

\* Rounding a quotient to the nearest step keeps it on its side of a whole
\* number of units.
LEMMA RoundingFacts ==
  ASSUME NEW n \in Nat, NEW d \in Nat \ {0}, NEW t \in Nat
  PROVE  /\ ratString(n, d) \in Nat
         /\ ratString(t, 1) = t * Steps
         /\ t * d <= n => t * Steps <= ratString(n, d)
         /\ n <= t * d => ratString(n, d) <= t * Steps
  <1> DEFINE a == 2 * n * Steps + d
             b == 2 * d
             q == t * Steps
  <1>1. a \in Nat /\ b \in Nat \ {0} /\ q \in Nat
    BY StepsAssumption
  <1>2. ratString(n, d) = a \div b
    BY DEF ratString
  <1>3. ratString(t, 1) = q
    <2>1. ratString(t, 1) = (2 * t * Steps + 1) \div 2
      BY DEF ratString
    <2>2. 2 * t * Steps = 2 * q
      BY StepsAssumption
    <2>3. QED
      BY <1>1, <2>1, <2>2
  <1>4. ASSUME t * d <= n PROVE q * b <= a
    <2>1. q * b = 2 * ((t * d) * Steps)
      BY StepsAssumption
    <2>2. (t * d) * Steps <= n * Steps
      BY <1>4, TimesMonotone, StepsAssumption
    <2>3. a = 2 * (n * Steps) + d
      BY StepsAssumption
    <2>4. t * d \in Nat /\ n * Steps \in Nat /\ (t * d) * Steps \in Nat
      BY StepsAssumption
    <2>5. QED
      BY <2>1, <2>2, <2>3, <2>4
  <1>5. ASSUME n <= t * d PROVE a < (q + 1) * b
    <2>1. (q + 1) * b = 2 * ((t * d) * Steps) + 2 * d
      BY StepsAssumption
    <2>2. n * Steps <= (t * d) * Steps
      BY <1>5, TimesMonotone, StepsAssumption
    <2>3. a = 2 * (n * Steps) + d
      BY StepsAssumption
    <2>4. t * d \in Nat /\ n * Steps \in Nat /\ (t * d) * Steps \in Nat
      BY StepsAssumption
    <2>5. QED
      BY <2>1, <2>2, <2>3, <2>4
  <1>6. /\ a \div b \in Nat
        /\ q * b <= a => q <= a \div b
        /\ a < (q + 1) * b => a \div b <= q
    BY <1>1, Quotient
  <1>7. QED
    BY <1>2, <1>3, <1>4, <1>5, <1>6

\* What is printed of natural numbers is one.
LEMMA RoundingTyped ==
  \A n \in Nat, d \in Nat \ {0} : ratString(n, d) \in Nat
  BY RoundingFacts

-----------------------------------------------------------------------------
(***************************************************************************)
(* The loop's invariant.                                                   *)
(***************************************************************************)

\* There is nothing to walk at the start.
LEMMA WalkedInit == Init => Walked
  BY DEF Init, Walked, TypeOK, Ordered, Accounted, Bracketed, Estimates, NoEstimate, Levels

\* The crossed side is a sequence of levels, whichever it is.
LEMMA RawTyped == TypeOK => Raw \in Seq(PriceLevel)
  BY DEF TypeOK, Raw

\* There are finitely many liquid levels, and each has a price and a size.
LEMMA LiquidFacts ==
  ASSUME TypeOK
  PROVE  /\ Cardinality(Liquid) \in Nat
         /\ Liquid # {} => Cardinality(Liquid) # 0
         /\ \A p \in Liquid : Raw[p] \in Levels
  <1>1. Raw \in Seq(PriceLevel)
    BY RawTyped
  <1>2. IsFiniteSet(DOMAIN Raw)
    BY <1>1, FS_Interval
  <1>3. IsFiniteSet(Liquid)
    BY <1>2, FS_Subset DEF Liquid
  <1>4. Cardinality(Liquid) \in Nat /\ (Liquid # {} => Cardinality(Liquid) # 0)
    BY <1>3, FS_CardinalityType, FS_EmptySet
  <1>5. \A p \in Liquid : Raw[p] \in Levels
    <2> SUFFICES ASSUME NEW p \in Liquid PROVE Raw[p] \in Levels
      OBVIOUS
    <2>1. Raw[p] \in PriceLevel
      BY <1>1 DEF Liquid
    <2>2. Raw[p].price \in Nat \ {0} /\ Raw[p].size \in Nat \ {0}
      BY DEF Liquid, Positive
    <2>3. QED
      BY <2>1, <2>2 DEF PriceLevel, Levels
  <1>6. QED
    BY <1>4, <1>5

\* What the sort leaves is in the order of consumption.
LEMMA SortStep == Walked /\ Sort => Walked'
  <1> SUFFICES ASSUME Walked, Sort PROVE Walked'
    OBVIOUS
  <1>1. CASE Refuse
    BY <1>1 DEF Refuse, Walked, TypeOK, Ordered, Accounted, Bracketed, NoBetter, request, sums
  <1>2. CASE ~Refuse
    <2>1. /\ Positive(want) /\ Liquid # {}
          /\ remaining' = want /\ worst' = levels'[1].price /\ pc' = "walk"
          /\ UNCHANGED <<request, next, cost, filled, estimate>>
      BY <1>2 DEF Sort
    <2>2. PICK f \in Sorted : levels' = [i \in DOMAIN f |-> Raw[f[i]]]
      BY <1>2 DEF Sort
    <2>3. f \in [1..Cardinality(Liquid) -> Liquid] /\ Order(f)
      BY <2>2 DEF Sorted
    <2>4. levels' \in Seq(Levels) /\ levels' # <<>> /\ DOMAIN levels' = DOMAIN f
      BY <2>1, <2>2, <2>3, LiquidFacts DEF Walked
    <2>5. Ordered'
      BY <2>1, <2>2, <2>3, <2>4, LiquidFacts
         DEF Ordered, Order, NoBetter, Better, request, Walked, Levels
    <2>6. levels'[1] \in Levels /\ want \in Nat \ {0} /\ next = 1 /\ filled = 0 /\ cost = 0
      BY <2>1, <2>4 DEF Walked, Accounted, Sort, Positive
    <2>7. TypeOK'
      BY <2>1, <2>4, <2>6 DEF Walked, TypeOK, request, Levels
    <2>8. Accounted'
      BY <2>1, <2>4, <2>6 DEF Accounted, request, Positive
    <2>9. Bracketed'
      BY <2>1, <2>6 DEF Bracketed, NoBetter, Touch, Levels
    <2>10. QED
      BY <2>5, <2>7, <2>8, <2>9 DEF Walked
  <1>3. QED
    BY <1>1, <1>2

\* One round of the loop: a level is no better than the touch or the last one.
LEMMA WalkStep == Walked /\ Walk => Walked'
  <1> SUFFICES ASSUME Walked, Walk PROVE Walked'
    OBVIOUS
  <1> DEFINE P == Level.price
             T == Take
  <1>1. /\ next \in 1..Len(levels) /\ levels \in Seq(Levels) /\ side \in {"buy", "sell"}
        /\ remaining \in Nat \ {0} /\ cost \in Nat /\ filled \in Nat /\ worst \in Nat
        /\ pc = "walk" /\ pc' = "walk" /\ UNCHANGED <<side, want, book, levels, estimate>>
        /\ cost' = cost + P * T /\ filled' = filled + T /\ remaining' = remaining - T
        /\ worst' = P /\ next' = next + 1
    BY DEF Walked, TypeOK, Walk, More, request
  <1>2. Level \in Levels /\ levels[1] \in Levels
    BY <1>1 DEF Level
  <1>3. P \in Nat \ {0} /\ T \in Nat \ {0} /\ T <= remaining /\ Touch \in Nat \ {0}
    <2>1. P \in Nat \ {0} /\ Level.size \in Nat \ {0} /\ Touch \in Nat \ {0}
      BY <1>2 DEF Levels, Touch
    <2>2. T \in Nat \ {0} /\ T <= remaining
      BY <1>1, <2>1 DEF Take
    <2>3. QED
      BY <2>1, <2>2
  <1>4. P * T \in Nat
    BY <1>3
  <1>5. TypeOK'
    BY <1>1, <1>3, <1>4 DEF Walked, TypeOK
  <1>6. Ordered'
    BY <1>1 DEF Walked, Ordered, NoBetter
  <1>7. Accounted'
    BY <1>1, <1>3 DEF Walked, Accounted, Positive
  <1>8. NoBetter(Touch, P) /\ (NoBetter(worst, P) \/ filled = 0)
    <2>1. /\ worst = levels[IF next = 1 THEN 1 ELSE next - 1].price
          /\ next = 1 => filled = 0
      BY <1>1 DEF Walked, Bracketed, Accounted
    <2>2. CASE next = 1
      BY <1>3, <2>1, <2>2 DEF NoBetter, Touch, Level
    <2>3. CASE next # 1
      <3>1. 1 \in DOMAIN levels /\ next - 1 \in DOMAIN levels /\ next \in DOMAIN levels
        BY <1>1, <2>3
      <3>2. 1 < next /\ next - 1 < next
        BY <1>1, <2>3
      <3>3. QED
        BY <2>1, <2>3, <3>1, <3>2 DEF Walked, Ordered, Touch, Level
    <2>4. QED
      BY <2>2, <2>3
  <1>9. NoBetter(Touch * filled, cost) /\ NoBetter(cost, worst * filled)
    BY <1>1 DEF Walked, Bracketed
  <1>10. NoBetter(Touch * (filled + T), cost + P * T) /\ NoBetter(cost + P * T, P * (filled + T))
    <2> HIDE DEF P, T
    <2>1. CASE side = "buy"
      BY <1>1, <1>3, <1>8, <1>9, <2>1, MoreAtAHigherPrice DEF NoBetter
    <2>2. CASE side = "sell"
      BY <1>1, <1>3, <1>8, <1>9, <2>2, MoreAtALowerPrice DEF NoBetter
    <2>3. QED
      BY <1>1, <2>1, <2>2
  <1>11. Bracketed'
    <2>1. Touch' = Touch
      BY <1>1 DEF Touch
    <2>2. worst' = levels'[next' - 1].price /\ next' # 1
      BY <1>1 DEF Level
    <2>3. QED
      BY <1>1, <1>10, <2>1, <2>2 DEF Bracketed, NoBetter
  <1>12. QED
    BY <1>5, <1>6, <1>7, <1>11 DEF Walked

\* What is known once the loop is over, of the numbers that are printed.
LEMMA Printable ==
  ASSUME Walked, pc \in {"walk", "done"}, ~More
  PROVE  /\ filled \in Nat \ {0} /\ cost \in Nat /\ worst \in Nat
         /\ Touch \in Nat \ {0} /\ Excess \in Nat /\ Touch * filled \in Nat \ {0}
         /\ NoBetter(Touch * filled, cost) /\ NoBetter(cost, worst * filled)
  <1>1. /\ filled \in Nat /\ cost \in Nat /\ worst \in Nat /\ remaining \in Nat
        /\ next \in Nat \ {0} /\ levels \in Seq(Levels) /\ side \in {"buy", "sell"}
    BY DEF Walked, TypeOK
  <1>2. /\ want > 0 /\ levels # <<>> /\ filled + remaining = want
        /\ IF next = 1 THEN filled = 0 /\ cost = 0 ELSE filled > 0
        /\ NoBetter(Touch * filled, cost) /\ NoBetter(cost, worst * filled)
    BY DEF Walked, Accounted, Bracketed, Positive
  <1>3. filled # 0
    BY <1>1, <1>2 DEF More
  <1>4. Touch \in Nat \ {0}
    <2>1. levels[1] \in Levels
      BY <1>1, <1>2
    <2>2. QED
      BY <2>1 DEF Touch, Levels
  <1>5. Touch * filled \in Nat \ {0}
    BY <1>1, <1>3, <1>4
  <1>6. Excess \in Nat
    BY <1>1, <1>2, <1>5 DEF Excess, NoBetter
  <1>7. QED
    BY <1>1, <1>2, <1>3, <1>4, <1>5, <1>6

\* The estimate is printed from the sums, and they stay.
LEMMA FinishStep == Walked /\ Finish => Walked'
  <1> SUFFICES ASSUME Walked, Finish PROVE Walked'
    OBVIOUS
  <1>1. /\ pc = "walk" /\ pc' = "done" /\ ~More /\ estimate' = ClearingEstimate
        /\ UNCHANGED <<side, want, book, levels, next, remaining, cost, filled, worst>>
    BY DEF Finish, request, sums
  <1>2. ClearingEstimate \in Estimates
    <2>1. /\ filled \in Nat \ {0} /\ cost \in Nat /\ worst \in Nat /\ Excess \in Nat
          /\ Touch * filled \in Nat \ {0}
      BY <1>1, Printable
    <2> DEFINE e == Excess * 10000
    <2> e \in Nat
      BY <2>1
    <2>2. /\ ratString(filled, 1) \in Int /\ ratString(cost, filled) \in Int
          /\ ratString(worst, 1) \in Int
          /\ ratString(e, Touch * filled) \in Int
      <3> HIDE DEF e
      <3>1. QED
        BY <2>1, RoundingTyped
    <2>3. Full \in BOOLEAN
      BY DEF Full
    <2>4. QED
      BY <2>2, <2>3 DEF ClearingEstimate, Estimates
  <1>3. TypeOK'
    BY <1>1, <1>2 DEF Walked, TypeOK
  <1>4. ClearingEstimate' = ClearingEstimate /\ More' = More /\ Touch' = Touch
    BY <1>1 DEF ClearingEstimate, More, Touch, Excess, Full, ratString
  <1>5. Accounted'
    BY <1>1, <1>4, Printable DEF Walked, Accounted, Positive
  <1>6. Ordered' /\ Bracketed'
    BY <1>1, <1>4 DEF Walked, Ordered, Bracketed, NoBetter
  <1>7. QED
    BY <1>3, <1>5, <1>6 DEF Walked

\* Every step preserves the invariant.
LEMMA WalkedStep == Walked /\ [Next]_vars => Walked'
  <1> SUFFICES ASSUME Walked, [Next]_vars PROVE Walked'
    OBVIOUS
  <1>1. CASE Read
    BY <1>1, BooksAssumption DEF Read, Refuse, Walked, TypeOK, Ordered, Accounted, Bracketed,
       NoBetter, request, sums
  <1>2. CASE UNCHANGED vars
    <2>1. ClearingEstimate' = ClearingEstimate /\ More' = More /\ Touch' = Touch
      BY <1>2 DEF vars, request, sums, ClearingEstimate, More, Touch, Excess, Full, ratString
    <2>2. QED
      BY <1>2, <2>1 DEF vars, request, sums, Walked, TypeOK, Ordered, Accounted, Bracketed,
         NoBetter
  <1>3. QED
    BY <1>1, <1>2, SortStep, WalkStep, FinishStep DEF Next, Over

\* Nothing is sorted, and nothing taken, at the start.
LEMMA ExhaustedInit == Init => Exhausted
  BY WalkedInit DEF Init, Exhausted, Enumerated, Consumed

\* The levels, and what the first of them sum to.
LEMMA PrefixFacts ==
  ASSUME TypeOK
  PROVE  /\ Len(levels) \in Nat /\ SizeTo(0) = 0 /\ CostTo(0) = 0
         /\ \A n \in 0..Len(levels) : SizeTo(n) \in Nat /\ CostTo(n) \in Nat
         /\ \A n \in 0..Len(levels) : SizeTo(n) <= SizeTo(Len(levels))
         /\ \A n \in 1..Len(levels) :
              /\ SizeTo(n) = SizeTo(n - 1) + levels[n].size
              /\ CostTo(n) = CostTo(n - 1) + levels[n].price * levels[n].size
  <1> DEFINE N == Len(levels)
             sizes == [i \in DOMAIN levels |-> levels[i].size]
             costs == [i \in DOMAIN levels |-> levels[i].price * levels[i].size]
  <1>1. N \in Nat /\ DOMAIN levels = 1..N /\ \A i \in 1..N : levels[i] \in Levels
    BY DEF TypeOK
  <1>2. \A i \in 1..N : levels[i].price \in Nat /\ levels[i].size \in Nat
    BY <1>1 DEF Levels
  <1>3. \A i \in 1..N : sizes[i] \in Nat /\ sizes[i] = levels[i].size
    BY <1>1, <1>2
  <1>4. \A i \in 1..N : costs[i] \in Nat /\ costs[i] = levels[i].price * levels[i].size
    <2>1. \A a, b \in Nat : a * b \in Nat
      OBVIOUS
    <2>2. QED
      BY <1>1, <1>2, <2>1
  <1>5. \A n : SizeTo(n) = SumFunctionOnSet(sizes, 1..n) /\ CostTo(n) = SumFunctionOnSet(costs, 1..n)
    BY DEF SizeTo, CostTo
  <1> HIDE DEF N, sizes, costs
  <1>6. /\ SizeTo(0) = 0 /\ \A n \in 0..N : SizeTo(n) \in Nat /\ SizeTo(n) <= SizeTo(N)
        /\ \A n \in 1..N : SizeTo(n) = SizeTo(n - 1) + sizes[n]
    BY <1>1, <1>3, <1>5, SumPrefix
  <1>7. /\ CostTo(0) = 0 /\ \A n \in 0..N : CostTo(n) \in Nat
        /\ \A n \in 1..N : CostTo(n) = CostTo(n - 1) + costs[n]
    BY <1>1, <1>4, <1>5, SumPrefix
  <1>8. QED
    BY <1>1, <1>3, <1>4, <1>6, <1>7 DEF N

\* One round of the loop takes a level whole, or what is left to take.
LEMMA ConsumedByWalk ==
  ASSUME Walked, Consumed, Walk
  PROVE  Consumed'
  <1> DEFINE P == Level.price
             T == Take
  <1>1. /\ next \in 1..Len(levels) /\ remaining \in Nat \ {0} /\ filled \in Nat /\ cost \in Nat
        /\ pc = "walk" /\ UNCHANGED levels
        /\ cost' = cost + P * T /\ filled' = filled + T /\ remaining' = remaining - T
        /\ next' = next + 1
    BY DEF Walked, TypeOK, Walk, More, request
  <1>2. /\ P \in Nat /\ Level.size \in Nat \ {0} /\ T \in Nat \ {0} /\ T <= Level.size
        /\ T = Level.size \/ T = remaining
    <2>1. Level \in Levels
      BY <1>1 DEF Walked, TypeOK, Level
    <2>2. QED
      BY <1>1, <2>1 DEF Take, Levels
  <1>3. \A n \in 0..Len(levels) : SizeTo(n) \in Nat /\ CostTo(n) \in Nat
    BY PrefixFacts DEF Walked
  <1>4. filled = SizeTo(next - 1) /\ cost = CostTo(next - 1)
    <2>1. CASE next = 1
      BY <1>1, <2>1, PrefixFacts DEF Walked, Accounted
    <2>2. CASE next # 1
      <3> DEFINE last == next - 1
      <3>1. last \in 1..Len(levels) /\ last - 1 \in 0..Len(levels)
        BY <1>1, <2>2
      <3>2. /\ filled = SizeTo(last)
            /\ cost = CostTo(last - 1) + levels[last].price * (filled - SizeTo(last - 1))
        BY <1>1, <2>2 DEF Consumed
      <3>3. /\ SizeTo(last) = SizeTo(last - 1) + levels[last].size
            /\ CostTo(last) = CostTo(last - 1) + levels[last].price * levels[last].size
        BY <3>1, PrefixFacts DEF Walked
      <3>4. levels[last].size \in Nat
        <4>1. levels[last] \in Levels
          BY <3>1 DEF Walked, TypeOK
        <4>2. QED
          BY <4>1 DEF Levels
      <3>5. filled - SizeTo(last - 1) = levels[last].size
        BY <1>3, <3>1, <3>2, <3>3, <3>4
      <3>6. QED
        BY <3>2, <3>3, <3>5
    <2>3. QED
      BY <2>1, <2>2
  <1>5. /\ SizeTo(next) = SizeTo(next - 1) + Level.size
        /\ CostTo(next) = CostTo(next - 1) + P * Level.size
    BY <1>1, PrefixFacts DEF Walked, Level
  <1>6. \A n : SizeTo(n)' = SizeTo(n) /\ CostTo(n)' = CostTo(n)
    BY <1>1 DEF SizeTo, CostTo
  <1>7. SizeTo(next - 1) \in Nat /\ SizeTo(next) \in Nat
    BY <1>1, <1>3
  <1> HIDE DEF P, T
  <1>8. /\ SizeTo(next - 1) < filled' /\ filled' <= SizeTo(next)
        /\ remaining' > 0 => filled' = SizeTo(next)
        /\ T = filled' - SizeTo(next - 1)
    <2>1. filled' = SizeTo(next - 1) + T /\ remaining' = remaining - T
      BY <1>1, <1>4
    <2>2. T \in Nat \ {0} /\ T <= Level.size /\ Level.size \in Nat /\ remaining \in Nat
      BY <1>1, <1>2
    <2>3. remaining' > 0 => T = Level.size
      BY <1>2, <2>1, <2>2
    <2>4. QED
      BY <1>5, <1>7, <2>1, <2>2, <2>3
  <1>9. cost' = CostTo(next - 1) + P * (filled' - SizeTo(next - 1))
    BY <1>1, <1>4, <1>8
  <1>10. next' - 1 = next /\ levels'[next].price = P
    BY <1>1 DEF Level, P
  <1>11. QED
    BY <1>6, <1>8, <1>9, <1>10 DEF Consumed

\* Every step keeps to it.
LEMMA ExhaustedStep == Exhausted /\ [Next]_vars => Exhausted'
  <1> SUFFICES ASSUME Exhausted, [Next]_vars PROVE Exhausted'
    OBVIOUS
  <1>1. Walked'
    BY WalkedStep DEF Exhausted
  <1>2. CASE pc' \notin {"walk", "done"}
    BY <1>1, <1>2 DEF Exhausted, Enumerated, Consumed
  <1>3. CASE Sort /\ ~Refuse
    <2>1. next = 1 /\ UNCHANGED <<side, want, book, next>>
      BY <1>3 DEF Exhausted, Walked, Accounted, Sort, request
    <2>2. Raw' = Raw /\ Sorted' = Sorted
      BY <2>1 DEF Raw, Sorted, Liquid, Order, Better
    <2>3. Enumerated'
      BY <1>3, <2>2 DEF Sort, Enumerated
    <2>4. QED
      BY <1>1, <2>1, <2>3 DEF Exhausted, Consumed
  <1>4. ASSUME UNCHANGED <<side, book, levels>>, pc \in {"walk", "done"}
        PROVE  Enumerated'
    <2>1. Raw' = Raw /\ Sorted' = Sorted
      BY <1>4 DEF Raw, Sorted, Liquid, Order, Better
    <2>2. QED
      BY <1>4, <2>1 DEF Exhausted, Enumerated
  <1>5. CASE Walk
    BY <1>1, <1>4, <1>5, ConsumedByWalk DEF Exhausted, Walk, request
  <1>6. CASE (Finish \/ UNCHANGED vars) /\ pc' \in {"walk", "done"}
    <2>1. pc \in {"walk", "done"} /\ UNCHANGED <<side, book, levels, next, remaining, cost, filled>>
      BY <1>6 DEF Finish, vars, request, sums
    <2>2. \A n : SizeTo(n)' = SizeTo(n) /\ CostTo(n)' = CostTo(n)
      BY <2>1 DEF SizeTo, CostTo
    <2>3. Consumed'
      BY <2>1, <2>2 DEF Exhausted, Consumed
    <2>4. QED
      BY <1>1, <1>4, <2>1, <2>3 DEF Exhausted
  <1>7. QED
    BY <1>2, <1>3, <1>5, <1>6 DEF Next, Read, Refuse, Over, Sort

-----------------------------------------------------------------------------
(***************************************************************************)
(* The walk, said of the book: what is filled, up to where, at what price. *)
(***************************************************************************)

\* The offers are the liquid levels, and the sort puts each of them in one place.
LEMMA OffersFacts ==
  ASSUME TypeOK
  PROVE  /\ OnOffer = Liquid /\ Offers = Raw /\ IsFiniteSet(OnOffer)
         /\ \A p \in OnOffer : Offers[p].price \in Nat \ {0} /\ Offers[p].size \in Nat \ {0}
  <1>1. Offers = Raw
    BY DEF Offers, Raw
  <1>2. OnOffer = Liquid
    BY <1>1 DEF OnOffer, Liquid, Positive
  <1>3. IsFiniteSet(DOMAIN Raw)
    <2>1. Raw \in Seq(PriceLevel)
      BY RawTyped
    <2>2. QED
      BY <2>1, FS_Interval
  <1>4. IsFiniteSet(OnOffer)
    BY <1>2, <1>3, FS_Subset DEF Liquid
  <1>5. QED
    BY <1>1, <1>2, <1>4 DEF OnOffer

\* The levels are the offers in the order of f.
SortedBy(f) == f \in Sorted /\ levels = [i \in DOMAIN f |-> Raw[f[i]]]

\* Each level is an offer, and each offer is one level.
LEMMA SortedOntoOffers ==
  ASSUME TypeOK, NEW f, SortedBy(f)
  PROVE  /\ f \in [1..Len(levels) -> OnOffer] /\ \A i \in 1..Len(levels) : levels[i] = Offers[f[i]]
         /\ \A i, j \in 1..Len(levels) : f[i] = f[j] => i = j
         /\ \A p \in OnOffer : \E i \in 1..Len(levels) : f[i] = p
  <1> DEFINE N == Cardinality(Liquid)
             Places == 1..N
  <1>1. f \in [Places -> Liquid] /\ Order(f)
    BY DEF Sorted, SortedBy
  <1>2. N \in Nat
    BY LiquidFacts
  <1>3. Len(levels) = N
    <2>1. DOMAIN levels = 1..N
      BY <1>1 DEF SortedBy
    <2>2. levels \in Seq(Levels)
      BY DEF TypeOK
    <2>3. QED
      BY <1>2, <2>1, <2>2
  <1>4. \A i, j \in Places : f[i] = f[j] => i = j
    <2>1. \A i, j \in Places : i < j => f[i] # f[j]
      <3>1. SUFFICES ASSUME NEW i \in Places, NEW j \in Places, i < j PROVE f[i] # f[j]
        OBVIOUS
      <3>2. f[i] \in Liquid /\ f[j] \in Liquid
        BY <1>1
      <3>3. Raw[f[i]].price \in Int /\ f[i] \in Int
        <4>1. Raw \in Seq(PriceLevel)
          BY RawTyped
        <4>2. QED
          BY <3>2, <4>1 DEF Liquid, Positive
      <3>4. \/ Better(Raw[f[i]].price, Raw[f[j]].price)
            \/ Raw[f[i]].price = Raw[f[j]].price /\ f[i] < f[j]
        BY <1>1, <3>1 DEF Order
      <3>5. QED
        BY <3>3, <3>4 DEF Better
    <2>2. \A i, j \in Places : i < j \/ j < i \/ i = j
      BY <1>2
    <2>3. QED
      BY <2>1, <2>2
  <1>5. f \in Surjection(Places, Liquid)
    <2>1. f \in Injection(Places, Liquid)
      BY <1>1, <1>4 DEF Injection, IsInjective
    <2>2. IsFiniteSet(Liquid) /\ Cardinality(Places) = N
      BY <1>2, FS_Interval, OffersFacts
    <2> HIDE DEF Places
    <2>3. QED
      BY <2>1, <2>2, FS_Injection
  <1>6. \A p \in Liquid : \E i \in Places : f[i] = p
    BY <1>5 DEF Surjection
  <1>7. \A i \in Places : levels[i] = Raw[f[i]]
    BY <1>1 DEF SortedBy
  <1>8. QED
    BY <1>1, <1>3, <1>4, <1>6, <1>7, OffersFacts

\* The size of each offer.
SizeAt == [p \in OnOffer |-> Offers[p].size]

\* A sum over a part of the offers is one over a part of all.
LEMMA SizeOfOffers ==
  ASSUME TypeOK, NEW T \in SUBSET OnOffer
  PROVE  SizeOf(T) = SumFunctionOnSet(SizeAt, T) /\ SizeOf(T) \in Nat
  <1> DEFINE part == [p \in T |-> Offers[p].size]
  <1>1. IsFiniteSet(T)
    BY OffersFacts, FS_Subset
  <1>2. \A p \in T : part[p] \in Nat /\ SizeAt[p] = part[p]
    BY OffersFacts DEF SizeAt
  <1>3. SizeOf(T) = SumFunctionOnSet(part, T)
    BY DEF SizeOf, SumFunction
  <1> HIDE DEF part
  <1>4. SumFunctionOnSet(part, T) = SumFunctionOnSet(SizeAt, T)
    BY <1>1, <1>2, SumSame
  <1>5. SumFunctionOnSet(part, T) \in Nat
    BY <1>1, <1>2, SumTyped
  <1>6. QED
    BY <1>3, <1>4, <1>5

\* A part of the offers has no more than another that it is a part of.
LEMMA SizeOfPart ==
  ASSUME TypeOK, NEW T \in SUBSET OnOffer, NEW U \in SUBSET T
  PROVE  SizeOf(U) <= SizeOf(T)
  <1>1. IsFiniteSet(T) /\ \A p \in T : SizeAt[p] \in Nat
    BY OffersFacts, FS_Subset DEF SizeAt
  <1>2. SumFunctionOnSet(SizeAt, U) <= SumFunctionOnSet(SizeAt, T)
    BY <1>1, SumPart
  <1>3. QED
    BY <1>2, SizeOfOffers

\* The offers that are the first n levels.
FirstOf(f, n) == {f[i] : i \in 1..n}

\* Whatever is summed up over the first n levels, over their offers it is the same.
LEMMA SumOfFirst ==
  ASSUME TypeOK, NEW f, SortedBy(f), NEW n \in 0..Len(levels),
         NEW of, NEW at, \A i \in 1..Len(levels) : of[i] = at[f[i]],
         \A p \in OnOffer : at[p] \in Nat
  PROVE  /\ FirstOf(f, n) \subseteq OnOffer
         /\ SumFunctionOnSet(of, 1..n) = SumFunctionOnSet(at, FirstOf(f, n))
  <1> DEFINE I == 1..n
             m == [i \in I |-> f[i]]
  <1>1. /\ f \in [1..Len(levels) -> OnOffer]
        /\ \A i, j \in 1..Len(levels) : f[i] = f[j] => i = j
    BY SortedOntoOffers
  <1>2. I \subseteq 1..Len(levels)
    BY DEF TypeOK
  <1>3. \A i \in I : f[i] \in OnOffer
    BY <1>1, <1>2
  <1>4. IsFiniteSet(I)
    BY FS_Interval
  <1>5. IsFiniteSet(OnOffer)
    BY OffersFacts
  <1>6. m \in [I -> OnOffer] /\ \A i, j \in I : m[i] = m[j] => i = j
    BY <1>1, <1>2, <1>3
  <1>7. \A i \in I : of[i] = at[m[i]]
    BY <1>2
  <1>8. {m[i] : i \in I} = FirstOf(f, n) /\ FirstOf(f, n) \subseteq OnOffer
    BY <1>3 DEF FirstOf
  <1> HIDE DEF m
  <1>9. SumFunctionOnSet(of, I) = SumFunctionOnSet(at, {m[i] : i \in I})
    <2> HIDE DEF I
    <2> QED
      BY <1>4, <1>5, <1>6, <1>7, SumPlaces
  <1>10. SumFunctionOnSet(at, {m[i] : i \in I}) = SumFunctionOnSet(at, FirstOf(f, n))
    BY <1>8
  <1>11. SumFunctionOnSet(of, 1..n) = SumFunctionOnSet(at, FirstOf(f, n))
    BY <1>9, <1>10
  <1>12. QED
    BY <1>8, <1>11

\* The size of the first n levels.
LEMMA SizeOfFirst ==
  ASSUME TypeOK, NEW f, SortedBy(f), NEW n \in 0..Len(levels)
  PROVE  FirstOf(f, n) \subseteq OnOffer /\ SizeOf(FirstOf(f, n)) = SizeTo(n)
  <1> DEFINE sizes == [i \in DOMAIN levels |-> levels[i].size]
  <1>1. /\ DOMAIN levels = 1..Len(levels) /\ f \in [1..Len(levels) -> OnOffer]
        /\ \A i \in 1..Len(levels) : levels[i] = Offers[f[i]]
    BY SortedOntoOffers DEF TypeOK
  <1>2. \A i \in 1..Len(levels) : sizes[i] = SizeAt[f[i]]
    BY <1>1 DEF SizeAt
  <1>3. \A p \in OnOffer : SizeAt[p] \in Nat
    BY OffersFacts DEF SizeAt
  <1>4. SizeTo(n) = SumFunctionOnSet(sizes, 1..n)
    BY DEF SizeTo
  <1> HIDE DEF sizes
  <1>5. /\ FirstOf(f, n) \subseteq OnOffer
        /\ SumFunctionOnSet(sizes, 1..n) = SumFunctionOnSet(SizeAt, FirstOf(f, n))
    BY <1>2, <1>3, SumOfFirst
  <1>6. QED
    BY <1>4, <1>5, SizeOfOffers

\* What each offer costs in full.
CostAt == [p \in OnOffer |-> Offers[p].price * Offers[p].size]

\* The cost of the first n levels.
LEMMA CostOfFirst ==
  ASSUME TypeOK, NEW f, SortedBy(f), NEW n \in 0..Len(levels)
  PROVE  SumFunctionOnSet(CostAt, FirstOf(f, n)) = CostTo(n)
  <1> DEFINE costs == [i \in DOMAIN levels |-> levels[i].price * levels[i].size]
  <1>1. /\ DOMAIN levels = 1..Len(levels) /\ f \in [1..Len(levels) -> OnOffer]
        /\ \A i \in 1..Len(levels) : levels[i] = Offers[f[i]]
    BY SortedOntoOffers DEF TypeOK
  <1>2. \A i \in 1..Len(levels) : costs[i] = CostAt[f[i]]
    BY <1>1 DEF CostAt
  <1>3. \A p \in OnOffer : CostAt[p] \in Nat
    <2>1. \A a, b \in Nat : a * b \in Nat
      OBVIOUS
    <2>2. QED
      BY <2>1, OffersFacts DEF CostAt
  <1>4. CostTo(n) = SumFunctionOnSet(costs, 1..n)
    BY DEF CostTo
  <1> HIDE DEF costs
  <1>5. QED
    BY <1>2, <1>3, <1>4, SumOfFirst

\* The minimum of two.
LEMMA LesserOfTwo ==
  ASSUME NEW a \in Nat, NEW b \in Nat
  PROVE  Min({a, b}) = IF a <= b THEN a ELSE b
  BY DEF Min

\* When the walk is over it has filled what can be filled, up to a last level
\* that all the better ones together do not reach.
LEMMA FilledUp ==
  ASSUME Exhausted, pc = "done", NEW f, SortedBy(f)
  PROVE  /\ next - 1 \in 1..Len(levels) /\ filled = Fillable /\ filled \in Nat
         /\ SizeTo(next - 2) \in Nat /\ SizeTo(next - 2) < filled /\ filled <= SizeTo(next - 1)
         /\ cost = CostTo(next - 2) + levels[next - 1].price * (filled - SizeTo(next - 2))
         /\ worst = levels[next - 1].price
         /\ remaining <= 0 <=> SizeOf(OnOffer) >= want
  <1>1. /\ TypeOK /\ next \in Nat \ {0} /\ remaining \in Nat /\ filled \in Nat \ {0}
        /\ levels \in Seq(Levels) /\ want \in Nat
        /\ filled + remaining = want /\ ~More
    BY DEF Exhausted, Walked, TypeOK, Accounted, Positive
  <1>2. next # 1 /\ next <= Len(levels) + 1
    BY <1>1 DEF Exhausted, Walked, Accounted
  <1>3. next - 1 \in 1..Len(levels) /\ next - 2 \in 0..Len(levels) /\ (next - 1) - 1 = next - 2
    BY <1>1, <1>2
  <1>4. /\ SizeTo(next - 2) < filled /\ filled <= SizeTo(next - 1)
        /\ remaining > 0 => filled = SizeTo(next - 1)
        /\ cost = CostTo(next - 2) + levels[next - 1].price * (filled - SizeTo(next - 2))
    BY <1>1, <1>2, <1>3 DEF Exhausted, Consumed
  <1>5. /\ SizeTo(next - 2) \in Nat /\ SizeTo(next - 1) \in Nat
        /\ SizeTo(next - 1) <= SizeTo(Len(levels)) /\ SizeTo(Len(levels)) \in Nat
    BY <1>1, <1>3, PrefixFacts
  <1>6. worst = levels[next - 1].price
    BY <1>2 DEF Exhausted, Walked, Bracketed
  <1>7. SizeOf(OnOffer) = SizeTo(Len(levels))
    <2>1. FirstOf(f, Len(levels)) = OnOffer
      BY <1>1, SortedOntoOffers DEF FirstOf
    <2>2. Len(levels) \in 0..Len(levels)
      BY <1>1
    <2>3. QED
      BY <1>1, <2>1, <2>2, SizeOfFirst
  <1>8. remaining > 0 => next - 1 = Len(levels)
    BY <1>1, <1>3 DEF More
  <1>9. remaining <= 0 <=> SizeOf(OnOffer) >= want
    BY <1>1, <1>4, <1>5, <1>7, <1>8
  <1>10. Fillable = IF want <= SizeOf(OnOffer) THEN want ELSE SizeOf(OnOffer)
    BY <1>1, <1>5, <1>7, LesserOfTwo DEF Fillable
  <1>11. filled = Fillable
    BY <1>1, <1>4, <1>5, <1>7, <1>8, <1>10
  <1>12. QED
    BY <1>1, <1>3, <1>4, <1>5, <1>6, <1>9, <1>11

\* Better offers than the last level's are among the levels before it, and the
\* levels up to it are no worse.
LEMMA BetterIsBefore ==
  ASSUME Exhausted, NEW f, SortedBy(f), NEW k \in 1..Len(levels), NEW p \in OnOffer
  PROVE  /\ ~NoBetter(levels[k].price, Offers[p].price) => p \in FirstOf(f, k - 1)
         /\ p \in FirstOf(f, k) => NoBetter(Offers[p].price, levels[k].price)
  <1>1. TypeOK /\ Ordered /\ levels \in Seq(Levels) /\ side \in {"buy", "sell"}
    BY DEF Exhausted, Walked, TypeOK
  <1>2. /\ \A i \in 1..Len(levels) : levels[i] = Offers[f[i]]
        /\ \A q \in OnOffer : \E i \in 1..Len(levels) : f[i] = q
        /\ \A i, j \in 1..Len(levels) : f[i] = f[j] => i = j
    BY <1>1, SortedOntoOffers
  <1>3. PICK i \in 1..Len(levels) : f[i] = p
    BY <1>2
  <1>4. Offers[p].price = levels[i].price /\ levels[i].price \in Nat /\ levels[k].price \in Nat
    <2>1. levels[i] \in Levels /\ levels[k] \in Levels
      BY <1>1
    <2>2. QED
      BY <1>2, <1>3, <2>1 DEF Levels
  <1>5. \A m, n \in 1..Len(levels) : m < n => NoBetter(levels[m].price, levels[n].price)
    BY <1>1 DEF Ordered
  <1>6. ASSUME ~NoBetter(levels[k].price, Offers[p].price) PROVE p \in FirstOf(f, k - 1)
    <2>1. ~(k < i) /\ i # k
      BY <1>4, <1>5, <1>6 DEF NoBetter
    <2>2. i \in 1..k - 1
      BY <2>1
    <2>3. QED
      BY <1>3, <2>2 DEF FirstOf
  <1>7. ASSUME p \in FirstOf(f, k) PROVE NoBetter(Offers[p].price, levels[k].price)
    <2>1. PICK j \in 1..k : f[j] = p
      BY <1>7 DEF FirstOf
    <2>2. j = i
      BY <1>2, <1>3, <2>1
    <2>3. i < k \/ i = k
      BY <2>1, <2>2
    <2>4. QED
      BY <1>4, <1>5, <2>3 DEF NoBetter
  <1>8. QED
    BY <1>6, <1>7

\* To have more of the cheaper and less of the dearer of two costs no more.
LEMMA Rearrangement ==
  ASSUME NEW g \in Nat, NEW t \in Nat, NEW a \in Nat, NEW w \in Nat, t <= g, a <= w
  PROVE  g * a + t * w <= t * a + g * w
  <1> DEFINE d == g - t
             e == w - a
  <1>1. d \in Nat /\ e \in Nat /\ g = t + d /\ w = a + e
    OBVIOUS
  <1> HIDE DEF d, e
  <1>2. (t + d) * a = t * a + d * a /\ t * (a + e) = t * a + t * e
    BY <1>1
  <1>3. (t + d) * (a + e) = t * a + d * a + t * e + d * e
    BY <1>1
  <1>4. {t * a, d * a, t * e, d * e} \subseteq Nat
    BY <1>1
  <1>5. QED
    BY <1>1, <1>2, <1>3, <1>4

\* Whoever has g at price a, no less than t if a is better than w and no more if
\* it is worse, loses nothing against t, if the difference is paid at w.
LEMMA Exchange ==
  ASSUME NEW g \in Nat, NEW t \in Nat, NEW a \in Nat, NEW w \in Nat, side \in {"buy", "sell"},
         ~NoBetter(w, a) => t <= g, ~NoBetter(a, w) => g <= t
  PROVE  NoBetter(g * a + t * w, t * a + g * w)
  <1>1. CASE a = w
    BY <1>1 DEF NoBetter
  <1>2. CASE a < w
    <2>1. CASE side = "buy"
      BY <1>2, <2>1, Rearrangement DEF NoBetter
    <2>2. CASE side = "sell"
      <3>1. t * a + g * w <= g * a + t * w
        BY <1>2, <2>2, Rearrangement DEF NoBetter
      <3>2. QED
        BY <2>2, <3>1 DEF NoBetter
    <2>3. QED
      BY <2>1, <2>2
  <1>3. CASE w < a
    <2>1. CASE side = "buy"
      <3>1. t * w + g * a <= g * w + t * a
        BY <1>3, <2>1, Rearrangement DEF NoBetter
      <3>2. {t * w, g * a, g * w, t * a} \subseteq Nat
        OBVIOUS
      <3>3. QED
        BY <2>1, <3>1, <3>2 DEF NoBetter
    <2>2. CASE side = "sell"
      <3>1. g * w + t * a <= t * w + g * a
        BY <1>3, <2>2, Rearrangement DEF NoBetter
      <3>2. {t * w, g * a, g * w, t * a} \subseteq Nat
        OBVIOUS
      <3>3. QED
        BY <2>2, <3>1, <3>2 DEF NoBetter
    <2>3. QED
      BY <2>1, <2>2
  <1>4. QED
    BY <1>1, <1>2, <1>3

\* A fill that takes all that is better than some price, and nothing that is
\* worse, is as good as any of the same size.
LEMMA NoBetterFill ==
  ASSUME TypeOK, NEW g \in [OnOffer -> Nat], NEW t \in [OnOffer -> Nat], NEW w \in Nat,
         SumFunction(g) = SumFunction(t),
         \A p \in OnOffer : ~NoBetter(w, Offers[p].price) => t[p] <= g[p],
         \A p \in OnOffer : ~NoBetter(Offers[p].price, w) => g[p] <= t[p]
  PROVE  NoBetter(Worth(g), Worth(t)) /\ Worth(g) \in Nat /\ Worth(t) \in Nat
  <1> DEFINE gw == [p \in OnOffer |-> g[p] * Offers[p].price]
             tw == [p \in OnOffer |-> t[p] * Offers[p].price]
             gc == [p \in OnOffer |-> w * g[p]]
             tc == [p \in OnOffer |-> w * t[p]]
             l == [p \in OnOffer |-> gw[p] + tc[p]]
             r == [p \in OnOffer |-> tw[p] + gc[p]]
             Sum(x) == SumFunctionOnSet(x, OnOffer)
  <1>1. IsFiniteSet(OnOffer) /\ side \in {"buy", "sell"}
    BY OffersFacts DEF TypeOK
  <1>2. \A p \in OnOffer : /\ Offers[p].price \in Nat /\ g[p] \in Nat /\ t[p] \in Nat
                           /\ gw[p] = g[p] * Offers[p].price /\ tw[p] = t[p] * Offers[p].price
                           /\ gc[p] = w * g[p] /\ tc[p] = w * t[p]
                           /\ l[p] = gw[p] + tc[p] /\ r[p] = tw[p] + gc[p]
    BY OffersFacts
  <1>3. /\ Worth(g) = Sum(gw) /\ Worth(t) = Sum(tw)
        /\ SumFunction(g) = Sum(g) /\ SumFunction(t) = Sum(t)
    BY DEF Worth, SumFunction
  <1> HIDE DEF gw, tw, gc, tc, l, r
  <1>4. \A p \in OnOffer : gw[p] \in Nat /\ tw[p] \in Nat /\ gc[p] \in Nat /\ tc[p] \in Nat
                           /\ l[p] \in Nat /\ r[p] \in Nat
    <2>1. \A a, b \in Nat : a * b \in Nat /\ a + b \in Nat
      OBVIOUS
    <2>2. \A p \in OnOffer : gw[p] \in Nat /\ tw[p] \in Nat /\ gc[p] \in Nat /\ tc[p] \in Nat
      BY <1>2, <2>1
    <2>3. QED
      BY <1>2, <2>1, <2>2
  <1>5. Sum(gw) \in Nat /\ Sum(tw) \in Nat /\ Sum(g) \in Nat /\ Sum(t) \in Nat
    BY <1>1, <1>2, <1>4, SumTyped
  <1>6. Sum(gc) = w * Sum(g) /\ Sum(tc) = w * Sum(t)
    BY <1>1, <1>2, SumTimes
  <1>7. Sum(l) = Sum(gw) + Sum(tc)
    BY <1>1, <1>2, <1>4, SumPlus
  <1>8. Sum(r) = Sum(tw) + Sum(gc)
    BY <1>1, <1>2, <1>4, SumPlus
  <1>9. \A p \in OnOffer : NoBetter(l[p], r[p])
    <2> SUFFICES ASSUME NEW p \in OnOffer PROVE NoBetter(l[p], r[p])
      OBVIOUS
    <2> DEFINE a == Offers[p].price
    <2>1. /\ g[p] \in Nat /\ t[p] \in Nat /\ a \in Nat
          /\ ~NoBetter(w, a) => t[p] <= g[p]
          /\ ~NoBetter(a, w) => g[p] <= t[p]
      BY <1>2
    <2>2. NoBetter(g[p] * a + t[p] * w, t[p] * a + g[p] * w)
      <3> HIDE DEF a
      <3> QED
        BY <1>1, <2>1, Exchange
    <2>3. l[p] = g[p] * a + t[p] * w /\ r[p] = t[p] * a + g[p] * w
      <3>1. w * t[p] = t[p] * w /\ w * g[p] = g[p] * w
        BY <2>1
      <3>2. QED
        BY <1>2, <3>1
    <2>4. QED
      BY <2>2, <2>3
  <1>10. NoBetter(Sum(l), Sum(r))
    <2>1. CASE side = "buy"
      <3>1. \A p \in OnOffer : l[p] <= r[p]
        BY <1>9, <2>1 DEF NoBetter
      <3>2. Sum(l) <= Sum(r)
        BY <1>1, <1>4, <3>1, SumMonotone
      <3>3. QED
        BY <2>1, <3>2 DEF NoBetter
    <2>2. CASE side = "sell"
      <3>1. \A p \in OnOffer : r[p] <= l[p]
        BY <1>4, <1>9, <2>2 DEF NoBetter
      <3>2. Sum(r) <= Sum(l)
        BY <1>1, <1>4, <3>1, SumMonotone
      <3>3. Sum(l) \in Nat /\ Sum(r) \in Nat
        BY <1>1, <1>4, SumTyped
      <3>4. QED
        BY <2>2, <3>2, <3>3 DEF NoBetter
    <2>3. QED
      BY <1>1, <2>1, <2>2
  <1> HIDE DEF Sum
  <1>11. Sum(gc) = Sum(tc) /\ Sum(gc) \in Nat
    <2>1. Sum(g) = Sum(t)
      BY <1>3
    <2>2. w * Sum(g) \in Nat
      BY <1>5
    <2>3. QED
      BY <1>6, <2>1, <2>2
  <1>12. NoBetter(Sum(gw), Sum(tw))
    BY <1>5, <1>7, <1>8, <1>10, <1>11 DEF NoBetter
  <1>13. QED
    BY <1>3, <1>5, <1>12

\* What is nothing after the k-th level sums to the part before it and to that
\* level's.
LEMMA SumUpTo ==
  ASSUME TypeOK, NEW f, SortedBy(f), NEW k \in 1..Len(levels), NEW at,
         \A p \in OnOffer : at[p] \in Nat,
         \A p \in OnOffer : p \notin FirstOf(f, k - 1) /\ p # f[k] => at[p] = 0
  PROVE  /\ f[k] \in OnOffer
         /\ SumFunctionOnSet(at, OnOffer) = at[f[k]] + SumFunctionOnSet(at, FirstOf(f, k - 1))
  <1> DEFINE front == FirstOf(f, k - 1)
             part == front \cup {f[k]}
             Sum(U) == SumFunctionOnSet(at, U)
  <1>1. /\ f \in [1..Len(levels) -> OnOffer]
        /\ \A i, j \in 1..Len(levels) : f[i] = f[j] => i = j
    BY SortedOntoOffers
  <1>2. k \in 1..Len(levels) /\ 1..k - 1 \subseteq 1..Len(levels) /\ k \notin 1..k - 1
    OBVIOUS
  <1>3. front \subseteq OnOffer /\ f[k] \in OnOffer /\ f[k] \notin front
    BY <1>1, <1>2 DEF FirstOf
  <1>4. IsFiniteSet(OnOffer)
    BY OffersFacts
  <1>5. \A p \in OnOffer \ part : at[p] = 0
    OBVIOUS
  <1> HIDE DEF front
  <1>6. part \in SUBSET OnOffer /\ part \ {f[k]} = front /\ f[k] \in part
    BY <1>3
  <1> HIDE DEF part
  <1>7. SumFunctionOnSet(at, OnOffer) = SumFunctionOnSet(at, part)
    BY <1>4, <1>5, <1>6, SumOutside
  <1>8. SumFunctionOnSet(at, part) = at[f[k]] + SumFunctionOnSet(at, part \ {f[k]})
    BY <1>4, <1>6, SumTake
  <1>9. SumFunctionOnSet(at, part \ {f[k]}) = SumFunctionOnSet(at, front)
    BY <1>6
  <1>10. QED
    BY <1>3, <1>7, <1>8, <1>9 DEF front

\* What the walk took of each offer.
Taken(f) ==
  [p \in OnOffer |-> IF p \in FirstOf(f, next - 2) THEN Offers[p].size
                     ELSE IF p = f[next - 1] THEN filled - SizeTo(next - 2) ELSE 0]

\* It is one of the ways to fill, it costs what the walk has summed up, and it has
\* all of what is better than the last price and nothing of what is worse.
LEMMA TakenFacts ==
  ASSUME Exhausted, pc = "done", NEW f, SortedBy(f)
  PROVE  /\ Taken(f) \in Fills /\ Taken(f) \in [OnOffer -> Nat] /\ Worth(Taken(f)) = cost
         /\ \A p \in OnOffer : ~NoBetter(worst, Offers[p].price) => Taken(f)[p] = Offers[p].size
         /\ \A p \in OnOffer : ~NoBetter(Offers[p].price, worst) => Taken(f)[p] = 0
  <1> DEFINE k == next - 1
             front == FirstOf(f, k - 1)
             rest == filled - SizeTo(k - 1)
             g == Taken(f)
             gw == [p \in OnOffer |-> g[p] * Offers[p].price]
  <1>1. /\ TypeOK /\ next \in Nat /\ next - 2 = k - 1 /\ worst = levels[k].price
        /\ k \in 1..Len(levels) /\ k - 1 \in 0..Len(levels)
        /\ filled = Fillable /\ filled \in Nat
        /\ SizeTo(k - 1) \in Nat /\ SizeTo(k - 1) < filled /\ filled <= SizeTo(k)
        /\ cost = CostTo(k - 1) + levels[k].price * rest
    <2>1. TypeOK /\ next \in Nat
      BY DEF Exhausted, Walked, TypeOK
    <2>2. next - 2 = k - 1 /\ k - 1 \in Int
      BY <2>1
    <2>3. QED
      BY <2>1, <2>2, FilledUp
  <1>2. /\ f \in [1..Len(levels) -> OnOffer] /\ levels[k] = Offers[f[k]]
        /\ \A i, j \in 1..Len(levels) : f[i] = f[j] => i = j
    BY <1>1, SortedOntoOffers
  <1>3. f[k] \in OnOffer /\ f[k] \notin front
    <2>1. k \notin 1..k - 1 /\ 1..k - 1 \subseteq 1..Len(levels)
      BY <1>1
    <2>2. QED
      BY <1>1, <1>2, <2>1 DEF FirstOf
  <1>4. front \subseteq OnOffer /\ SizeOf(front) = SizeTo(k - 1)
    BY <1>1, SizeOfFirst
  <1>5. SumFunctionOnSet(CostAt, front) = CostTo(k - 1)
    BY <1>1, CostOfFirst
  <1>6. rest \in Nat /\ rest <= Offers[f[k]].size
    <2>1. SizeTo(k) = SizeTo(k - 1) + levels[k].size
      BY <1>1, PrefixFacts
    <2>2. Offers[f[k]].size \in Nat
      BY <1>1, <1>3, OffersFacts
    <2>3. QED
      BY <1>1, <1>2, <2>1, <2>2
  <1>7. /\ \A p \in front : g[p] = Offers[p].size
        /\ g[f[k]] = rest
        /\ \A p \in OnOffer : p \notin front /\ p # f[k] => g[p] = 0
        /\ g \in [OnOffer -> Nat] /\ \A p \in OnOffer : g[p] <= Offers[p].size
    <2>1. \A p \in OnOffer : Offers[p].size \in Nat
      BY <1>1, OffersFacts
    <2>2. g = [p \in OnOffer |-> IF p \in front THEN Offers[p].size
                                 ELSE IF p = f[k] THEN rest ELSE 0]
      BY <1>1 DEF Taken
    <2> HIDE DEF g, front, rest, k
    <2>3. QED
      BY <1>3, <1>4, <1>6, <2>1, <2>2
  <1> HIDE DEF g, front
  <1>8. IsFiniteSet(OnOffer) /\ IsFiniteSet(front)
    BY <1>1, <1>4, OffersFacts, FS_Subset
  <1>9. SumFunctionOnSet(g, OnOffer) = filled
    <2>1. SumFunctionOnSet(g, OnOffer) = g[f[k]] + SumFunctionOnSet(g, front)
      BY <1>1, <1>7, SumUpTo DEF front
    <2>2. \A p \in front : g[p] \in Nat /\ SizeAt[p] = g[p]
      BY <1>4, <1>7 DEF SizeAt
    <2>3. SumFunctionOnSet(g, front) = SumFunctionOnSet(SizeAt, front)
      BY <1>8, <2>2, SumSame
    <2>4. SumFunctionOnSet(SizeAt, front) = SizeTo(k - 1)
      BY <1>1, <1>4, SizeOfOffers
    <2>5. QED
      BY <1>1, <1>7, <2>1, <2>3, <2>4
  <1>10. SumFunction(g) = filled
    BY <1>7, <1>9 DEF SumFunction
  <1>11. \A p \in OnOffer : g[p] <= filled
    <2> SUFFICES ASSUME NEW p \in OnOffer PROVE g[p] <= filled
      OBVIOUS
    <2>1. SumFunctionOnSet(g, OnOffer) = g[p] + SumFunctionOnSet(g, OnOffer \ {p})
      BY <1>7, <1>8, SumTake
    <2>2. SumFunctionOnSet(g, OnOffer \ {p}) \in Nat /\ g[p] \in Nat
      BY <1>7, <1>8, SumTyped
    <2>3. QED
      BY <1>9, <2>1, <2>2
  <1>12. g \in Fills
    <2>1. g \in [OnOffer -> 0..Fillable]
      BY <1>1, <1>7, <1>11
    <2>2. QED
      BY <1>1, <1>7, <1>10, <2>1 DEF Fills
  <1>13. Worth(g) = cost
    <2>1. \A p \in OnOffer : gw[p] = g[p] * Offers[p].price /\ gw[p] \in Nat
      <3>1. \A p \in OnOffer : g[p] \in Nat /\ Offers[p].price \in Nat
        BY <1>1, <1>7, OffersFacts
      <3>2. \A a, b \in Nat : a * b \in Nat
        OBVIOUS
      <3>3. QED
        BY <3>1, <3>2
    <2>2. Worth(g) = SumFunctionOnSet(gw, OnOffer)
      BY DEF Worth, SumFunction
    <2> HIDE DEF gw
    <2>3. \A p \in OnOffer : p \notin front /\ p # f[k] => gw[p] = 0
      BY <1>1, <1>7, <2>1, OffersFacts
    <2>4. SumFunctionOnSet(gw, OnOffer) = gw[f[k]] + SumFunctionOnSet(gw, front)
      BY <1>1, <2>1, <2>3, SumUpTo DEF front
    <2>5. \A p \in front : gw[p] \in Nat /\ CostAt[p] = gw[p]
      <3>1. \A p \in front : gw[p] = Offers[p].size * Offers[p].price
        BY <1>4, <1>7, <2>1
      <3>2. \A a, b \in Nat : a * b = b * a
        OBVIOUS
      <3>3. QED
        BY <1>1, <1>4, <2>1, <3>1, <3>2, OffersFacts DEF CostAt
    <2>6. SumFunctionOnSet(gw, front) = SumFunctionOnSet(CostAt, front)
      BY <1>8, <2>5, SumSame
    <2>7. gw[f[k]] = levels[k].price * rest /\ gw[f[k]] \in Nat
      <3>1. gw[f[k]] = rest * levels[k].price
        BY <1>2, <1>3, <1>7, <2>1
      <3>2. levels[k].price \in Nat
        BY <1>1, <1>2, <1>3, OffersFacts
      <3>3. rest * levels[k].price = levels[k].price * rest
        BY <1>6, <3>2
      <3>4. QED
        BY <1>3, <2>1, <3>1, <3>3
    <2>8. CostTo(k - 1) \in Nat
      BY <1>1, PrefixFacts
    <2>9. QED
      BY <1>1, <1>5, <2>2, <2>4, <2>6, <2>7, <2>8
  <1>14. \A p \in OnOffer : ~NoBetter(worst, Offers[p].price) => g[p] = Offers[p].size
    BY <1>1, <1>7, BetterIsBefore DEF front
  <1>15. \A p \in OnOffer : ~NoBetter(Offers[p].price, worst) => g[p] = 0
    <2> SUFFICES ASSUME NEW p \in OnOffer, ~NoBetter(Offers[p].price, worst) PROVE g[p] = 0
      OBVIOUS
    <2>1. p \notin FirstOf(f, k)
      BY <1>1, BetterIsBefore
    <2>2. p \notin front /\ p # f[k]
      BY <1>1, <2>1 DEF front, FirstOf
    <2>3. QED
      BY <1>7, <2>2
  <1>16. QED
    BY <1>7, <1>12, <1>13, <1>14, <1>15 DEF g

\* No other way to fill as much of the order is better for the taker.
LEMMA WalkIsBest ==
  ASSUME Exhausted, pc = "done"
  PROVE  BestWorth = cost
  <1>1. PICK f : SortedBy(f)
    BY DEF Exhausted, Enumerated, SortedBy
  <1>2. TypeOK /\ side \in {"buy", "sell"} /\ worst \in Nat
    BY DEF Exhausted, Walked, TypeOK
  <1>3. /\ Taken(f) \in Fills /\ Taken(f) \in [OnOffer -> Nat] /\ Worth(Taken(f)) = cost
        /\ \A p \in OnOffer : ~NoBetter(worst, Offers[p].price) => Taken(f)[p] = Offers[p].size
        /\ \A p \in OnOffer : ~NoBetter(Offers[p].price, worst) => Taken(f)[p] = 0
    BY <1>1, TakenFacts
  <1>4. ASSUME NEW take \in Fills PROVE NoBetter(cost, Worth(take)) /\ Worth(take) \in Nat
    <2> DEFINE g == Taken(f)
    <2>1. /\ take \in [OnOffer -> Nat] /\ \A p \in OnOffer : take[p] <= Offers[p].size
          /\ SumFunction(take) = SumFunction(g)
      BY <1>3, <1>4 DEF Fills
    <2> HIDE DEF g
    <2>2. /\ g \in [OnOffer -> Nat] /\ Worth(g) = cost
          /\ \A p \in OnOffer : ~NoBetter(worst, Offers[p].price) => take[p] <= g[p]
          /\ \A p \in OnOffer : ~NoBetter(Offers[p].price, worst) => g[p] <= take[p]
      BY <1>3, <2>1 DEF g
    <2>3. QED
      BY <1>2, <2>1, <2>2, NoBetterFill
  <1> DEFINE worths == {Worth(take) : take \in Fills}
  <1>5. cost \in worths /\ \A x \in worths : NoBetter(cost, x) /\ x \in Nat
    BY <1>3, <1>4
  <1>6. BestWorth = IF side = "buy" THEN Min(worths) ELSE Max(worths)
    BY DEF BestWorth
  <1> HIDE DEF worths
  <1>7. CASE side = "buy"
    <2>1. \A x \in worths : cost <= x
      BY <1>5, <1>7 DEF NoBetter
    <2>2. Min(worths) = cost
      BY <1>5, <2>1 DEF Min
    <2>3. QED
      BY <1>6, <1>7, <2>2
  <1>8. CASE side = "sell"
    <2>1. \A x \in worths : cost >= x
      BY <1>5, <1>8 DEF NoBetter
    <2>2. Max(worths) = cost
      BY <1>5, <2>1 DEF Max
    <2>3. QED
      BY <1>6, <1>8, <2>2
  <1>9. QED
    BY <1>2, <1>7, <1>8

-----------------------------------------------------------------------------
(***************************************************************************)
(* What holds of every estimate.                                           *)
(***************************************************************************)

\* The loop's invariant holds in every reachable state.
THEOREM WalkedAlways == Spec => []Walked
  BY WalkedInit, WalkedStep, PTL DEF Spec

\* Every variable stays in its type, whatever the book: no size, sum or price
\* ever becomes negative.
THEOREM ClearingTyped == Spec => []TypeOK
  <1>1. Walked => TypeOK
    BY DEF Walked
  <1>2. QED
    BY <1>1, WalkedAlways, PTL

\* Slippage is never negative, is zero at the touch, and the printed average
\* lies between the printed touch and the printed worst price, for every book,
\* size and number of decimals.
THEOREM SlippageAlwaysCosts == Spec => []SlippageCosts
  <1>1. ASSUME Walked PROVE SlippageCosts
    <2> SUFFICES ASSUME pc = "done"
                 PROVE  /\ estimate.slippage >= 0
                        /\ worst = Touch => estimate.slippage = 0
                        /\ NoBetter(ratString(Touch, 1), estimate.average)
                        /\ NoBetter(estimate.average, estimate.worst)
      BY DEF SlippageCosts
    <2>1. ~More /\ estimate = ClearingEstimate
      BY <1>1 DEF Walked, Accounted
    <2>2. /\ estimate.slippage = ratString(Excess * 10000, Touch * filled)
          /\ estimate.average = ratString(cost, filled) /\ estimate.worst = ratString(worst, 1)
      BY <2>1 DEF ClearingEstimate
    <2>3. /\ filled \in Nat \ {0} /\ cost \in Nat /\ worst \in Nat
          /\ Touch \in Nat \ {0} /\ Excess \in Nat /\ Touch * filled \in Nat \ {0}
          /\ NoBetter(Touch * filled, cost) /\ NoBetter(cost, worst * filled)
      BY <1>1, <2>1, Printable
    <2>4. estimate.slippage >= 0
      BY <2>2, <2>3, RoundingFacts
    <2>5. ASSUME worst = Touch PROVE estimate.slippage = 0
      <3>1. Excess = 0
        BY <2>3, <2>5 DEF Excess, NoBetter
      <3>2. ratString(0, Touch * filled) = 0
        BY <2>3, RoundingFacts, StepsAssumption
      <3>3. QED
        BY <2>2, <3>1, <3>2
    <2>6. NoBetter(ratString(Touch, 1), estimate.average)
      BY <2>2, <2>3, RoundingFacts DEF NoBetter
    <2>7. NoBetter(estimate.average, estimate.worst)
      BY <2>2, <2>3, RoundingFacts DEF NoBetter
    <2>8. QED
      BY <2>4, <2>5, <2>6, <2>7
  <1>2. QED
    BY <1>1, WalkedAlways, PTL

\* The levels are the liquid ones and the walk takes them in their order, each
\* whole but the last, in every reachable state.
THEOREM ExhaustedAlways == Spec => []Exhausted
  BY ExhaustedInit, ExhaustedStep, PTL DEF Spec

\* The printed amount is all that the book can fill, and the printed average
\* that of the best way to fill it, for every book of any length and any size.
THEOREM FillIsBest == Spec => []BestFill
  <1>1. ASSUME Exhausted PROVE BestFill
    <2> SUFFICES ASSUME pc = "done"
                 PROVE  /\ estimate.filled = ratString(Fillable, 1)
                        /\ estimate.average = ratString(BestWorth, Fillable)
      BY DEF BestFill
    <2>1. estimate = ClearingEstimate
      BY <1>1 DEF Exhausted, Walked, Accounted
    <2>2. estimate.filled = ratString(filled, 1) /\ estimate.average = ratString(cost, filled)
      BY <2>1 DEF ClearingEstimate
    <2>3. PICK f : SortedBy(f)
      BY <1>1 DEF Exhausted, Enumerated, SortedBy
    <2>4. filled = Fillable
      BY <1>1, <2>3, FilledUp
    <2>5. cost = BestWorth
      BY <1>1, WalkIsBest
    <2>6. QED
      BY <2>2, <2>4, <2>5
  <1>2. QED
    BY <1>1, ExhaustedAlways, PTL

\* The order is said to be filled exactly when the liquid levels have its size.
THEOREM ThinBookAlwaysTold == Spec => []ThinBookTold
  <1>1. ASSUME Exhausted PROVE ThinBookTold
    <2> SUFFICES ASSUME pc = "done" PROVE estimate.full <=> SizeOf(OnOffer) >= want
      BY DEF ThinBookTold
    <2>1. estimate = ClearingEstimate
      BY <1>1 DEF Exhausted, Walked, Accounted
    <2>2. estimate.full = (remaining <= 0)
      BY <2>1 DEF ClearingEstimate, Full
    <2>3. PICK f : SortedBy(f)
      BY <1>1 DEF Exhausted, Enumerated, SortedBy
    <2>4. remaining <= 0 <=> SizeOf(OnOffer) >= want
      BY <1>1, <2>3, FilledUp
    <2>5. QED
      BY <2>2, <2>4
  <1>2. QED
    BY <1>1, ExhaustedAlways, PTL

\* The worst price is the one at which the order completes: all that is better
\* has less, and what is no worse has enough.
THEOREM WorstIsAlwaysMarginal == Spec => []WorstIsMarginal
  <1>1. ASSUME Exhausted, pc = "done" PROVE WorstIsMarginal
    <2>1. PICK f : SortedBy(f)
      BY <1>1 DEF Exhausted, Enumerated, SortedBy
    <2> DEFINE k == next - 1
               last == f[k]
               better == {p \in OnOffer : ~NoBetter(Offers[last].price, Offers[p].price)}
               within == {p \in OnOffer : NoBetter(Offers[p].price, Offers[last].price)}
    <2>2. /\ TypeOK /\ next - 2 = k - 1 /\ worst = levels[k].price
          /\ k \in 1..Len(levels) /\ k - 1 \in 0..Len(levels) /\ k \in 0..Len(levels)
          /\ filled = Fillable /\ filled \in Nat
          /\ SizeTo(k - 1) < filled /\ filled <= SizeTo(k)
      <3>1. TypeOK /\ next \in Nat
        BY <1>1 DEF Exhausted, Walked, TypeOK
      <3>2. next - 2 = k - 1 /\ k - 1 \in Int
        BY <3>1
      <3>3. QED
        BY <1>1, <2>1, <3>1, <3>2, FilledUp
    <2>3. last \in OnOffer /\ levels[k] = Offers[last]
      BY <2>1, <2>2, SortedOntoOffers
    <2>4. estimate.worst = ratString(Offers[last].price, 1)
      <3>1. estimate = ClearingEstimate
        BY <1>1 DEF Exhausted, Walked, Accounted
      <3>2. QED
        BY <2>2, <2>3, <3>1 DEF ClearingEstimate
    <2>5. /\ SizeOf(FirstOf(f, k - 1)) = SizeTo(k - 1) /\ SizeOf(FirstOf(f, k)) = SizeTo(k)
          /\ FirstOf(f, k - 1) \subseteq OnOffer /\ FirstOf(f, k) \subseteq OnOffer
      BY <2>1, <2>2, SizeOfFirst
    <2>6. better \subseteq FirstOf(f, k - 1) /\ FirstOf(f, k) \subseteq within
      <3>1. \A p \in OnOffer :
              /\ ~NoBetter(levels[k].price, Offers[p].price) => p \in FirstOf(f, k - 1)
              /\ p \in FirstOf(f, k) => NoBetter(Offers[p].price, levels[k].price)
        BY <1>1, <2>1, <2>2, BetterIsBefore
      <3>2. QED
        BY <2>3, <2>5, <3>1
    <2>7. better \in SUBSET OnOffer /\ within \in SUBSET OnOffer
      OBVIOUS
    <2> HIDE DEF better, within
    <2>8. SizeOf(better) <= SizeTo(k - 1) /\ SizeOf(better) \in Nat
      BY <2>2, <2>5, <2>6, <2>7, SizeOfPart, SizeOfOffers
    <2>9. SizeTo(k) <= SizeOf(within) /\ SizeOf(within) \in Nat
      BY <2>2, <2>5, <2>6, <2>7, SizeOfPart, SizeOfOffers
    <2>10. SizeTo(k - 1) \in Nat /\ SizeTo(k) \in Nat
      BY <2>2, PrefixFacts
    <2>11. SizeOf(better) < Fillable /\ Fillable <= SizeOf(within)
      <3> HIDE DEF k
      <3> QED
        BY <2>2, <2>8, <2>9, <2>10
    <2>12. QED
      BY <2>3, <2>4, <2>11 DEF WorstIsMarginal, better, within
  <1>2. Exhausted => WorstIsMarginal
    BY <1>1 DEF WorstIsMarginal
  <1>3. QED
    BY <1>2, ExhaustedAlways, PTL

=============================================================================
