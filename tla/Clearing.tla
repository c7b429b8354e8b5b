------------------------------ MODULE Clearing ------------------------------
(***************************************************************************)
(* The clearing-price estimate: the tool of toolbridge/estimate.go and the *)
(* walk over the book of marketdata/auction.go.                            *)
(*                                                                         *)
(* Prices and sizes are decimal strings that the code reads into rational  *)
(* numbers.  Here they are integers, in units fine enough for all of them; *)
(* only the quotients at the end leave the integers, and they are printed  *)
(* with a fixed number of decimals.                                        *)
(***************************************************************************)
EXTENDS Integers, Sequences, FiniteSets, FiniteSetsExt, Functions

CONSTANTS
  Books,      \* the order books that get_orderbook may return
  Sizes,      \* the sizes that callers ask for
  Malformed,  \* a string that is not a number
  Steps       \* steps of the printed decimals in one unit

Number == Int \cup {Malformed}
PriceLevel == [price : Number, size : Number]

ASSUME MalformedAssumption == Malformed \notin Int
ASSUME BooksAssumption == Books \subseteq [bids : Seq(PriceLevel), asks : Seq(PriceLevel)]
ASSUME SizesAssumption == Sizes \subseteq Number
ASSUME StepsAssumption == Steps \in Nat \ {0}

VARIABLES
  pc,                               \* read, sort, walk, done or error
  side, want, book,                 \* the arguments and the snapshot
  levels,                           \* restingLevels
  next,                             \* the level the loop is at
  remaining, cost, filled, worst,   \* the loop's sums
  estimate                          \* ClearingEstimate, printed

request == <<side, want, book>>
sums == <<next, remaining, cost, filled, worst>>
vars == <<pc, request, levels, sums, estimate>>

NoEstimate == [filled |-> 0, full |-> FALSE, average |-> 0, worst |-> 0, slippage |-> 0]

Init ==
  /\ pc = "read"
  /\ side \in {"buy", "sell"} /\ want \in Sizes
  /\ book = [bids |-> <<>>, asks |-> <<>>]
  /\ levels = <<>>
  /\ next = 1 /\ remaining = 0 /\ cost = 0 /\ filled = 0 /\ worst = 0
  /\ estimate = NoEstimate

Refuse == pc' = "error" /\ UNCHANGED <<request, levels, sums, estimate>>

\* The book comes from the MCP server, which may refuse or have none.
Read ==
  /\ pc = "read"
  /\ \/ Refuse
     \/ /\ book' \in Books /\ pc' = "sort"
        /\ UNCHANGED <<side, want, levels, sums, estimate>>

Raw == IF side = "buy" THEN book.asks ELSE book.bids

Positive(x) == x \in Int /\ x > 0
WellFormed == Malformed # want /\ \A p \in DOMAIN Raw : Malformed \notin {Raw[p].price, Raw[p].size}

\* What is no liquidity is left out.
Liquid == {p \in DOMAIN Raw : Positive(Raw[p].price) /\ Positive(Raw[p].size)}

\* Variant: the cheapest level first, whatever the side.
Better_Ascending(p, q) == p < q

Better(p, q) == IF side = "buy" THEN p < q ELSE p > q

\* The stable sort: the levels' places in the order of consumption.
Order(f) ==
  \A i, j \in DOMAIN f : i < j =>
    \/ Better(Raw[f[i]].price, Raw[f[j]].price)
    \/ Raw[f[i]].price = Raw[f[j]].price /\ f[i] < f[j]
Sorted == {f \in [1..Cardinality(Liquid) -> Liquid] : Order(f)}

\* EstimateClearing up to its loop.
Sort ==
  /\ pc = "sort"
  /\ \/ /\ ~Positive(want) \/ ~WellFormed \/ Liquid = {}
        /\ Refuse
     \/ /\ Positive(want) /\ WellFormed /\ Liquid # {}
        /\ \E f \in Sorted : levels' = [i \in DOMAIN f |-> Raw[f[i]]]
        /\ remaining' = want /\ worst' = levels'[1].price
        /\ pc' = "walk"
        /\ UNCHANGED <<request, next, cost, filled, estimate>>

Level == levels[next]
Touch == levels[1].price
\* Variant: every level is taken whole.
Take_Whole == Level.size

Take == IF Level.size > remaining THEN remaining ELSE Level.size

\* Variant: one level more than it takes.
More_OneExtra == next <= Len(levels) /\ remaining >= 0

More == next <= Len(levels) /\ remaining > 0

\* One round of the loop.
Walk ==
  /\ pc = "walk" /\ More
  /\ cost' = cost + Level.price * Take
  /\ filled' = filled + Take
  /\ remaining' = remaining - Take
  /\ worst' = Level.price
  /\ next' = next + 1
  /\ UNCHANGED <<pc, request, levels, estimate>>

\* Rat.FloatString: to the nearest step, halves away from zero.
ratString(n, d) ==
  IF n >= 0 THEN (2 * n * Steps + d) \div (2 * d) ELSE -((d - 2 * n * Steps) \div (2 * d))

\* Variant: the sign is not turned for a sell.
Excess_Signed == cost - Touch * filled

\* How much more than at the touch the whole fill cost, or how much less it brought.
Excess == IF side = "buy" THEN cost - Touch * filled ELSE Touch * filled - cost

\* Variant: a book that has been walked to its end has filled the order.
Full_AtTheEnd == next > Len(levels)

Full == remaining <= 0

\* The average divides by filled, which is not zero: there is a level, and its
\* size is positive.
ClearingEstimate ==
  [filled   |-> ratString(filled, 1),
   full     |-> Full,
   average  |-> ratString(cost, filled),
   worst    |-> ratString(worst, 1),
   slippage |-> ratString(Excess * 10000, Touch * filled)]

Finish ==
  /\ pc = "walk" /\ ~More
  /\ estimate' = ClearingEstimate
  /\ pc' = "done"
  /\ UNCHANGED <<request, levels, sums>>

Over == pc \in {"done", "error"} /\ UNCHANGED vars

Next == Read \/ Sort \/ Walk \/ Finish \/ Over

Spec == Init /\ [][Next]_vars

(***************************************************************************)
(* The loop's invariant.                                                   *)
(***************************************************************************)
Levels == [price : Nat \ {0}, size : Nat \ {0}]
Estimates == [filled : Int, full : BOOLEAN, average : Int, worst : Int, slippage : Int]

\* Every variable stays in its type: sizes and prices are never negative.
TypeOK ==
  /\ pc \in {"read", "sort", "walk", "done", "error"}
  /\ side \in {"buy", "sell"} /\ want \in Sizes
  /\ book \in [bids : Seq(PriceLevel), asks : Seq(PriceLevel)]
  /\ levels \in Seq(Levels)
  /\ next \in Nat \ {0} /\ {remaining, cost, filled, worst} \subseteq Nat
  /\ estimate \in Estimates

NoBetter(p, q) == IF side = "buy" THEN p <= q ELSE p >= q

\* The levels are in the order of consumption; what is filled and what remains
\* is what was wanted; and what was paid lies between the touch and the last
\* level's price.
Ordered == \A i, j \in DOMAIN levels : i < j => NoBetter(levels[i].price, levels[j].price)
Accounted ==
  /\ pc \in {"read", "sort"} => next = 1 /\ filled = 0 /\ cost = 0
  /\ pc \in {"walk", "done"} => Positive(want) /\ levels # <<>> /\ filled + remaining = want
  /\ pc \in {"walk", "done"} => IF next = 1 THEN filled = 0 /\ cost = 0
                                 ELSE filled > 0 /\ next <= Len(levels) + 1
  /\ pc = "done" => ~More /\ filled > 0 /\ estimate = ClearingEstimate
Bracketed ==
  pc \in {"walk", "done"} =>
    /\ worst = levels[IF next = 1 THEN 1 ELSE next - 1].price
    /\ NoBetter(Touch * filled, cost) /\ NoBetter(cost, worst * filled)
Walked == TypeOK /\ Ordered /\ Accounted /\ Bracketed

\* The levels are the liquid ones, each once; and the last one that was touched
\* is the only one that may have been taken in part.
SizeTo(n) == SumFunctionOnSet([i \in DOMAIN levels |-> levels[i].size], 1..n)
CostTo(n) == SumFunctionOnSet([i \in DOMAIN levels |-> levels[i].price * levels[i].size], 1..n)
Enumerated ==
  pc \in {"walk", "done"} => \E f \in Sorted : levels = [i \in DOMAIN f |-> Raw[f[i]]]
Consumed ==
  pc \in {"walk", "done"} /\ next > 1 =>
    LET last == next - 1
    IN  /\ SizeTo(last - 1) < filled /\ filled <= SizeTo(last)
        /\ remaining > 0 => filled = SizeTo(last)
        /\ cost = CostTo(last - 1) + levels[last].price * (filled - SizeTo(last - 1))
Exhausted == Walked /\ Enumerated /\ Consumed

(***************************************************************************)
(* What the estimate should be, said of the book and not of the walk.      *)
(***************************************************************************)
Offers == IF side = "buy" THEN book.asks ELSE book.bids
OnOffer == {p \in DOMAIN Offers : /\ Offers[p].price \in Nat \ {0}
                                  /\ Offers[p].size \in Nat \ {0}}
SizeOf(places) == SumFunction([p \in places |-> Offers[p].size])
Fillable == Min({want, SizeOf(OnOffer)})

\* The ways to fill as much as the book can, and what each is worth.
Fills == {take \in [OnOffer -> 0..Fillable] :
            /\ \A p \in OnOffer : take[p] <= Offers[p].size
            /\ SumFunction(take) = Fillable}
Worth(take) == SumFunction([p \in OnOffer |-> take[p] * Offers[p].price])
BestWorth == LET worths == {Worth(take) : take \in Fills}
             IN  IF side = "buy" THEN Min(worths) ELSE Max(worths)

\* restingLevels: a wrong order "would price the order against the wrong levels
\* and quietly report a better fill than exists".  The average is that of the
\* best way there is to fill as much of the order as the book can.
BestFill ==
  pc = "done" => /\ estimate.filled = ratString(Fillable, 1)
                 /\ estimate.average = ratString(BestWorth, Fillable)

\* ClearingEstimate.FullyFilled "is false when the book ran out before the size
\* did", junk levels not counted, and only then.
ThinBookTold == pc = "done" => (estimate.full <=> SizeOf(OnOffer) >= want)

\* WorstPrice is "the far edge of the walk": better offers alone would not have
\* filled the order, and with the offers at that price they do.
WorstIsMarginal ==
  pc = "done" =>
    \E last \in OnOffer :
      LET better == {p \in OnOffer : ~NoBetter(Offers[last].price, Offers[p].price)}
          within == {p \in OnOffer : NoBetter(Offers[p].price, Offers[last].price)}
      IN  /\ estimate.worst = ratString(Offers[last].price, 1)
          /\ SizeOf(better) < Fillable /\ Fillable <= SizeOf(within)

\* SlippageBps is "in the direction that costs the taker", and "Zero when the
\* order fits entirely at the best level"; the printed average lies between the
\* printed touch and the printed worst price, however it was rounded.
SlippageCosts ==
  pc = "done" =>
    /\ estimate.slippage >= 0
    /\ worst = Touch => estimate.slippage = 0
    /\ NoBetter(ratString(Touch, 1), estimate.average)
    /\ NoBetter(estimate.average, estimate.worst)

=============================================================================
