---------------------------- MODULE SumTheorems ----------------------------
(***************************************************************************)
(* Facts about SumFunctionOnSet of the community modules, on finite sets   *)
(* and of natural numbers.  The library's induction theorems take an       *)
(* operator as a parameter; what is used here instead is a set of subsets, *)
(* of which one is minimal.                                                *)
(***************************************************************************)
EXTENDS Integers, FiniteSets, FiniteSetsExt, Functions, FiniteSetTheorems, WellFoundedInduction,
        TLAPS

\* Of any subsets of a finite set one is minimal.
LEMMA MinimalSubset ==
  ASSUME NEW S, IsFiniteSet(S), NEW T \in SUBSET (SUBSET S), T # {}
  PROVE  \E u \in T : \A v \in T : v \subseteq u => v = u
  <1>1. IsWellFoundedOn(StrictSubsetOrdering(S), SUBSET S)
    BY FS_StrictSubsetOrderingWellFounded, FS_FiniteSubsetsOfFinite
  <1>2. PICK u \in T : \A v \in T : ~(<<v, u>> \in StrictSubsetOrdering(S))
    BY <1>1, WFMin
  <1>3. QED
    BY <1>2 DEF StrictSubsetOrdering

\* Induction over a finite set, one element at a time, for a set of subsets.
LEMMA SubsetInduction ==
  ASSUME NEW S, IsFiniteSet(S), NEW Good \in SUBSET (SUBSET S),
         \A U \in SUBSET S : (\A x \in U : U \ {x} \in Good) => U \in Good
  PROVE  S \in Good
  <1>1. SUFFICES ASSUME S \notin Good PROVE FALSE
    OBVIOUS
  <1> DEFINE Bad == (SUBSET S) \ Good
  <1>2. Bad \in SUBSET (SUBSET S) /\ S \in Bad
    BY <1>1
  <1>3. PICK u \in Bad : \A v \in Bad : v \subseteq u => v = u
    <2> HIDE DEF Bad
    <2> QED
      BY <1>2, MinimalSubset
  <1>4. \A x \in u : u \ {x} \in Good
    BY <1>3
  <1>5. QED
    BY <1>3, <1>4

\* The same with a case for the empty set.
LEMMA SetInduction ==
  ASSUME NEW S, IsFiniteSet(S), NEW Good \in SUBSET (SUBSET S), {} \in Good,
         \A U \in SUBSET S : \A x \in U : U \ {x} \in Good => U \in Good
  PROVE  S \in Good
  <1>1. \A U \in SUBSET S : (\A x \in U : U \ {x} \in Good) => U \in Good
    OBVIOUS
  <1>2. QED
    BY <1>1, SubsetInduction

\* Induction over the numbers up to a bound, for a set of numbers.
LEMMA NumberInduction ==
  ASSUME NEW n \in Nat, NEW Good \in SUBSET (0..n), 0 \in Good,
         \A k \in 0..n - 1 : k \in Good => k + 1 \in Good
  PROVE  n \in Good
  <1>1. SUFFICES ASSUME n \notin Good PROVE FALSE
    OBVIOUS
  <1> DEFINE Bad == {0..k : k \in (0..n) \ Good}
  <1> DEFINE Up == 0..n
  <1>2. IsFiniteSet(Up)
    BY FS_Interval
  <1>3. PICK u \in Bad : \A v \in Bad : v \subseteq u => v = u
    <2>1. \A k \in (0..n) \ Good : 0..k \subseteq Up
      OBVIOUS
    <2>2. Bad \in SUBSET (SUBSET Up)
      BY <2>1
    <2>3. Bad # {}
      BY <1>1
    <2> HIDE DEF Bad, Up
    <2>4. QED
      BY <1>2, <2>2, <2>3, MinimalSubset
  <1>4. PICK k \in (0..n) \ Good : u = 0..k
    BY <1>3
  <1>5. k # 0 /\ k - 1 \in 0..n - 1 /\ 0..k - 1 \subseteq 0..k /\ k \notin 0..k - 1 /\ k \in 0..k
    BY <1>4
  <1>6. k - 1 \notin Good
    BY <1>4, <1>5
  <1>7. 0..k - 1 \in Bad
    BY <1>5, <1>6
  <1>8. QED
    BY <1>3, <1>4, <1>5, <1>7

\* A sum over S, as a recursive function on its subsets that takes the elements
\* one by one.
Choice(U) == CHOOSE x \in U : TRUE
SumRule(f, U, g) == IF U = {} THEN 0 ELSE f[Choice(U)] + g[U \ {Choice(U)}]
Iter(f, S) == CHOOSE g : g = [U \in SUBSET S |-> SumRule(f, U, g)]

\* The fold of the community modules is that recursive function.
LEMMA SumIsIter == \A f, S : SumFunctionOnSet(f, S) = Iter(f, S)[S]
  BY DEF SumFunctionOnSet, FoldFunctionOnSet, MapThenFoldSet, Iter, SumRule, Choice

\* The recursive function exists: it is built up by the number of elements.
LEMMA IterExists ==
  ASSUME NEW S, IsFiniteSet(S), NEW f
  PROVE  \E g : g = [U \in SUBSET S |-> SumRule(f, U, g)]
  <1> DEFINE Small(n) == {U \in SUBSET S : Cardinality(U) <= n}
             Partial(n, g) == g = [U \in Small(n) |-> SumRule(f, U, g)]
             Good == {n \in 0..Cardinality(S) : \E g : Partial(n, g)}
  <1>1. \A U \in SUBSET S : /\ Cardinality(U) \in 0..Cardinality(S)
                            /\ Cardinality(U) = 0 <=> U = {}
                            /\ \A x \in U : Cardinality(U \ {x}) = Cardinality(U) - 1
    BY FS_Subset, FS_CardinalityType, FS_EmptySet, FS_RemoveElement
  <1>2. Cardinality(S) \in Nat
    BY FS_CardinalityType
  <1>3. 0 \in Good
    <2> DEFINE h == [U \in Small(0) |-> 0]
    <2>1. \A U \in Small(0) : U = {}
      BY <1>1
    <2>2. Partial(0, h)
      BY <2>1 DEF SumRule
    <2>3. \E g : Partial(0, g)
      BY <2>2
    <2> HIDE DEF Partial
    <2>4. QED
      BY <1>2, <2>3
  <1>4. ASSUME NEW n \in 0..Cardinality(S) - 1, n \in Good PROVE n + 1 \in Good
    <2>1. PICK g : Partial(n, g)
      BY <1>4
    <2> DEFINE h == [U \in Small(n + 1) |-> SumRule(f, U, g)]
    <2>2. ASSUME NEW U \in Small(n + 1) PROVE SumRule(f, U, g) = SumRule(f, U, h)
      <3>1. CASE U = {}
        BY <3>1 DEF SumRule
      <3>2. CASE U # {}
        <4> DEFINE V == U \ {Choice(U)}
        <4>1. Choice(U) \in U
          BY <3>2 DEF Choice
        <4>2. V \in Small(n) /\ V \in Small(n + 1)
          BY <1>1, <1>2, <4>1
        <4>3. g[V] = SumRule(f, V, g) /\ h[V] = SumRule(f, V, g)
          BY <2>1, <4>2
        <4>4. QED
          BY <3>2, <4>3 DEF SumRule
      <3>3. QED
        BY <3>1, <3>2
    <2>3. Partial(n + 1, h)
      BY <2>2
    <2>4. \E k : Partial(n + 1, k)
      BY <2>3
    <2> HIDE DEF Partial
    <2>5. QED
      BY <1>2, <2>4
  <1>5. Cardinality(S) \in Good
    <2> HIDE DEF Good
    <2>1. Good \in SUBSET (0..Cardinality(S))
      BY DEF Good
    <2>2. QED
      BY <1>2, <1>3, <1>4, <2>1, NumberInduction
  <1>6. Small(Cardinality(S)) = SUBSET S
    BY <1>1
  <1>7. QED
    BY <1>5, <1>6

\* Hence it obeys its own rule.
LEMMA IterUnfold ==
  ASSUME NEW S, IsFiniteSet(S), NEW f, NEW U \in SUBSET S
  PROVE  Iter(f, S)[U] = SumRule(f, U, Iter(f, S))
  <1>1. Iter(f, S) = [V \in SUBSET S |-> SumRule(f, V, Iter(f, S))]
    BY IterExists DEF Iter
  <1>2. QED
    BY <1>1

\* What a set sums to does not depend on the set that it is a part of.
LEMMA IterLocal ==
  ASSUME NEW S, IsFiniteSet(S), NEW f, NEW T \in SUBSET S
  PROVE  Iter(f, S)[T] = Iter(f, T)[T]
  <1> DEFINE Good == {U \in SUBSET T : Iter(f, S)[U] = Iter(f, T)[U]}
  <1>1. IsFiniteSet(T)
    BY FS_Subset
  <1>2. ASSUME NEW U \in SUBSET T, \A x \in U : U \ {x} \in Good PROVE U \in Good
    <2>1. /\ Iter(f, S)[U] = SumRule(f, U, Iter(f, S))
          /\ Iter(f, T)[U] = SumRule(f, U, Iter(f, T))
      BY <1>1, IterUnfold
    <2>2. CASE U = {}
      BY <2>1, <2>2 DEF SumRule
    <2>3. CASE U # {}
      <3>1. Choice(U) \in U
        BY <2>3 DEF Choice
      <3>2. Iter(f, S)[U \ {Choice(U)}] = Iter(f, T)[U \ {Choice(U)}]
        BY <1>2, <3>1
      <3>3. QED
        BY <2>1, <2>3, <3>2 DEF SumRule
    <2>4. QED
      BY <2>2, <2>3
  <1>3. T \in Good
    <2> HIDE DEF Good
    <2>1. Good \in SUBSET (SUBSET T)
      BY DEF Good
    <2>2. QED
      BY <1>1, <1>2, <2>1, SubsetInduction
  <1>4. QED
    BY <1>3

\* The sum takes its elements one by one, in an order of its own.
LEMMA SumUnfold ==
  ASSUME NEW S, IsFiniteSet(S), NEW f
  PROVE  IF S = {} THEN SumFunctionOnSet(f, S) = 0
         ELSE /\ Choice(S) \in S
              /\ SumFunctionOnSet(f, S) = f[Choice(S)] + SumFunctionOnSet(f, S \ {Choice(S)})
  <1>1. SumFunctionOnSet(f, S) = SumRule(f, S, Iter(f, S))
    BY IterUnfold, SumIsIter
  <1>2. CASE S = {}
    BY <1>1, <1>2 DEF SumRule
  <1>3. CASE S # {}
    <2>1. Choice(S) \in S
      BY <1>3 DEF Choice
    <2>2. SumFunctionOnSet(f, S \ {Choice(S)}) = Iter(f, S)[S \ {Choice(S)}]
      BY IterLocal, SumIsIter
    <2>3. QED
      BY <1>1, <1>3, <2>1, <2>2 DEF SumRule
  <1>4. QED
    BY <1>2, <1>3

\* A sum of natural numbers is one.
LEMMA SumTyped ==
  ASSUME NEW S, IsFiniteSet(S), NEW f, \A x \in S : f[x] \in Nat
  PROVE  \A U \in SUBSET S : SumFunctionOnSet(f, U) \in Nat
  <1> DEFINE Sum(U) == SumFunctionOnSet(f, U)
  <1>1. SUFFICES ASSUME NEW T \in SUBSET S PROVE Sum(T) \in Nat
    OBVIOUS
  <1> DEFINE Good == {U \in SUBSET T : Sum(U) \in Nat}
  <1>2. ASSUME NEW U \in SUBSET T, \A x \in U : U \ {x} \in Good PROVE Sum(U) \in Nat
    <2>1. IF U = {} THEN Sum(U) = 0
          ELSE Choice(U) \in U /\ Sum(U) = f[Choice(U)] + Sum(U \ {Choice(U)})
      BY SumUnfold, FS_Subset
    <2> HIDE DEF Sum
    <2>2. QED
      BY <1>2, <2>1
  <1>3. T \in Good
    <2>1. Good \in SUBSET (SUBSET T) /\ IsFiniteSet(T)
      BY FS_Subset
    <2>2. \A U \in SUBSET T : (\A x \in U : U \ {x} \in Good) => U \in Good
      BY <1>2
    <2> HIDE DEF Good
    <2>3. QED
      BY <2>1, <2>2, SubsetInduction
  <1>4. QED
    BY <1>3

\* Any element may be taken first.
LEMMA SumTake ==
  ASSUME NEW S, IsFiniteSet(S), NEW f, \A x \in S : f[x] \in Nat
  PROVE  /\ SumFunctionOnSet(f, {}) = 0
         /\ \A U \in SUBSET S : \A x \in U :
              SumFunctionOnSet(f, U) = f[x] + SumFunctionOnSet(f, U \ {x})
  <1> DEFINE Sum(U) == SumFunctionOnSet(f, U)
  <1>1. Sum({}) = 0
    BY SumUnfold, FS_EmptySet
  <1>2. SUFFICES ASSUME NEW T \in SUBSET S PROVE \A x \in T : Sum(T) = f[x] + Sum(T \ {x})
    BY <1>1
  <1>3. \A U \in SUBSET S : Sum(U) \in Nat
    BY SumTyped
  <1> DEFINE Good == {U \in SUBSET T : \A x \in U : Sum(U) = f[x] + Sum(U \ {x})}
  <1>4. ASSUME NEW U \in SUBSET T, \A x \in U : U \ {x} \in Good, NEW x \in U
        PROVE  Sum(U) = f[x] + Sum(U \ {x})
    <2> DEFINE c == Choice(U)
    <2>1. c \in U /\ Sum(U) = f[c] + Sum(U \ {c})
      BY SumUnfold, FS_Subset
    <2> HIDE DEF Sum, c
    <2>2. CASE x = c
      BY <2>1, <2>2
    <2>3. CASE x # c
      <3>1. (U \ {c}) \ {x} = (U \ {x}) \ {c} /\ x \in U \ {c} /\ c \in U \ {x}
        BY <2>1, <2>3
      <3>2. /\ Sum(U \ {c}) = f[x] + Sum((U \ {c}) \ {x})
            /\ Sum(U \ {x}) = f[c] + Sum((U \ {x}) \ {c})
        BY <1>4, <2>1, <3>1
      <3>3. f[x] \in Nat /\ f[c] \in Nat /\ Sum((U \ {c}) \ {x}) \in Nat
        BY <1>3, <2>1
      <3>4. Sum((U \ {x}) \ {c}) = Sum((U \ {c}) \ {x})
        BY <3>1
      <3>5. QED
        BY <2>1, <3>2, <3>3, <3>4
    <2>4. QED
      BY <2>2, <2>3
  <1>5. T \in Good
    <2>1. Good \in SUBSET (SUBSET T) /\ IsFiniteSet(T)
      BY FS_Subset
    <2>2. \A U \in SUBSET T : (\A x \in U : U \ {x} \in Good) => U \in Good
      BY <1>4
    <2> HIDE DEF Good
    <2>3. QED
      BY <2>1, <2>2, SubsetInduction
  <1>6. QED
    BY <1>5

\* What is equal element by element has the same sum.
LEMMA SumSame ==
  ASSUME NEW S, IsFiniteSet(S), NEW f, NEW g, \A x \in S : f[x] \in Nat /\ g[x] = f[x]
  PROVE  SumFunctionOnSet(f, S) = SumFunctionOnSet(g, S)
  <1> DEFINE F(U) == SumFunctionOnSet(f, U)
             G(U) == SumFunctionOnSet(g, U)
             Good == {U \in SUBSET S : F(U) = G(U)}
  <1>1. /\ F({}) = 0 /\ \A U \in SUBSET S : \A x \in U : F(U) = f[x] + F(U \ {x})
        /\ G({}) = 0 /\ \A U \in SUBSET S : \A x \in U : G(U) = g[x] + G(U \ {x})
    BY SumTake
  <1> HIDE DEF F, G
  <1>2. ASSUME NEW U \in SUBSET S, NEW x \in U, F(U \ {x}) = G(U \ {x})
        PROVE  F(U) = G(U)
    <2>1. U \ {x} \in SUBSET S /\ x \in S
      OBVIOUS
    <2>2. QED
      BY <1>1, <1>2, <2>1
  <1>3. /\ Good \in SUBSET (SUBSET S) /\ {} \in Good
        /\ \A U \in SUBSET S : \A x \in U : U \ {x} \in Good => U \in Good
    BY <1>1, <1>2
  <1>4. S \in Good
    <2> HIDE DEF Good
    <2> QED
      BY <1>3, SetInduction
  <1>5. QED
    BY <1>4 DEF F, G

\* A sum of sums, element by element, is the sum of the two.
LEMMA SumPlus ==
  ASSUME NEW S, IsFiniteSet(S), NEW f, NEW g, NEW h,
         \A x \in S : f[x] \in Nat /\ g[x] \in Nat /\ h[x] = f[x] + g[x]
  PROVE  SumFunctionOnSet(h, S) = SumFunctionOnSet(f, S) + SumFunctionOnSet(g, S)
  <1> DEFINE F(U) == SumFunctionOnSet(f, U)
             G(U) == SumFunctionOnSet(g, U)
             H(U) == SumFunctionOnSet(h, U)
             Good == {U \in SUBSET S : H(U) = F(U) + G(U)}
  <1>1. /\ F({}) = 0 /\ \A U \in SUBSET S : \A x \in U : F(U) = f[x] + F(U \ {x})
        /\ G({}) = 0 /\ \A U \in SUBSET S : \A x \in U : G(U) = g[x] + G(U \ {x})
        /\ H({}) = 0 /\ \A U \in SUBSET S : \A x \in U : H(U) = h[x] + H(U \ {x})
        /\ \A U \in SUBSET S : F(U) \in Nat /\ G(U) \in Nat
    BY SumTake, SumTyped
  <1> HIDE DEF F, G, H
  <1>2. ASSUME NEW U \in SUBSET S, NEW x \in U, H(U \ {x}) = F(U \ {x}) + G(U \ {x})
        PROVE  H(U) = F(U) + G(U)
    <2>1. U \ {x} \in SUBSET S /\ x \in S
      OBVIOUS
    <2>2. /\ F(U) = f[x] + F(U \ {x}) /\ G(U) = g[x] + G(U \ {x}) /\ H(U) = h[x] + H(U \ {x})
          /\ F(U \ {x}) \in Nat /\ G(U \ {x}) \in Nat
          /\ f[x] \in Nat /\ g[x] \in Nat /\ h[x] = f[x] + g[x]
      BY <1>1, <2>1
    <2>3. QED
      BY <1>2, <2>2
  <1>3. /\ Good \in SUBSET (SUBSET S) /\ {} \in Good
        /\ \A U \in SUBSET S : \A x \in U : U \ {x} \in Good => U \in Good
    BY <1>1, <1>2
  <1>4. S \in Good
    <2> HIDE DEF Good
    <2> QED
      BY <1>3, SetInduction
  <1>5. QED
    BY <1>4 DEF F, G, H

\* A common factor may be taken out.
LEMMA SumTimes ==
  ASSUME NEW S, IsFiniteSet(S), NEW f, NEW h, NEW c \in Nat,
         \A x \in S : f[x] \in Nat /\ h[x] = c * f[x]
  PROVE  SumFunctionOnSet(h, S) = c * SumFunctionOnSet(f, S)
  <1> DEFINE F(U) == SumFunctionOnSet(f, U)
             H(U) == SumFunctionOnSet(h, U)
             Good == {U \in SUBSET S : H(U) = c * F(U)}
  <1>0. \A x \in S : h[x] \in Nat
    <2>1. \A n \in Nat : c * n \in Nat
      OBVIOUS
    <2>2. QED
      BY <2>1
  <1>1. /\ F({}) = 0 /\ \A U \in SUBSET S : \A x \in U : F(U) = f[x] + F(U \ {x})
        /\ H({}) = 0 /\ \A U \in SUBSET S : \A x \in U : H(U) = h[x] + H(U \ {x})
        /\ \A U \in SUBSET S : F(U) \in Nat
    <2>1. F({}) = 0 /\ \A U \in SUBSET S : \A x \in U : F(U) = f[x] + F(U \ {x})
      BY SumTake
    <2>2. H({}) = 0 /\ \A U \in SUBSET S : \A x \in U : H(U) = h[x] + H(U \ {x})
      BY <1>0, SumTake
    <2>3. \A U \in SUBSET S : F(U) \in Nat
      BY SumTyped
    <2>4. QED
      BY <2>1, <2>2, <2>3
  <1> HIDE DEF F, H
  <1>2. \A m, n \in Nat : c * (m + n) = c * m + c * n
    OBVIOUS
  <1>3. ASSUME NEW U \in SUBSET S, \A x \in U : U \ {x} \in Good PROVE H(U) = c * F(U)
    <2>1. CASE U = {}
      BY <1>1, <2>1
    <2>2. ASSUME NEW x \in U PROVE H(U) = c * F(U)
      <3>1. H(U) = c * f[x] + c * F(U \ {x}) /\ F(U) = f[x] + F(U \ {x})
        BY <1>1, <1>3
      <3>2. QED
        BY <1>1, <1>2, <3>1
    <2>3. QED
      BY <2>1, <2>2
  <1>4. S \in Good
    <2>1. \A U \in SUBSET S : (\A x \in U : U \ {x} \in Good) => U \in Good
      BY <1>3
    <2>2. Good \in SUBSET (SUBSET S)
      OBVIOUS
    <2> HIDE DEF Good
    <2> QED
      BY <2>1, <2>2, SubsetInduction
  <1>5. QED
    BY <1>4 DEF F, H

\* What is no greater, element by element, has no greater sum.
LEMMA SumMonotone ==
  ASSUME NEW S, IsFiniteSet(S), NEW f, NEW g,
         \A x \in S : f[x] \in Nat /\ g[x] \in Nat /\ f[x] <= g[x]
  PROVE  SumFunctionOnSet(f, S) <= SumFunctionOnSet(g, S)
  <1> DEFINE F(U) == SumFunctionOnSet(f, U)
             G(U) == SumFunctionOnSet(g, U)
             Good == {U \in SUBSET S : F(U) <= G(U)}
  <1>1. /\ F({}) = 0 /\ \A U \in SUBSET S : \A x \in U : F(U) = f[x] + F(U \ {x})
        /\ G({}) = 0 /\ \A U \in SUBSET S : \A x \in U : G(U) = g[x] + G(U \ {x})
        /\ \A U \in SUBSET S : F(U) \in Nat /\ G(U) \in Nat
    BY SumTake, SumTyped
  <1> HIDE DEF F, G
  <1>2. ASSUME NEW U \in SUBSET S, NEW x \in U, F(U \ {x}) <= G(U \ {x})
        PROVE  F(U) <= G(U)
    <2>1. U \ {x} \in SUBSET S /\ x \in S
      OBVIOUS
    <2>2. QED
      BY <1>1, <1>2, <2>1
  <1>3. /\ Good \in SUBSET (SUBSET S) /\ {} \in Good
        /\ \A U \in SUBSET S : \A x \in U : U \ {x} \in Good => U \in Good
    BY <1>1, <1>2
  <1>4. S \in Good
    <2> HIDE DEF Good
    <2> QED
      BY <1>3, SetInduction
  <1>5. QED
    BY <1>4 DEF F, G

\* A part sums to no more than the whole.
LEMMA SumPart ==
  ASSUME NEW S, IsFiniteSet(S), NEW f, \A x \in S : f[x] \in Nat, NEW T \in SUBSET S
  PROVE  SumFunctionOnSet(f, T) <= SumFunctionOnSet(f, S)
  <1> DEFINE Sum(U) == SumFunctionOnSet(f, U)
             Good == {U \in SUBSET S : Sum(U \cap T) <= Sum(U)}
  <1>1. /\ Sum({}) = 0 /\ \A U \in SUBSET S : \A x \in U : Sum(U) = f[x] + Sum(U \ {x})
        /\ \A U \in SUBSET S : Sum(U) \in Nat
    BY SumTake, SumTyped
  <1> HIDE DEF Sum
  <1>2. ASSUME NEW U \in SUBSET S, \A x \in U : U \ {x} \in Good PROVE Sum(U \cap T) <= Sum(U)
    <2>1. CASE U = {}
      BY <1>1, <2>1
    <2>2. ASSUME NEW x \in U PROVE Sum(U \cap T) <= Sum(U)
      <3>1. Sum((U \ {x}) \cap T) <= Sum(U \ {x}) /\ Sum(U) = f[x] + Sum(U \ {x})
        BY <1>1, <1>2
      <3>2. CASE x \in T
        <4>1. (U \cap T) \ {x} = (U \ {x}) \cap T /\ x \in U \cap T
          BY <3>2
        <4>2. Sum(U \cap T) = f[x] + Sum((U \ {x}) \cap T)
          BY <1>1, <4>1
        <4>3. QED
          BY <1>1, <3>1, <4>2
      <3>3. CASE x \notin T
        <4>1. (U \ {x}) \cap T = U \cap T
          BY <3>3
        <4>2. Sum((U \ {x}) \cap T) = Sum(U \cap T)
          BY <4>1
        <4>3. f[x] \in Nat /\ Sum(U \ {x}) \in Nat /\ Sum(U \cap T) \in Nat
          BY <1>1
        <4>4. QED
          BY <3>1, <4>2, <4>3
      <3>4. QED
        BY <3>2, <3>3
    <2>3. QED
      BY <2>1, <2>2
  <1>3. S \in Good
    <2>1. \A U \in SUBSET S : (\A x \in U : U \ {x} \in Good) => U \in Good
      BY <1>2
    <2>2. Good \in SUBSET (SUBSET S)
      OBVIOUS
    <2> HIDE DEF Good
    <2> QED
      BY <2>1, <2>2, SubsetInduction
  <1>4. S \cap T = T
    OBVIOUS
  <1>5. QED
    BY <1>3, <1>4 DEF Sum

\* What the places of an enumeration sum to, its elements do.
LEMMA SumPlaces ==
  ASSUME NEW I, IsFiniteSet(I), NEW S, IsFiniteSet(S), NEW m \in [I -> S],
         \A i, j \in I : m[i] = m[j] => i = j,
         NEW f, NEW g, \A i \in I : f[i] = g[m[i]], \A x \in S : g[x] \in Nat
  PROVE  SumFunctionOnSet(f, I) = SumFunctionOnSet(g, {m[i] : i \in I})
  <1> DEFINE F(U) == SumFunctionOnSet(f, U)
             G(U) == SumFunctionOnSet(g, U)
             To(U) == {m[i] : i \in U}
             Good == {U \in SUBSET I : F(U) = G(To(U))}
  <1>1. /\ F({}) = 0 /\ \A U \in SUBSET I : \A x \in U : F(U) = f[x] + F(U \ {x})
        /\ G({}) = 0 /\ \A U \in SUBSET S : \A x \in U : G(U) = g[x] + G(U \ {x})
    <2>1. \A i \in I : f[i] \in Nat
      OBVIOUS
    <2>2. QED
      BY <2>1, SumTake
  <1> HIDE DEF F, G
  <1>2. ASSUME NEW U \in SUBSET I, \A i \in U : U \ {i} \in Good PROVE F(U) = G(To(U))
    <2>1. CASE U = {}
      BY <1>1, <2>1
    <2>2. ASSUME NEW i \in U PROVE F(U) = G(To(U))
      <3>1. To(U) \in SUBSET S /\ m[i] \in To(U) /\ To(U \ {i}) = To(U) \ {m[i]}
        OBVIOUS
      <3>2. F(U) = f[i] + F(U \ {i}) /\ F(U \ {i}) = G(To(U \ {i}))
        BY <1>1, <1>2
      <3>3. G(To(U)) = g[m[i]] + G(To(U) \ {m[i]})
        BY <1>1, <3>1
      <3>4. QED
        BY <3>1, <3>2, <3>3
    <2>3. QED
      BY <2>1, <2>2
  <1>3. I \in Good
    <2>1. \A U \in SUBSET I : (\A x \in U : U \ {x} \in Good) => U \in Good
      BY <1>2
    <2>2. Good \in SUBSET (SUBSET I)
      OBVIOUS
    <2> HIDE DEF Good
    <2> QED
      BY <2>1, <2>2, SubsetInduction
  <1>4. QED
    BY <1>3 DEF F, G

\* What a set sums to, if the rest of it is nothing.
LEMMA SumOutside ==
  ASSUME NEW S, IsFiniteSet(S), NEW f, \A x \in S : f[x] \in Nat, NEW T \in SUBSET S,
         \A x \in S \ T : f[x] = 0
  PROVE  SumFunctionOnSet(f, S) = SumFunctionOnSet(f, T)
  <1> DEFINE Sum(U) == SumFunctionOnSet(f, U)
             Good == {U \in SUBSET S : Sum(U \cap T) = Sum(U)}
  <1>1. /\ Sum({}) = 0 /\ \A U \in SUBSET S : \A x \in U : Sum(U) = f[x] + Sum(U \ {x})
        /\ \A U \in SUBSET S : Sum(U) \in Nat
    BY SumTake, SumTyped
  <1> HIDE DEF Sum
  <1>2. ASSUME NEW U \in SUBSET S, NEW x \in U, Sum((U \ {x}) \cap T) = Sum(U \ {x})
        PROVE  Sum(U \cap T) = Sum(U)
    <2>1. Sum(U) = f[x] + Sum(U \ {x}) /\ Sum(U \ {x}) \in Nat
      BY <1>1
    <2>2. CASE x \in T
      <3>1. (U \cap T) \ {x} = (U \ {x}) \cap T /\ x \in U \cap T
        BY <2>2
      <3>2. Sum(U \cap T) = f[x] + Sum((U \ {x}) \cap T)
        BY <1>1, <3>1
      <3>3. QED
        BY <1>2, <2>1, <3>2
    <2>3. CASE x \notin T
      <3>1. (U \ {x}) \cap T = U \cap T
        BY <2>3
      <3>2. Sum((U \ {x}) \cap T) = Sum(U \cap T)
        BY <3>1
      <3>3. QED
        BY <1>2, <2>1, <2>3, <3>2
    <2>4. QED
      BY <2>2, <2>3
  <1>3. S \in Good
    <2>1. {} \in Good
      OBVIOUS
    <2>2. \A U \in SUBSET S : \A x \in U : U \ {x} \in Good => U \in Good
      BY <1>2
    <2>3. Good \in SUBSET (SUBSET S)
      OBVIOUS
    <2> HIDE DEF Good
    <2>4. QED
      BY <2>1, <2>2, <2>3, SetInduction
  <1>4. S \cap T = T
    OBVIOUS
  <1>5. QED
    BY <1>3, <1>4 DEF Sum

\* The sum of the first n places.
LEMMA SumPrefix ==
  ASSUME NEW m \in Nat, NEW f, \A i \in 1..m : f[i] \in Nat
  PROVE  /\ SumFunctionOnSet(f, 1..0) = 0
         /\ \A n \in 0..m : SumFunctionOnSet(f, 1..n) \in Nat
         /\ \A n \in 1..m : SumFunctionOnSet(f, 1..n) = SumFunctionOnSet(f, 1..n - 1) + f[n]
         /\ \A n \in 0..m : SumFunctionOnSet(f, 1..n) <= SumFunctionOnSet(f, 1..m)
  <1> DEFINE S == 1..m
             Sum(U) == SumFunctionOnSet(f, U)
  <1>1. IsFiniteSet(S)
    BY FS_Interval
  <1>2. \A n \in 0..m : 1..n \in SUBSET S
    OBVIOUS
  <1>3. /\ Sum({}) = 0 /\ \A U \in SUBSET S : \A x \in U : Sum(U) = f[x] + Sum(U \ {x})
        /\ \A U \in SUBSET S : Sum(U) \in Nat
    <2>1. \A x \in S : f[x] \in Nat
      OBVIOUS
    <2> HIDE DEF S
    <2>2. QED
      BY <1>1, <2>1, SumTake, SumTyped
  <1>4. \A U \in SUBSET S : Sum(U) <= Sum(S)
    <2>1. \A x \in S : f[x] \in Nat
      OBVIOUS
    <2> HIDE DEF S
    <2>2. QED
      BY <1>1, <2>1, SumPart
  <1>5. 1..0 = {} /\ \A n \in 1..m : (1..n) \ {n} = 1..n - 1 /\ n - 1 \in 0..m /\ n \in 0..m
    OBVIOUS
  <1> HIDE DEF Sum
  <1>6. ASSUME NEW n \in 1..m PROVE Sum(1..n) = Sum(1..n - 1) + f[n]
    <2>1. 1..n \in SUBSET S /\ n \in 1..n /\ 1..n - 1 \in SUBSET S
      BY <1>2, <1>5
    <2>2. Sum(1..n) = f[n] + Sum((1..n) \ {n})
      BY <1>3, <2>1
    <2>3. Sum((1..n) \ {n}) = Sum(1..n - 1)
      BY <1>5
    <2>4. Sum(1..n - 1) \in Nat /\ f[n] \in Nat
      BY <1>3, <2>1
    <2>5. QED
      BY <2>2, <2>3, <2>4
  <1>7. Sum(1..0) = 0
    BY <1>3, <1>5
  <1>8. \A n \in 0..m : Sum(1..n) \in Nat /\ Sum(1..n) <= Sum(1..m)
    BY <1>2, <1>3, <1>4
  <1>9. QED
    BY <1>6, <1>7, <1>8 DEF Sum

=============================================================================
