----------------------------- MODULE Sums_proofs -----------------------------
(***************************************************************************)
(* The sum FoldFunction(+, 0, f) of a function from a finite set to the    *)
(* naturals.  The fold picks the elements in an order of its own; counting *)
(* the pairs <<x, i>> with i in 1..f[x] gives the same number without an   *)
(* order, and the theorems about cardinalities do the rest.                *)
(***************************************************************************)
EXTENDS Functions, FiniteSetTheorems, WellFoundedInduction, TLAPS

Sum(f) == FoldFunction(+, 0, f)

Any(s) == CHOOSE x \in s : TRUE

Units(f, T) == {u \in T \X Nat : u[2] \in 1..f[u[1]]}
Count(f, T) == Cardinality(Units(f, T))

\* The equation that the fold's recursion solves.
Folds(g, f, S) ==
  g = [s \in SUBSET S |-> IF s = {} THEN 0 ELSE f[Any(s)] + g[s \ {Any(s)}]]

LEMMA SumDef ==
  ASSUME NEW f
  PROVE  Sum(f) = (CHOOSE g : Folds(g, f, DOMAIN f))[DOMAIN f]
BY DEF Sum, FoldFunction, FoldFunctionOnSet, MapThenFoldSet, Any, Folds

\* Of the subsets of a finite set that have some fault, one is minimal.
LEMMA MinimalSubset ==
  ASSUME NEW S, IsFiniteSet(S), NEW Bad \in SUBSET SUBSET S, Bad # {}
  PROVE  \E T \in Bad : \A U \in Bad : ~(U \subseteq T /\ U # T)
<1>1. IsWellFoundedOn(StrictSubsetOrdering(S), SUBSET S)
  BY FS_StrictSubsetOrderingWellFounded, FS_FiniteSubsetsOfFinite
<1>2. \E T \in Bad : \A U \in Bad : ~(<<U, T>> \in StrictSubsetOrdering(S))
  <2> HIDE DEF StrictSubsetOrdering
  <2> QED
    BY <1>1, WFMin
<1> QED
  BY <1>2 DEF StrictSubsetOrdering

\* An element adds as many pairs as its value.
LEMMA UnitsOfElement ==
  ASSUME NEW S, NEW f \in [S -> Nat], NEW T \in SUBSET S, NEW x \in T,
         IsFiniteSet(Units(f, T \ {x}))
  PROVE  IsFiniteSet(Units(f, T)) /\ Count(f, T) = Count(f, T \ {x}) + f[x]
<1> DEFINE new == {x} \X (1..f[x])
<1>1. f[x] \in Nat
  OBVIOUS
<1>2. Units(f, T) = Units(f, T \ {x}) \union new
  <2>1. ASSUME NEW u \in Units(f, T)
        PROVE  u \in Units(f, T \ {x}) \union new
    BY DEF Units
  <2>2. ASSUME NEW u \in Units(f, T \ {x})
        PROVE  u \in Units(f, T)
    BY DEF Units
  <2>3. ASSUME NEW u \in new
        PROVE  u \in Units(f, T)
    BY <1>1 DEF Units
  <2> QED
    BY <2>1, <2>2, <2>3
<1>3. Units(f, T \ {x}) \intersect new = {}
  BY DEF Units
<1>4. IsFiniteSet(new) /\ Cardinality(new) = f[x]
  <2>1. IsFiniteSet({x}) /\ Cardinality({x}) = 1
    BY FS_Singleton
  <2>2. IsFiniteSet(1..f[x]) /\ Cardinality(1..f[x]) = f[x]
    BY <1>1, FS_Interval
  <2>3. IsFiniteSet(new) /\ Cardinality(new) = 1 * f[x]
    BY <2>1, <2>2, FS_Product
  <2> QED
    BY <1>1, <2>3
<1> HIDE DEF new
<1>5. /\ IsFiniteSet(Units(f, T))
      /\ Cardinality(Units(f, T)) =
           Cardinality(Units(f, T \ {x})) + Cardinality(new)
             - Cardinality(Units(f, T \ {x}) \intersect new)
  BY <1>2, <1>4, FS_Union
<1>6. Cardinality(Units(f, T \ {x})) \in Nat
  BY FS_CardinalityType
<1>7. Cardinality(Units(f, T \ {x}) \intersect new) = 0
  BY <1>3, FS_EmptySet
<1>8. Cardinality(Units(f, T)) = Cardinality(Units(f, T \ {x})) + f[x]
  BY <1>1, <1>4, <1>5, <1>6, <1>7
<1> QED
  BY <1>5, <1>8 DEF Count

LEMMA UnitsOfNothing ==
  ASSUME NEW f
  PROVE  IsFiniteSet(Units(f, {})) /\ Count(f, {}) = 0
<1>1. Units(f, {}) = {}
  BY DEF Units
<1> QED
  BY <1>1, FS_EmptySet DEF Count

LEMMA UnitsFinite ==
  ASSUME NEW S, IsFiniteSet(S), NEW f \in [S -> Nat], NEW T \in SUBSET S
  PROVE  IsFiniteSet(Units(f, T))
<1> DEFINE Bad == {U \in SUBSET S : ~IsFiniteSet(Units(f, U))}
<1>1. SUFFICES ASSUME Bad # {} PROVE FALSE
  OBVIOUS
<1>2. PICK U \in Bad : \A V \in Bad : ~(V \subseteq U /\ V # U)
  <2>1. Bad \in SUBSET SUBSET S
    OBVIOUS
  <2> HIDE DEF Bad
  <2> QED
    BY <1>1, <2>1, MinimalSubset
<1>3. PICK x \in U : TRUE
  BY <1>2, UnitsOfNothing
<1>4. U \ {x} \notin Bad /\ U \ {x} \in SUBSET S
  BY <1>2, <1>3
<1> QED
  BY <1>2, <1>3, <1>4, UnitsOfElement

\* The sum counts the pairs.
LEMMA SumCounts ==
  ASSUME NEW S, IsFiniteSet(S), NEW f \in [S -> Nat]
  PROVE  Sum(f) = Count(f, S)
<1> DEFINE c == [s \in SUBSET S |-> Count(f, s)]
<1>1. \A s \in SUBSET S : s # {} =>
        /\ Any(s) \in s /\ s \ {Any(s)} \in SUBSET S
        /\ Count(f, s) = f[Any(s)] + Count(f, s \ {Any(s)})
  <2> SUFFICES ASSUME NEW s \in SUBSET S, s # {}
               PROVE  /\ Any(s) \in s /\ s \ {Any(s)} \in SUBSET S
                      /\ Count(f, s) = f[Any(s)] + Count(f, s \ {Any(s)})
    OBVIOUS
  <2>1. Any(s) \in s
    BY DEF Any
  <2>2. s \ {Any(s)} \in SUBSET S
    OBVIOUS
  <2>3. IsFiniteSet(Units(f, s \ {Any(s)}))
    BY <2>2, UnitsFinite
  <2>4. Count(f, s \ {Any(s)}) \in Nat
    BY <2>3, FS_CardinalityType DEF Count
  <2>5. Count(f, s) = Count(f, s \ {Any(s)}) + f[Any(s)]
    BY <2>1, <2>3, UnitsOfElement
  <2>6. f[Any(s)] \in Nat
    BY <2>1
  <2> QED
    BY <2>1, <2>2, <2>4, <2>5, <2>6
<1>2. Folds(c, f, S)
  <2>1. \A s \in SUBSET S : c[s] = IF s = {} THEN 0 ELSE f[Any(s)] + c[s \ {Any(s)}]
    BY <1>1, UnitsOfNothing
  <2> QED
    BY <2>1 DEF Folds
<1> DEFINE g == CHOOSE h : Folds(h, f, S)
<1>3. Folds(g, f, S)
  BY <1>2
<1>4. g[S] = Count(f, S)
  <2> HIDE DEF g, c
  <2> DEFINE Bad == {U \in SUBSET S : g[U] # Count(f, U)}
  <2>1. SUFFICES ASSUME Bad # {} PROVE FALSE
    OBVIOUS
  <2>2. PICK U \in Bad : \A V \in Bad : ~(V \subseteq U /\ V # U)
    <3>1. Bad \in SUBSET SUBSET S
      OBVIOUS
    <3> HIDE DEF Bad
    <3> QED
      BY <2>1, <3>1, MinimalSubset
  <2>3. g[U] = IF U = {} THEN 0 ELSE f[Any(U)] + g[U \ {Any(U)}]
    BY <1>3, <2>2 DEF Folds
  <2>4. U # {}
    BY <2>2, <2>3, UnitsOfNothing
  <2>5. U \ {Any(U)} \in SUBSET S /\ U \ {Any(U)} \notin Bad
    BY <1>1, <2>2, <2>4
  <2>6. g[U \ {Any(U)}] = Count(f, U \ {Any(U)})
    BY <2>5
  <2>7. g[U] = Count(f, U)
    BY <1>1, <2>2, <2>3, <2>4, <2>6
  <2> QED
    BY <2>2, <2>7
<1>5. DOMAIN f = S
  OBVIOUS
<1> QED
  BY <1>4, <1>5, SumDef

\* The sum is a natural number, 0 of nothing.
LEMMA SumType ==
  ASSUME NEW S, IsFiniteSet(S), NEW f \in [S -> Nat]
  PROVE  Sum(f) \in Nat /\ (S = {} => Sum(f) = 0)
<1>1. Sum(f) = Count(f, S)
  BY SumCounts
<1>2. Count(f, S) \in Nat
  BY UnitsFinite, FS_CardinalityType DEF Count
<1>3. S = {} => Count(f, S) = 0
  BY UnitsOfNothing
<1> QED
  BY <1>1, <1>2, <1>3

\* An element more adds its value, in whatever order the fold meets it.
LEMMA SumWithElement ==
  ASSUME NEW S, IsFiniteSet(S), NEW x \in S, NEW f \in [S -> Nat],
         NEW rest \in [S \ {x} -> Nat], \A y \in S \ {x} : rest[y] = f[y]
  PROVE  Sum(f) = Sum(rest) + f[x]
<1>1. IsFiniteSet(S \ {x})
  BY FS_Subset
<1>2. Units(rest, S \ {x}) = Units(f, S \ {x})
  BY DEF Units
<1>3. Count(f, S) = Count(f, S \ {x}) + f[x]
  BY UnitsFinite, UnitsOfElement
<1> QED
  BY <1>1, <1>2, <1>3, SumCounts DEF Count
=============================================================================
