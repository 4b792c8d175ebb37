-------------------------------- MODULE Sums --------------------------------
(***************************************************************************)
(* What SumFunction() of the community modules computes: it does not       *)
(* depend on the order in which its fold chooses the elements, which are   *)
(* added one after the other by a recursive function.                      *)
(***************************************************************************)
EXTENDS Integers, Functions, FiniteSetTheorems, WellFoundedInduction, TLAPS

\* The recursive function of the fold, and what defines it.
Some(s) == CHOOSE x \in s : TRUE
Unfolded(f, g) ==
  [s \in SUBSET DOMAIN f |-> IF s = {} THEN 0 ELSE f[Some(s)] + g[s \ {Some(s)}]]
Fold(f) == CHOOSE g : g = Unfolded(f, g)

LEMMA SumIsFold == ASSUME NEW f PROVE SumFunction(f) = Fold(f)[DOMAIN f]
BY SMT DEF SumFunction, SumFunctionOnSet, FoldFunctionOnSet, MapThenFoldSet, Fold, Unfolded, Some

\* The sum as a number of things: f[x] of them for each x.
Units(f, s) == {u \in s \X Nat : u[2] \in 1 .. f[u[1]]}
Count(f) == [s \in SUBSET DOMAIN f |-> Cardinality(Units(f, s))]

IsSummable(f) == IsFiniteSet(DOMAIN f) /\ \A x \in DOMAIN f : f[x] \in Nat

LEMMA SmallestSubset ==
  ASSUME NEW S, IsFiniteSet(S), NEW T \in SUBSET SUBSET S, T # {}
  PROVE  \E s \in T : \A r \in T : ~(r \subseteq s /\ r # s)
<1>1. FiniteSubsetsOf(S) = SUBSET S
  BY FS_FiniteSubsetsOfFinite
<1>2. IsWellFoundedOn(StrictSubsetOrdering(S), SUBSET S)
  BY <1>1, FS_StrictSubsetOrderingWellFounded
<1>3. PICK s \in T : \A r \in T : <<r, s>> \notin StrictSubsetOrdering(S)
  BY <1>2, WFMin, Zenon
<1> QED
  BY <1>3 DEF StrictSubsetOrdering

LEMMA UnitsOfOneMore ==
  ASSUME NEW f, IsSummable(f), NEW s \in SUBSET DOMAIN f, NEW x \in s, IsFiniteSet(Units(f, s \ {x}))
  PROVE  /\ IsFiniteSet(Units(f, s))
         /\ Cardinality(Units(f, s)) = f[x] + Cardinality(Units(f, s \ {x}))
<1> DEFINE new == {x} \X (1 .. f[x])
           old == Units(f, s \ {x})
<1>1. f[x] \in Nat
  BY DEF IsSummable
<1>2. IsFiniteSet(1 .. f[x]) /\ Cardinality(1 .. f[x]) = f[x]
  BY <1>1, FS_Interval
<1>3. IsFiniteSet(new) /\ Cardinality(new) = f[x]
  <2>1. IsFiniteSet({x}) /\ Cardinality({x}) = 1
    BY FS_Singleton
  <2>2. IsFiniteSet(new) /\ Cardinality(new) = Cardinality({x}) * Cardinality(1 .. f[x])
    BY <1>2, <2>1, FS_Product
  <2> QED
    BY <1>1, <1>2, <2>1, <2>2
<1>4. Units(f, s) = new \cup old /\ new \cap old = {}
  BY <1>1 DEF Units
<1>5. IsFiniteSet(new \cup old) /\ Cardinality(new \cup old) = Cardinality(new) + Cardinality(old) - Cardinality(new \cap old)
  BY <1>3, FS_Union
<1>6. Cardinality(old) \in Nat
  BY FS_CardinalityType
<1>7. Cardinality(new \cap old) = 0
  BY <1>4, FS_EmptySet
<1> HIDE DEF new
<1> QED
  BY <1>1, <1>3, <1>4, <1>5, <1>6, <1>7

LEMMA UnitsAreFinite ==
  ASSUME NEW f, IsSummable(f), NEW s \in SUBSET DOMAIN f
  PROVE  IsFiniteSet(Units(f, s))
<1> DEFINE bad == {r \in SUBSET DOMAIN f : ~IsFiniteSet(Units(f, r))}
<1> SUFFICES ASSUME bad # {} PROVE FALSE
  OBVIOUS
<1>1. PICK r \in bad : \A q \in bad : ~(q \subseteq r /\ q # r)
  <2>1. bad \in SUBSET SUBSET DOMAIN f
    OBVIOUS
  <2> HIDE DEF bad
  <2> QED
    BY <2>1, SmallestSubset DEF IsSummable
<1>2. CASE r = {}
  <2>1. Units(f, r) = {}
    BY <1>2 DEF Units
  <2> QED
    BY <1>1, <2>1, FS_EmptySet
<1>3. ASSUME NEW x \in r PROVE FALSE
  <2>1. r \ {x} \in SUBSET DOMAIN f /\ r \ {x} \notin bad
    BY <1>1
  <2> QED
    BY <1>1, <2>1, UnitsOfOneMore
<1> QED
  BY <1>2, <1>3

LEMMA CountUnfolds == ASSUME NEW f, IsSummable(f) PROVE Count(f) = Unfolded(f, Count(f))
<1>1. ASSUME NEW s \in SUBSET DOMAIN f
      PROVE  Count(f)[s] = IF s = {} THEN 0 ELSE f[Some(s)] + Count(f)[s \ {Some(s)}]
  <2>1. CASE s = {}
    <3>1. Units(f, s) = {}
      BY <2>1 DEF Units
    <3> QED
      BY <2>1, <3>1, FS_EmptySet DEF Count
  <2>2. CASE s # {}
    <3>1. Some(s) \in s
      BY <2>2 DEF Some
    <3>2. Cardinality(Units(f, s)) = f[Some(s)] + Cardinality(Units(f, s \ {Some(s)}))
      BY <3>1, UnitsAreFinite, UnitsOfOneMore
    <3> QED
      BY <2>2, <3>2 DEF Count
  <2> QED
    BY <2>1, <2>2
<1> QED
  BY <1>1 DEF Count, Unfolded

LEMMA FoldIsCount == ASSUME NEW f, IsSummable(f), NEW s \in SUBSET DOMAIN f PROVE Fold(f)[s] = Count(f)[s]
<1>1. Fold(f) = Unfolded(f, Fold(f))
  BY CountUnfolds DEF Fold
<1> DEFINE bad == {r \in SUBSET DOMAIN f : Fold(f)[r] # Count(f)[r]}
<1> SUFFICES ASSUME bad # {} PROVE FALSE
  OBVIOUS
<1>2. PICK r \in bad : \A q \in bad : ~(q \subseteq r /\ q # r)
  <2>1. bad \in SUBSET SUBSET DOMAIN f
    OBVIOUS
  <2> HIDE DEF bad
  <2> QED
    BY <2>1, SmallestSubset DEF IsSummable
<1>3. /\ Fold(f)[r] = IF r = {} THEN 0 ELSE f[Some(r)] + Fold(f)[r \ {Some(r)}]
      /\ Count(f)[r] = IF r = {} THEN 0 ELSE f[Some(r)] + Count(f)[r \ {Some(r)}]
  <2>1. /\ Fold(f)[r] = Unfolded(f, Fold(f))[r] /\ Count(f)[r] = Unfolded(f, Count(f))[r]
        /\ r \in SUBSET DOMAIN f
    BY <1>1, <1>2, CountUnfolds
  <2> QED
    BY <2>1 DEF Unfolded
<1>4. r # {} /\ Some(r) \in r
  BY <1>2, <1>3 DEF Some
<1>5. r \ {Some(r)} \in SUBSET DOMAIN f /\ r \ {Some(r)} \notin bad
  BY <1>2, <1>4
<1> QED
  BY <1>2, <1>3, <1>4, <1>5

LEMMA SumIsNat == ASSUME NEW f, IsSummable(f) PROVE SumFunction(f) \in Nat
BY SumIsFold, FoldIsCount, UnitsAreFinite, FS_CardinalityType DEF Count

LEMMA SumOfZeros == ASSUME NEW f, IsSummable(f), \A x \in DOMAIN f : f[x] = 0 PROVE SumFunction(f) = 0
<1>1. Units(f, DOMAIN f) = {}
  BY DEF Units
<1> QED
  BY <1>1, SumIsFold, FoldIsCount, FS_EmptySet DEF Count

\* One element less.
LEMMA SumWithout ==
  ASSUME NEW f, IsSummable(f), NEW x \in DOMAIN f, NEW g,
         DOMAIN g = DOMAIN f \ {x}, \A y \in DOMAIN g : g[y] = f[y]
  PROVE  IsSummable(g) /\ SumFunction(f) = f[x] + SumFunction(g)
<1>1. IsSummable(g)
  BY FS_RemoveElement DEF IsSummable
<1>2. Units(g, DOMAIN g) = Units(f, DOMAIN f \ {x})
  BY DEF Units
<1>3. Cardinality(Units(f, DOMAIN f)) = f[x] + Cardinality(Units(f, DOMAIN f \ {x}))
  BY UnitsAreFinite, UnitsOfOneMore
<1>4. SumFunction(f) = Cardinality(Units(f, DOMAIN f)) /\ SumFunction(g) = Cardinality(Units(g, DOMAIN g))
  BY <1>1, SumIsFold, FoldIsCount DEF Count
<1> QED
  BY <1>1, <1>2, <1>3, <1>4

\* One element changed.
LEMMA SumOfChange ==
  ASSUME NEW f, IsSummable(f), NEW g, DOMAIN g = DOMAIN f, NEW x \in DOMAIN f, g[x] \in Nat,
         \A y \in DOMAIN f \ {x} : g[y] = f[y]
  PROVE  IsSummable(g) /\ SumFunction(g) = SumFunction(f) - f[x] + g[x]
<1> DEFINE h == [y \in DOMAIN f \ {x} |-> f[y]]
<1>1. IsSummable(g)
  BY DEF IsSummable
<1>2. DOMAIN h = DOMAIN f \ {x} /\ \A y \in DOMAIN h : h[y] = f[y] /\ h[y] = g[y]
  OBVIOUS
<1> HIDE DEF h
<1>3. IsSummable(h) /\ SumFunction(f) = f[x] + SumFunction(h)
  BY <1>2, SumWithout
<1>4. SumFunction(g) = g[x] + SumFunction(h)
  BY <1>1, <1>2, SumWithout
<1>5. f[x] \in Nat /\ SumFunction(h) \in Nat
  BY <1>3, SumIsNat DEF IsSummable
<1> QED
  BY <1>1, <1>3, <1>4, <1>5

\* The elements in two parts.
LEMMA SumOfParts ==
  ASSUME NEW f, IsSummable(f), NEW g, NEW h, DOMAIN g \cup DOMAIN h = DOMAIN f, DOMAIN g \cap DOMAIN h = {},
         \A y \in DOMAIN g : g[y] = f[y], \A y \in DOMAIN h : h[y] = f[y]
  PROVE  IsSummable(g) /\ IsSummable(h) /\ SumFunction(f) = SumFunction(g) + SumFunction(h)
<1>1. IsSummable(g) /\ IsSummable(h)
  BY FS_Subset DEF IsSummable
<1> DEFINE F == Units(f, DOMAIN f)
           G == Units(g, DOMAIN g)
           H == Units(h, DOMAIN h)
<1>2. F = G \cup H /\ G \cap H = {}
  BY DEF Units
<1>3. IsFiniteSet(G) /\ IsFiniteSet(H)
  BY <1>1, UnitsAreFinite
<1>4. SumFunction(f) = Cardinality(F) /\ SumFunction(g) = Cardinality(G) /\ SumFunction(h) = Cardinality(H)
  BY <1>1, SumIsFold, FoldIsCount DEF Count
<1> HIDE DEF F, G, H
<1>5. Cardinality(F) = Cardinality(G) + Cardinality(H)
  <2>1. Cardinality(F) = Cardinality(G) + Cardinality(H) - Cardinality(G \cap H)
    BY <1>2, <1>3, FS_Union
  <2>2. Cardinality(G \cap H) = 0 /\ Cardinality(G) \in Nat /\ Cardinality(H) \in Nat
    BY <1>2, <1>3, FS_EmptySet, FS_CardinalityType
  <2> QED
    BY <2>1, <2>2
<1> QED
  BY <1>1, <1>4, <1>5

\* A sum is at least the number of its terms that are not zero.
LEMMA SumIsAtLeast ==
  ASSUME NEW f, IsSummable(f), NEW T \in SUBSET DOMAIN f, \A x \in T : f[x] # 0
  PROVE  IsFiniteSet(T) /\ Cardinality(T) <= SumFunction(f)
<1>1. IsFiniteSet(T) /\ Cardinality(T) \in Nat
  BY FS_Subset, FS_CardinalityType DEF IsSummable
<1>2. T \X {1} \subseteq Units(f, DOMAIN f)
  BY DEF Units, IsSummable
<1>3. Cardinality(T \X {1}) = Cardinality(T)
  <2>1. IsFiniteSet({1}) /\ Cardinality({1}) = 1
    BY FS_Singleton
  <2>2. Cardinality(T \X {1}) = Cardinality(T) * Cardinality({1})
    BY <1>1, <2>1, FS_Product
  <2> QED
    BY <1>1, <2>1, <2>2
<1>4. Cardinality(T \X {1}) <= Cardinality(Units(f, DOMAIN f))
  BY <1>2, UnitsAreFinite, FS_Subset
<1> QED
  BY <1>1, <1>3, <1>4, SumIsFold, FoldIsCount DEF Count

\* A sum is at most the number of its terms times their bound.
LEMMA SumIsAtMost ==
  ASSUME NEW f, IsSummable(f), NEW k \in Nat, \A x \in DOMAIN f : f[x] <= k
  PROVE  SumFunction(f) <= k * Cardinality(DOMAIN f) /\ Cardinality(DOMAIN f) \in Nat
<1> DEFINE D == DOMAIN f
<1>1. IsFiniteSet(D) /\ Cardinality(D) \in Nat
  BY FS_CardinalityType DEF IsSummable
<1>2. Units(f, D) \subseteq D \X (1 .. k)
  BY DEF Units, IsSummable
<1>3. SumFunction(f) = Cardinality(Units(f, D))
  BY SumIsFold, FoldIsCount DEF Count
<1> HIDE DEF D
<1>4. IsFiniteSet(1 .. k) /\ Cardinality(1 .. k) = k
  BY FS_Interval
<1>5. IsFiniteSet(D \X (1 .. k)) /\ Cardinality(D \X (1 .. k)) = Cardinality(D) * Cardinality(1 .. k)
  BY <1>1, <1>4, FS_Product
<1>6. Cardinality(Units(f, D)) <= Cardinality(D \X (1 .. k))
  BY <1>2, <1>5, FS_Subset
<1>7. ASSUME NEW a \in Nat, NEW b, b = k PROVE a * b = k * a
  BY <1>7
<1>8. Cardinality(D \X (1 .. k)) = k * Cardinality(D)
  BY <1>1, <1>4, <1>5, <1>7
<1> QED
  BY <1>1, <1>3, <1>6, <1>8 DEF D
=============================================================================
