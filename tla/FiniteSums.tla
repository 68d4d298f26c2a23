------------------------------ MODULE FiniteSums ------------------------------
(***************************************************************************)
(* Facts about folds and sums over finite sets, for the proofs about       *)
(* pools, votes and balances.  What a fold computes is shown by induction  *)
(* over the size of a set, in the form: of the sizes at which the claim    *)
(* fails there is a least one.                                             *)
(***************************************************************************)
EXTENDS Integers, FiniteSets, Functions, FiniteSetTheorems, WellFoundedInduction, TLAPS

\* Every nonempty set of naturals has a least element.
LEMMA LeastExists ==
  ASSUME NEW S \in SUBSET Nat, S # {}
  PROVE  \E k \in S : \A j \in S : k <= j
<1> DEFINE R == OpToRel(<, Nat)
<1>1. IsWellFoundedOn(R, Nat)
  BY NatLessThanWellFounded, Zenon
<1>2. ASSUME NEW j \in Nat, NEW k \in Nat, j < k
      PROVE  <<j, k>> \in R
  <2>1. <<j, k>> \in Nat \X Nat /\ <<j, k>>[1] < <<j, k>>[2]
    BY <1>2, SMT
  <2> QED BY <2>1, Zenon DEF OpToRel
<1> HIDE DEF R
<1>3. PICK k \in S : \A j \in S : ~ (<<j, k>> \in R)
  BY <1>1, WFMin
<1>4. \A j \in S : ~ (j < k)
  BY <1>2, <1>3
<1> QED BY <1>4

\* The element a fold takes out of a set.
Pick(s) == CHOOSE x \in s : TRUE

\* What is left when the element is taken out is smaller.
LEMMA PickType ==
  ASSUME NEW s, IsFiniteSet(s), s # {}
  PROVE  /\ Pick(s) \in s
         /\ IsFiniteSet(s \ {Pick(s)})
         /\ Cardinality(s) \in Nat \ {0}
         /\ Cardinality(s \ {Pick(s)}) = Cardinality(s) - 1
<1>1. Pick(s) \in s
  BY DEF Pick
<1> QED BY <1>1, FS_RemoveElement, FS_CardinalityType, FS_EmptySet

\* The subsets of D up to a size.
UpTo(D, n) == {s \in SUBSET D : Cardinality(s) <= n}

\* A recursive function over the subsets of a finite set exists: base for the empty
\* set, and step for one element more.
IsFold(it, Dom, base, step) ==
    it = [s \in Dom |-> IF s = {} THEN base ELSE step[Pick(s)][it[s \ {Pick(s)}]]]

\* Such a function exists.
LEMMA FoldExists ==
  ASSUME NEW D, IsFiniteSet(D), NEW St, NEW base \in St, NEW step \in [D -> [St -> St]]
  PROVE  \E it \in [SUBSET D -> St] : IsFold(it, SUBSET D, base, step)
<1> DEFINE Good(n) == \E g \in [UpTo(D, n) -> St] : IsFold(g, UpTo(D, n), base, step)
           Bad == {n \in Nat : ~ Good(n)}
<1>1. \A s \in SUBSET D : IsFiniteSet(s) /\ Cardinality(s) \in Nat
  BY FS_Subset, FS_CardinalityType
<1>2. Good(0)
  <2> DEFINE g == [s \in UpTo(D, 0) |-> base]
  <2>1. \A s \in UpTo(D, 0) : s = {}
    BY <1>1, FS_EmptySet DEF UpTo
  <2>2. IsFold(g, UpTo(D, 0), base, step)
    BY <2>1 DEF IsFold
  <2> QED BY <2>2
<1>3. ASSUME NEW n \in Nat, Good(n) PROVE Good(n + 1)
  <2>1. PICK g \in [UpTo(D, n) -> St] : IsFold(g, UpTo(D, n), base, step)
    BY <1>3
  <2> DEFINE V(s) == IF s = {} THEN base ELSE step[Pick(s)][g[s \ {Pick(s)}]]
             h == [s \in UpTo(D, n + 1) |-> V(s)]
  <2>2. ASSUME NEW s \in UpTo(D, n + 1), s # {}
        PROVE  Pick(s) \in D /\ s \ {Pick(s)} \in UpTo(D, n)
    BY <1>1, <2>2, PickType DEF UpTo
  <2>3. UpTo(D, n) \subseteq UpTo(D, n + 1)
    BY <1>1 DEF UpTo
  <2>4. \A s \in UpTo(D, n) : g[s] = V(s)
    BY <2>1 DEF IsFold
  <2>5. \A s \in UpTo(D, n + 1) : V(s) \in St
    BY <2>2
  <2> HIDE DEF V
  <2>6. h \in [UpTo(D, n + 1) -> St] /\ \A s \in UpTo(D, n) : h[s] = g[s]
    BY <2>3, <2>4, <2>5
  <2>7. \A s \in UpTo(D, n + 1) :
           V(s) = IF s = {} THEN base ELSE step[Pick(s)][h[s \ {Pick(s)}]]
    BY <2>2, <2>6 DEF V
  <2> HIDE DEF h
  <2>8. IsFold(h, UpTo(D, n + 1), base, step)
    <3>1. h = [s \in UpTo(D, n + 1) |-> V(s)]
      BY DEF h
    <3> QED BY <2>7, <3>1 DEF IsFold
  <2> QED BY <2>6, <2>8
<1> HIDE DEF Good
<1>4. Bad = {}
  <2> SUFFICES ASSUME Bad # {} PROVE FALSE
    OBVIOUS
  <2>1. PICK n \in Bad : \A j \in Bad : n <= j
    BY LeastExists
  <2>2. n # 0 /\ n - 1 \in Nat /\ n - 1 \notin Bad
    BY <1>2, <2>1
  <2>3. Good(n - 1)
    BY <2>2
  <2>4. Good((n - 1) + 1)
    BY <1>3, <2>2, <2>3
  <2>5. (n - 1) + 1 = n
    BY <2>1
  <2> QED BY <2>1, <2>4, <2>5
<1>5. Cardinality(D) \in Nat /\ UpTo(D, Cardinality(D)) = SUBSET D
  BY FS_Subset, FS_CardinalityType DEF UpTo
<1>6. Good(Cardinality(D))
  BY <1>4, <1>5
<1> QED BY <1>5, <1>6 DEF Good

\* Of a family of finite sets one is smallest: the form in which the proofs below do
\* induction over finite sets.
LEMMA SmallestSet ==
  ASSUME NEW D, IsFiniteSet(D), NEW B \in SUBSET SUBSET D, B # {}
  PROVE  \E s \in B : \A t \in B : Cardinality(s) <= Cardinality(t)
<1> DEFINE N == {Cardinality(s) : s \in B}
<1>1. \A s \in B : Cardinality(s) \in Nat
  BY FS_Subset, FS_CardinalityType
<1>2. N \in SUBSET Nat /\ N # {}
  BY <1>1
<1>3. PICK k \in N : \A j \in N : k <= j
  <2> HIDE DEF N
  <2> QED BY <1>2, LeastExists
<1> QED BY <1>3

-------------------------------------------------------------------------------
(* Sums *)

\* f has integers at the elements of S.
IntOn(f, S) == \A x \in S : f[x] \in Int

\* it adds up f over the subsets of S.
AddsUp(it, f, S) ==
    \A s \in SUBSET S : /\ it[s] \in Int
                        /\ it[s] = IF s = {} THEN 0 ELSE f[Pick(s)] + it[s \ {Pick(s)}]

\* A sum is the value of a function that adds up.
LEMMA SumIsFold ==
  ASSUME NEW S, IsFiniteSet(S), NEW f, IntOn(f, S)
  PROVE  \E it : AddsUp(it, f, S) /\ SumFunctionOnSet(f, S) = it[S]
<1> DEFINE step == [x \in S |-> [v \in Int |-> f[x] + v]]
           F(it) == [s \in SUBSET S |-> IF s = {} THEN 0 ELSE f[Pick(s)] + it[s \ {Pick(s)}]]
           chosen == CHOOSE it : it = F(it)
<1>1. step \in [S -> [Int -> Int]]
  BY DEF IntOn
<1>2. PICK it \in [SUBSET S -> Int] : IsFold(it, SUBSET S, 0, step)
  <2> HIDE DEF step
  <2>1. 0 \in Int
    OBVIOUS
  <2> QED BY <1>1, <2>1, FoldExists
<1>3. \A s \in SUBSET S : s # {} => Pick(s) \in S /\ s \ {Pick(s)} \in SUBSET S
  BY DEF Pick
<1>4. it = F(it)
  <2>1. \A s \in SUBSET S : s # {} => step[Pick(s)][it[s \ {Pick(s)}]] = f[Pick(s)] + it[s \ {Pick(s)}]
    BY <1>2, <1>3
  <2> HIDE DEF step
  <2> QED BY <1>2, <2>1 DEF IsFold
<1>5. chosen = F(chosen)
  BY <1>4
<1> HIDE DEF chosen
<1>6. \A s \in SUBSET S : chosen[s] = IF s = {} THEN 0 ELSE f[Pick(s)] + chosen[s \ {Pick(s)}]
  BY <1>5
<1> HIDE DEF F, step
<1>7. ASSUME NEW B, B = {s \in SUBSET S : chosen[s] \notin Int}, B # {}
      PROVE  FALSE
  <2>1. PICK s \in B : \A t \in B : Cardinality(s) <= Cardinality(t)
    BY <1>7, SmallestSet
  <2>2. s \in SUBSET S /\ chosen[s] \notin Int
    BY <1>7, <2>1
  <2>3. CASE s = {}
    <3>1. chosen[s] = 0
      BY <1>6, <2>2, <2>3, Zenon
    <3> QED BY <2>2, <3>1
  <2>4. CASE s # {}
    <3>1. /\ Pick(s) \in s /\ Cardinality(s) \in Nat /\ Cardinality(s \ {Pick(s)}) = Cardinality(s) - 1
      BY <2>2, <2>4, FS_Subset, PickType
    <3>2. s \ {Pick(s)} \notin B
      BY <2>1, <3>1
    <3>3. chosen[s \ {Pick(s)}] \in Int /\ f[Pick(s)] \in Int
      BY <1>3, <1>7, <2>2, <2>4, <3>2 DEF IntOn
    <3>4. chosen[s] = f[Pick(s)] + chosen[s \ {Pick(s)}]
      BY <1>6, <2>2, <2>4, Zenon
    <3> QED BY <2>2, <3>3, <3>4
  <2> QED BY <2>3, <2>4
<1>8. AddsUp(chosen, f, S)
  BY <1>6, <1>7 DEF AddsUp
<1>9. SumFunctionOnSet(f, S) = chosen[S]
  BY DEF chosen, F, SumFunctionOnSet, FoldFunctionOnSet, MapThenFoldSet, Pick
<1> QED BY <1>8, <1>9

\* What adds up over S gives the sum over each subset.
LEMMA SumOfSubset ==
  ASSUME NEW S, IsFiniteSet(S), NEW f, IntOn(f, S), NEW it, AddsUp(it, f, S), NEW T \in SUBSET S
  PROVE  it[T] = SumFunctionOnSet(f, T)
<1>1. IsFiniteSet(T) /\ IntOn(f, T)
  BY FS_Subset DEF IntOn
<1>2. PICK jt : AddsUp(jt, f, T) /\ SumFunctionOnSet(f, T) = jt[T]
  BY <1>1, SumIsFold
<1>3. ASSUME NEW B, B = {s \in SUBSET T : it[s] # jt[s]}, B # {}
      PROVE  FALSE
  <2>1. PICK s \in B : \A t \in B : Cardinality(s) <= Cardinality(t)
    BY <1>1, <1>3, SmallestSet
  <2>2. s \in SUBSET T /\ s \in SUBSET S /\ it[s] # jt[s]
    BY <1>3, <2>1
  <2>3. CASE s = {}
    BY <1>2, <2>2, <2>3 DEF AddsUp
  <2>4. CASE s # {}
    <3>1. /\ Pick(s) \in s /\ Cardinality(s) \in Nat /\ Cardinality(s \ {Pick(s)}) = Cardinality(s) - 1
      BY <1>1, <2>2, <2>4, FS_Subset, PickType
    <3>2. s \ {Pick(s)} \notin B /\ s \ {Pick(s)} \in SUBSET T
      BY <2>1, <2>2, <3>1
    <3>3. it[s \ {Pick(s)}] = jt[s \ {Pick(s)}]
      BY <1>3, <3>2
    <3> QED BY <1>2, <2>2, <2>4, <3>3 DEF AddsUp
  <2> QED BY <2>3, <2>4
<1> QED BY <1>2, <1>3

\* A sum is an integer, that of nothing is zero, and it takes one element at a time.
LEMMA SumStep ==
  ASSUME NEW S, IsFiniteSet(S), NEW f, IntOn(f, S)
  PROVE  /\ SumFunctionOnSet(f, S) \in Int
         /\ SumFunctionOnSet(f, S) = IF S = {} THEN 0
                                     ELSE f[Pick(S)] + SumFunctionOnSet(f, S \ {Pick(S)})
<1>1. PICK it : AddsUp(it, f, S) /\ SumFunctionOnSet(f, S) = it[S]
  BY SumIsFold
<1>2. it[S \ {Pick(S)}] = SumFunctionOnSet(f, S \ {Pick(S)})
  BY <1>1, SumOfSubset
<1> QED BY <1>1, <1>2 DEF AddsUp

\* It does not matter which element is taken.
LEMMA SumRemove ==
  ASSUME NEW S, IsFiniteSet(S), NEW f, IntOn(f, S), NEW a \in S
  PROVE  /\ SumFunctionOnSet(f, S) = f[a] + SumFunctionOnSet(f, S \ {a})
         /\ SumFunctionOnSet(f, S) \in Int /\ SumFunctionOnSet(f, S \ {a}) \in Int
<1> DEFINE Sum(s) == SumFunctionOnSet(f, s)
           B == {s \in SUBSET S : \E x \in s : Sum(s) # f[x] + Sum(s \ {x})}
<1>1. ASSUME NEW s \in SUBSET S
      PROVE  /\ Sum(s) \in Int
             /\ s # {} => Pick(s) \in s /\ Sum(s) = f[Pick(s)] + Sum(s \ {Pick(s)})
  <2>1. IsFiniteSet(s) /\ IntOn(f, s)
    BY FS_Subset DEF IntOn
  <2> QED BY <2>1, SumStep DEF Pick
<1> HIDE DEF Sum
<1>2. ASSUME B # {}
      PROVE  FALSE
  <2>1. PICK s \in B : \A t \in B : Cardinality(s) <= Cardinality(t)
    <3>1. B \in SUBSET SUBSET S
      OBVIOUS
    <3> HIDE DEF B
    <3> QED BY <1>2, <3>1, SmallestSet
  <2>2. PICK x \in s : Sum(s) # f[x] + Sum(s \ {x})
    OBVIOUS
  <2> DEFINE p == Pick(s)
             rest == s \ {p}
             less == s \ {x}
             both == (s \ {p}) \ {x}
  <2>3. /\ s \in SUBSET S /\ p \in s /\ Sum(s) = f[p] + Sum(rest) /\ x # p
    BY <1>1, <2>2
  <2>4. /\ Cardinality(s) \in Nat /\ Cardinality(rest) = Cardinality(s) - 1
        /\ Cardinality(less) = Cardinality(s) - 1
    BY <2>3, FS_Subset, FS_RemoveElement, FS_CardinalityType
  <2>5. rest \notin B /\ less \notin B /\ rest \in SUBSET S /\ less \in SUBSET S
    <3> HIDE DEF B
    <3> QED BY <2>1, <2>3, <2>4
  <2>6. Sum(rest) = f[x] + Sum(both)
    BY <2>2, <2>3, <2>5
  <2>7. Sum(less) = f[p] + Sum(less \ {p})
    BY <2>3, <2>5
  <2>8. less \ {p} = both /\ both \in SUBSET S
    BY <2>3
  <2>9. /\ Sum(both) \in Int /\ f[x] \in Int /\ f[p] \in Int
    BY <1>1, <2>3, <2>8 DEF IntOn
  <2> HIDE DEF p, rest, less, both
  <2> QED BY <2>2, <2>3, <2>6, <2>7, <2>8, <2>9 DEF less
<1>3. S \in SUBSET S /\ S \ {a} \in SUBSET S /\ S \notin B
  BY <1>2
<1> QED BY <1>1, <1>3 DEF Sum

\* Functions that agree have the same sum.
LEMMA SumSame ==
  ASSUME NEW S, IsFiniteSet(S), NEW f, NEW g, IntOn(f, S), \A x \in S : g[x] = f[x]
  PROVE  SumFunctionOnSet(g, S) = SumFunctionOnSet(f, S)
<1> DEFINE F(s) == SumFunctionOnSet(f, s)
           G(s) == SumFunctionOnSet(g, s)
           B == {s \in SUBSET S : F(s) # G(s)}
<1>1. ASSUME NEW s \in SUBSET S
      PROVE  /\ F(s) = IF s = {} THEN 0 ELSE f[Pick(s)] + F(s \ {Pick(s)})
             /\ G(s) = IF s = {} THEN 0 ELSE g[Pick(s)] + G(s \ {Pick(s)})
             /\ s # {} => Pick(s) \in s
  <2>1. IsFiniteSet(s) /\ IntOn(f, s) /\ IntOn(g, s)
    BY FS_Subset DEF IntOn
  <2> QED BY <2>1, SumStep DEF Pick
<1> HIDE DEF F, G
<1>2. ASSUME B # {}
      PROVE  FALSE
  <2>1. PICK s \in B : \A t \in B : Cardinality(s) <= Cardinality(t)
    <3>1. B \in SUBSET SUBSET S
      OBVIOUS
    <3> HIDE DEF B
    <3> QED BY <1>2, <3>1, SmallestSet
  <2>2. s # {} /\ s \in SUBSET S /\ Pick(s) \in S
    BY <1>1, <2>1
  <2>3. /\ Cardinality(s) \in Nat /\ Cardinality(s \ {Pick(s)}) = Cardinality(s) - 1
    BY <2>2, FS_Subset, PickType
  <2>4. s \ {Pick(s)} \notin B /\ s \ {Pick(s)} \in SUBSET S
    BY <2>1, <2>2, <2>3
  <2> QED BY <1>1, <2>1, <2>2, <2>4
<1> QED BY <1>2 DEF F, G

\* A change at one element changes the sum by as much.
LEMMA SumUpdate ==
  ASSUME NEW S, IsFiniteSet(S), NEW f, NEW g, IntOn(f, S), NEW a \in S, g[a] \in Int,
         \A x \in S \ {a} : g[x] = f[x]
  PROVE  /\ SumFunctionOnSet(g, S) = SumFunctionOnSet(f, S) + (g[a] - f[a])
         /\ SumFunctionOnSet(f, S) \in Int /\ SumFunctionOnSet(g, S) \in Int
<1>1. IntOn(g, S) /\ IntOn(f, S \ {a}) /\ IsFiniteSet(S \ {a}) /\ f[a] \in Int
  BY FS_Subset DEF IntOn
<1>2. SumFunctionOnSet(g, S \ {a}) = SumFunctionOnSet(f, S \ {a})
  BY <1>1, SumSame
<1>3. /\ SumFunctionOnSet(f, S) = f[a] + SumFunctionOnSet(f, S \ {a})
      /\ SumFunctionOnSet(g, S) = g[a] + SumFunctionOnSet(g, S \ {a})
      /\ SumFunctionOnSet(f, S) \in Int /\ SumFunctionOnSet(g, S) \in Int
      /\ SumFunctionOnSet(f, S \ {a}) \in Int
  BY <1>1, SumRemove
<1> QED BY <1>1, <1>2, <1>3

\* The sum of sums.
LEMMA SumPlus ==
  ASSUME NEW S, IsFiniteSet(S), NEW f, NEW g, NEW h, IntOn(f, S), IntOn(g, S),
         \A x \in S : h[x] = f[x] + g[x]
  PROVE  SumFunctionOnSet(h, S) = SumFunctionOnSet(f, S) + SumFunctionOnSet(g, S)
<1> DEFINE F(s) == SumFunctionOnSet(f, s)
           G(s) == SumFunctionOnSet(g, s)
           H(s) == SumFunctionOnSet(h, s)
           B == {s \in SUBSET S : H(s) # F(s) + G(s)}
<1>1. ASSUME NEW s \in SUBSET S
      PROVE  /\ F(s) = IF s = {} THEN 0 ELSE f[Pick(s)] + F(s \ {Pick(s)})
             /\ G(s) = IF s = {} THEN 0 ELSE g[Pick(s)] + G(s \ {Pick(s)})
             /\ H(s) = IF s = {} THEN 0 ELSE h[Pick(s)] + H(s \ {Pick(s)})
             /\ F(s) \in Int /\ G(s) \in Int
             /\ s # {} => Pick(s) \in s
  <2>1. IsFiniteSet(s) /\ IntOn(f, s) /\ IntOn(g, s) /\ IntOn(h, s)
    BY FS_Subset DEF IntOn
  <2> QED BY <2>1, SumStep DEF Pick
<1> HIDE DEF F, G, H
<1>2. ASSUME B # {}
      PROVE  FALSE
  <2>1. PICK s \in B : \A t \in B : Cardinality(s) <= Cardinality(t)
    <3>1. B \in SUBSET SUBSET S
      OBVIOUS
    <3> HIDE DEF B
    <3> QED BY <1>2, <3>1, SmallestSet
  <2>2. s # {} /\ s \in SUBSET S /\ Pick(s) \in S
    BY <1>1, <2>1
  <2> DEFINE p == Pick(s)
             rest == s \ {p}
  <2>3. /\ Cardinality(s) \in Nat /\ Cardinality(rest) = Cardinality(s) - 1
    BY <2>2, FS_Subset, PickType
  <2>4. rest \notin B /\ rest \in SUBSET S
    BY <2>1, <2>2, <2>3
  <2>5. /\ F(s) = f[p] + F(rest) /\ G(s) = g[p] + G(rest) /\ H(s) = h[p] + H(rest)
        /\ H(rest) = F(rest) + G(rest) /\ h[p] = f[p] + g[p]
        /\ f[p] \in Int /\ g[p] \in Int /\ F(rest) \in Int /\ G(rest) \in Int
    BY <1>1, <2>2, <2>4 DEF IntOn
  <2>6. H(s) # F(s) + G(s)
    BY <2>1
  <2> HIDE DEF p, rest
  <2> QED BY <2>5, <2>6
<1> QED BY <1>2 DEF F, G, H

\* A sum of naturals is natural and no smaller than any of them.
LEMMA SumNat ==
  ASSUME NEW S, IsFiniteSet(S), NEW f, \A x \in S : f[x] \in Nat
  PROVE  /\ SumFunctionOnSet(f, S) \in Nat
         /\ \A x \in S : f[x] <= SumFunctionOnSet(f, S)
<1> DEFINE F(s) == SumFunctionOnSet(f, s)
           B == {s \in SUBSET S : F(s) \notin Nat}
<1>1. IntOn(f, S)
  BY DEF IntOn
<1>2. ASSUME NEW s \in SUBSET S
      PROVE  /\ F(s) = IF s = {} THEN 0 ELSE f[Pick(s)] + F(s \ {Pick(s)})
             /\ s # {} => Pick(s) \in s
  <2>1. IsFiniteSet(s) /\ IntOn(f, s)
    BY <1>1, FS_Subset DEF IntOn
  <2> QED BY <2>1, SumStep DEF Pick
<1> HIDE DEF F
<1>3. ASSUME B # {}
      PROVE  FALSE
  <2>1. PICK s \in B : \A t \in B : Cardinality(s) <= Cardinality(t)
    <3>1. B \in SUBSET SUBSET S
      OBVIOUS
    <3> HIDE DEF B
    <3> QED BY <1>3, <3>1, SmallestSet
  <2>2. s # {} /\ s \in SUBSET S /\ Pick(s) \in S
    BY <1>2, <2>1
  <2>3. /\ Cardinality(s) \in Nat /\ Cardinality(s \ {Pick(s)}) = Cardinality(s) - 1
    BY <2>2, FS_Subset, PickType
  <2>4. s \ {Pick(s)} \notin B /\ s \ {Pick(s)} \in SUBSET S
    BY <2>1, <2>2, <2>3
  <2> QED BY <1>2, <2>1, <2>2, <2>4
<1>4. ASSUME NEW x \in S
      PROVE  f[x] <= F(S)
  <2>1. F(S) = f[x] + F(S \ {x})
    BY <1>1, SumRemove DEF F
  <2>2. F(S \ {x}) \in Nat
    BY <1>3
  <2> QED BY <2>1, <2>2
<1> QED BY <1>3, <1>4 DEF F
===============================================================================
