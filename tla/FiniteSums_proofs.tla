------------------------- MODULE FiniteSums_proofs -------------------------
(***************************************************************************)
(* Sums over finite sets.  SumFunctionOnSet is defined by recursion over   *)
(* the subsets of its set, an element chosen at each step; the induction   *)
(* that shows the recursion has a solution, and only one, goes by a        *)
(* smallest counterexample in the well-founded order of the finite sets    *)
(* (WFMin), which needs no rule with an operator parameter.                *)
(***************************************************************************)
EXTENDS Functions, FiniteSets, Integers, FiniteSetTheorems, WellFoundedInduction, TLAPS

Pick(s) == CHOOSE x \in s : TRUE

\* The values h gives to the subsets of S add up those of f.
Adds(f, h, S) ==
    h = [s \in SUBSET S |-> IF s = {} THEN 0 ELSE f[Pick(s)] + h[s \ {Pick(s)}]]

\* The sum is the value of a solution of the recursion.
LEMMA SumUnfolds ==
  ASSUME NEW f, NEW S
  PROVE SumFunctionOnSet(f, S) = (CHOOSE h : Adds(f, h, S))[S]
BY DEF SumFunctionOnSet, FoldFunctionOnSet, MapThenFoldSet, Pick, Adds

\* A set of subsets of a finite set has one without smaller ones in it.
LEMMA SmallestSubset ==
  ASSUME NEW S, IsFiniteSet(S), NEW B \in SUBSET (SUBSET S), B # {}
  PROVE  \E s \in B : \A t \in SUBSET s : t # s => t \notin B
<1>1. IsWellFoundedOn(StrictSubsetOrdering(S), FiniteSubsetsOf(S))
  BY FS_StrictSubsetOrderingWellFounded
<1>2. B \subseteq FiniteSubsetsOf(S)
  BY FS_Subset DEF FiniteSubsetsOf
<1>3. \E s \in B : \A t \in B : ~ (<<t, s>> \in StrictSubsetOrdering(S))
  BY <1>1, <1>2, WFMin
<1> QED BY <1>3 DEF StrictSubsetOrdering

\* Two solutions agree where both are defined.
LEMMA SolutionsAgree ==
  ASSUME NEW S, IsFiniteSet(S), NEW f, NEW g, NEW h, NEW R \in SUBSET S, NEW T \in SUBSET S,
         Adds(f, g, R), Adds(f, h, T)
  PROVE  \A s \in SUBSET (R \cap T) : g[s] = h[s]
<1> DEFINE B == {s \in SUBSET (R \cap T) : g[s] # h[s]}
<1> SUFFICES ASSUME B # {} PROVE FALSE
  OBVIOUS
<1>1. PICK s \in B : \A t \in SUBSET s : t # s => t \notin B
  <2>1. B \in SUBSET (SUBSET S)
    OBVIOUS
  <2> HIDE DEF B
  <2> QED BY <2>1, SmallestSubset
<1>2. /\ g[s] = IF s = {} THEN 0 ELSE f[Pick(s)] + g[s \ {Pick(s)}]
      /\ h[s] = IF s = {} THEN 0 ELSE f[Pick(s)] + h[s \ {Pick(s)}]
  BY DEF Adds
<1>3. s # {}
  BY <1>2
<1>4. Pick(s) \in s
  BY <1>3 DEF Pick
<1> QED BY <1>1, <1>2, <1>3, <1>4

\* The recursion has a solution on every finite set.
LEMMA SolutionExists ==
  ASSUME NEW S, IsFiniteSet(S), NEW f
  PROVE  \E h : Adds(f, h, S)
<1> DEFINE B == {s \in SUBSET S : ~ \E h : Adds(f, h, s)}
           Sol(s) == CHOOSE h : Adds(f, h, s)
<1> SUFFICES ASSUME B # {} PROVE FALSE
  OBVIOUS
<1>1. PICK s \in B : \A t \in SUBSET s : t # s => t \notin B
  <2>1. B \in SUBSET (SUBSET S)
    OBVIOUS
  <2> HIDE DEF B
  <2> QED BY <2>1, SmallestSubset
<1>2. \A t \in SUBSET s : t # s => Adds(f, Sol(t), t)
  BY <1>1
<1> DEFINE h == [t \in SUBSET s |-> IF t = {} THEN 0 ELSE f[Pick(t)] + Sol(t \ {Pick(t)})[t \ {Pick(t)}]]
<1>3. ASSUME NEW t \in SUBSET s, t # s PROVE h[t] = Sol(t)[t]
  <2>0. Adds(f, Sol(t), t)
    BY <1>2, <1>3
  <2>1. CASE t = {}
    <3>1. Sol(t)[t] = 0
      <4> HIDE DEF Sol
      <4> QED BY <2>0, <2>1 DEF Adds
    <3> QED BY <2>1, <3>1
  <2>2. CASE t # {}
    <3> DEFINE u == t \ {Pick(t)}
    <3>1. Pick(t) \in t
      BY <2>2 DEF Pick
    <3>2. Adds(f, Sol(t), t) /\ Adds(f, Sol(u), u)
      BY <1>2, <1>3
    <3>3. Sol(t)[u] = Sol(u)[u]
      <4> HIDE DEF u, Sol
      <4>1. u \subseteq t BY DEF u
      <4>2. t \in SUBSET S /\ u \in SUBSET S BY <4>1
      <4> QED BY <3>2, <4>1, <4>2, SolutionsAgree
    <3>4. Sol(t)[t] = f[Pick(t)] + Sol(t)[u]
      <4> HIDE DEF Sol
      <4> QED BY <3>2, <2>2 DEF Adds
    <3>5. h[t] = f[Pick(t)] + Sol(u)[u]
      BY <2>2
    <3> QED BY <3>3, <3>4, <3>5
  <2> QED BY <2>1, <2>2
<1>4. \A t \in SUBSET s : t # {} => h[t \ {Pick(t)}] = Sol(t \ {Pick(t)})[t \ {Pick(t)}]
  <2> SUFFICES ASSUME NEW t \in SUBSET s, t # {} PROVE h[t \ {Pick(t)}] = Sol(t \ {Pick(t)})[t \ {Pick(t)}]
    OBVIOUS
  <2>1. Pick(t) \in t BY DEF Pick
  <2>2. t \ {Pick(t)} \in SUBSET s /\ t \ {Pick(t)} # s BY <2>1
  <2> HIDE DEF h, Sol
  <2> QED BY <1>3, <2>2
<1>5. Adds(f, h, s)
  <2>1. PICK g : g = h
    OBVIOUS
  <2>2. \A t \in SUBSET s : (IF t = {} THEN 0 ELSE f[Pick(t)] + Sol(t \ {Pick(t)})[t \ {Pick(t)}])
                          = (IF t = {} THEN 0 ELSE f[Pick(t)] + g[t \ {Pick(t)}])
    <3> HIDE DEF h, Sol
    <3> QED BY <1>4, <2>1
  <2>3. g = [t \in SUBSET s |-> IF t = {} THEN 0 ELSE f[Pick(t)] + Sol(t \ {Pick(t)})[t \ {Pick(t)}]]
    BY <2>1
  <2>4. Adds(f, g, s)
    <3> HIDE DEF h, Sol
    <3> QED BY <2>2, <2>3 DEF Adds
  <2> QED BY <2>1, <2>4
<1> QED BY <1>5

\* The recursion holds for the sum itself.
LEMMA SumStep ==
  ASSUME NEW f, NEW S, IsFiniteSet(S)
  PROVE  SumFunctionOnSet(f, S) =
            IF S = {} THEN 0 ELSE f[Pick(S)] + SumFunctionOnSet(f, S \ {Pick(S)})
<1> DEFINE Sol(s) == CHOOSE h : Adds(f, h, s)
           T == S \ {Pick(S)}
<1>1. IsFiniteSet(T) /\ T \in SUBSET S
  BY FS_Subset
<1>2. Adds(f, Sol(S), S) /\ Adds(f, Sol(T), T)
  <2>1. \A s : IsFiniteSet(s) => \E h : Adds(f, h, s)
    BY SolutionExists
  <2> HIDE DEF T
  <2> QED BY <1>1, <2>1
<1>3. Sol(S)[T] = Sol(T)[T]
  <2> HIDE DEF Sol, T
  <2> QED BY <1>1, <1>2, SolutionsAgree
<1>4. SumFunctionOnSet(f, S) = Sol(S)[S] /\ SumFunctionOnSet(f, T) = Sol(T)[T]
  BY SumUnfolds
<1>5. Sol(S)[S] = IF S = {} THEN 0 ELSE f[Pick(S)] + Sol(S)[T]
  <2> HIDE DEF Sol
  <2> QED BY <1>2 DEF Adds
<1> HIDE DEF Sol
<1> QED BY <1>3, <1>4, <1>5

\* A sum of naturals is a natural number.
LEMMA SumType ==
  ASSUME NEW f, NEW S, IsFiniteSet(S), \A x \in S : f[x] \in Nat
  PROVE  SumFunctionOnSet(f, S) \in Nat
<1> DEFINE B == {s \in SUBSET S : SumFunctionOnSet(f, s) \notin Nat}
<1> SUFFICES ASSUME B # {} PROVE FALSE
  OBVIOUS
<1>1. PICK s \in B : \A t \in SUBSET s : t # s => t \notin B
  <2>1. B \in SUBSET (SUBSET S)
    OBVIOUS
  <2> HIDE DEF B
  <2> QED BY <2>1, SmallestSubset
<1>2. IsFiniteSet(s)
  BY FS_Subset
<1>3. SumFunctionOnSet(f, s) = IF s = {} THEN 0 ELSE f[Pick(s)] + SumFunctionOnSet(f, s \ {Pick(s)})
  BY <1>2, SumStep
<1>4. s # {} => Pick(s) \in s
  BY DEF Pick
<1> QED BY <1>1, <1>3, <1>4

\* Any element may be taken out of a sum.
LEMMA SumRemove ==
  ASSUME NEW f, NEW S, IsFiniteSet(S), \A x \in S : f[x] \in Nat, NEW x \in S
  PROVE  SumFunctionOnSet(f, S) = f[x] + SumFunctionOnSet(f, S \ {x})
<1> DEFINE sum(s) == SumFunctionOnSet(f, s)
           B == {s \in SUBSET S : \E y \in s : sum(s) # f[y] + sum(s \ {y})}
<1> SUFFICES ASSUME B # {} PROVE FALSE
  OBVIOUS
<1>1. PICK s \in B : \A t \in SUBSET s : t # s => t \notin B
  <2>1. B \in SUBSET (SUBSET S)
    OBVIOUS
  <2> HIDE DEF B
  <2> QED BY <2>1, SmallestSubset
<1>2. PICK y \in s : sum(s) # f[y] + sum(s \ {y})
  OBVIOUS
<1> DEFINE p == Pick(s)
           t == s \ {p}
           u == s \ {y}
           v == s \ {p, y}
<1>3. p \in s
  BY DEF Pick
<1>4. sum(s) = f[p] + sum(t)
  BY <1>3, FS_Subset, SumStep
<1>5. p # y
  BY <1>2, <1>4
<1>6. t \notin B /\ u \notin B
  BY <1>1, <1>3
<1>7. sum(t) = f[y] + sum(v)
  <2>1. y \in t /\ t \ {y} = v /\ t \in SUBSET S
    BY <1>5
  <2> QED BY <1>6, <2>1
<1>8. sum(u) = f[p] + sum(v)
  <2>1. p \in u /\ u \ {p} = v /\ u \in SUBSET S
    BY <1>3, <1>5
  <2> QED BY <1>6, <2>1
<1>9. sum(v) \in Nat /\ f[p] \in Nat /\ f[y] \in Nat
  <2>1. v \in SUBSET S
    OBVIOUS
  <2>2. IsFiniteSet(v)
    BY <2>1, FS_Subset
  <2>3. sum(v) \in Nat
    <3> HIDE DEF v
    <3> QED BY <2>1, <2>2, SumType
  <2> QED BY <1>3, <2>3
<1> HIDE DEF sum
<1> QED BY <1>2, <1>4, <1>7, <1>8, <1>9

\* What is not larger anywhere has no larger sum.
LEMMA SumMonotone ==
  ASSUME NEW f, NEW g, NEW S, IsFiniteSet(S),
         \A x \in S : f[x] \in Nat /\ g[x] \in Nat /\ f[x] <= g[x]
  PROVE  SumFunctionOnSet(f, S) <= SumFunctionOnSet(g, S)
<1> DEFINE F(s) == SumFunctionOnSet(f, s)
           G(s) == SumFunctionOnSet(g, s)
           B == {s \in SUBSET S : ~ (F(s) <= G(s))}
<1> SUFFICES ASSUME B # {} PROVE FALSE
  OBVIOUS
<1>1. PICK s \in B : \A t \in SUBSET s : t # s => t \notin B
  <2>1. B \in SUBSET (SUBSET S)
    OBVIOUS
  <2> HIDE DEF B
  <2> QED BY <2>1, SmallestSubset
<1> DEFINE p == Pick(s)
           t == s \ {p}
<1>2. IsFiniteSet(s) /\ IsFiniteSet(t) /\ t \in SUBSET S
  BY FS_Subset
<1>3. /\ F(s) = IF s = {} THEN 0 ELSE f[p] + F(t)
      /\ G(s) = IF s = {} THEN 0 ELSE g[p] + G(t)
  BY <1>2, SumStep
<1>4. s # {} => p \in s
  BY DEF Pick
<1>5. F(t) \in Nat /\ G(t) \in Nat
  <2> HIDE DEF t
  <2> QED BY <1>2, SumType
<1>6. s # {} => F(t) <= G(t)
  BY <1>1, <1>2, <1>4
<1> HIDE DEF F, G
<1> QED BY <1>3, <1>4, <1>5, <1>6

\* Elements whose value is 0 do not count.
LEMMA SumSupport ==
  ASSUME NEW f, NEW S, IsFiniteSet(S), NEW T \in SUBSET S,
         \A x \in S : f[x] \in Nat, \A x \in S \ T : f[x] = 0
  PROVE  SumFunctionOnSet(f, S) = SumFunctionOnSet(f, T)
<1> DEFINE F(s) == SumFunctionOnSet(f, s)
           B == {s \in SUBSET S : T \subseteq s /\ F(s) # F(T)}
<1> SUFFICES ASSUME B # {} PROVE FALSE
  OBVIOUS
<1>1. PICK s \in B : \A t \in SUBSET s : t # s => t \notin B
  <2>1. B \in SUBSET (SUBSET S)
    OBVIOUS
  <2> HIDE DEF B
  <2> QED BY <2>1, SmallestSubset
<1>2. PICK x \in s \ T : TRUE
  OBVIOUS
<1>3. s \ {x} \in SUBSET S /\ F(s \ {x}) = F(T)
  BY <1>1, <1>2
<1>4. F(s) = f[x] + F(s \ {x})
  <2>1. IsFiniteSet(s)
    BY FS_Subset
  <2> QED BY <1>2, <2>1, SumRemove
<1>5. F(s \ {x}) \in Nat
  <2>1. IsFiniteSet(s \ {x})
    BY <1>3, FS_Subset
  <2> QED BY <1>3, <2>1, SumType
<1> QED BY <1>2, <1>3, <1>4, <1>5

\* The sum of sums.
LEMMA SumAdd ==
  ASSUME NEW f, NEW g, NEW h, NEW S, IsFiniteSet(S),
         \A x \in S : f[x] \in Nat /\ g[x] \in Nat /\ h[x] = f[x] + g[x]
  PROVE  SumFunctionOnSet(h, S) = SumFunctionOnSet(f, S) + SumFunctionOnSet(g, S)
<1> DEFINE F(s) == SumFunctionOnSet(f, s)
           G(s) == SumFunctionOnSet(g, s)
           H(s) == SumFunctionOnSet(h, s)
           B == {s \in SUBSET S : H(s) # F(s) + G(s)}
<1> SUFFICES ASSUME B # {} PROVE FALSE
  OBVIOUS
<1>1. PICK s \in B : \A t \in SUBSET s : t # s => t \notin B
  <2>1. B \in SUBSET (SUBSET S)
    OBVIOUS
  <2> HIDE DEF B
  <2> QED BY <2>1, SmallestSubset
<1> DEFINE p == Pick(s)
           t == s \ {p}
<1>2. IsFiniteSet(s) /\ IsFiniteSet(t) /\ t \in SUBSET S
  BY FS_Subset
<1>3. /\ F(s) = IF s = {} THEN 0 ELSE f[p] + F(t)
      /\ G(s) = IF s = {} THEN 0 ELSE g[p] + G(t)
      /\ H(s) = IF s = {} THEN 0 ELSE h[p] + H(t)
  BY <1>2, SumStep
<1>4. s # {} => p \in s
  BY DEF Pick
<1>5. F(t) \in Nat /\ G(t) \in Nat
  <2> HIDE DEF t
  <2> QED BY <1>2, SumType
<1>6. s # {} => H(t) = F(t) + G(t)
  BY <1>1, <1>2, <1>4
<1> HIDE DEF F, G, H
<1> QED BY <1>3, <1>4, <1>5, <1>6
=============================================================================
