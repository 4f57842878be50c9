----------------------------- MODULE SumTheorems -----------------------------
(***************************************************************************)
(* Sums over finite sets, as SumFunctionOnSet of Functions.tla computes    *)
(* them: one element after the other, in an order CHOOSE picks.  The       *)
(* theorems say that the order does not matter: an element can be added or *)
(* taken out anywhere.  They are what the proofs about cash, positions and *)
(* trade logs rest on.  At the end, what quotients come to.                *)
(*                                                                         *)
(* The library's induction theorems take the induction hypothesis as an    *)
(* operator; here it is the set of the values it holds for, and induction  *)
(* follows from strict inclusion of finite sets being well-founded.        *)
(***************************************************************************)
EXTENDS Integers, FiniteSets, FiniteSetsExt, FiniteSetTheorems, TLAPS

-----------------------------------------------------------------------------
(* Induction.                                                              *)

\* Finite sets: what holds of {}, and of T \cup {x} if of T, holds of S.
LEMMA SubsetInduction ==
    ASSUME NEW S, IsFiniteSet(S), NEW G, {} \in G,
           \A T \in SUBSET S, x \in S : T \in G => T \cup {x} \in G
    PROVE  S \in G
<1> DEFINE Bad == {T \in FiniteSubsetsOf(S) : T \notin G}
<1> SUFFICES ASSUME S \notin G PROVE FALSE
    OBVIOUS
<1>1. S \in Bad
    BY FS_FiniteSubsetsOfFinite
<1>2. PICK U \in Bad : \A V \in Bad : <<V, U>> \notin StrictSubsetOrdering(S)
    <2> HIDE DEF Bad
    <2>1. Bad \subseteq FiniteSubsetsOf(S)
        BY DEF Bad
    <2> QED
        BY <1>1, <2>1, FS_StrictSubsetOrderingWellFounded, WFMin
<1>3. PICK x \in U : TRUE
    OBVIOUS
<1>4. U \in SUBSET S /\ U \ {x} \in SUBSET S /\ U \ {x} # U
    BY <1>3 DEF FiniteSubsetsOf
<1>5. U \ {x} \notin Bad
    BY <1>2, <1>4 DEF StrictSubsetOrdering
<1>6. U \ {x} \in G
    BY <1>4, <1>5, FS_FiniteSubsetsOfFinite
<1>7. U = (U \ {x}) \cup {x}
    BY <1>3
<1> QED
    BY <1>3, <1>4, <1>6, <1>7

\* Natural numbers, as the last elements of the intervals 0 .. n.
LEMMA NatSetInduction ==
    ASSUME NEW G, 0 \in G, \A n \in Nat : n \in G => n + 1 \in G
    PROVE  Nat \subseteq G
<1> DEFINE Bad == {i \in FiniteSubsetsOf(Nat) : \E n \in Nat : n \notin G /\ i = 0 .. n}
<1> SUFFICES ASSUME NEW k \in Nat, k \notin G PROVE FALSE
    OBVIOUS
<1>1. \A n \in Nat : 0 .. n \in FiniteSubsetsOf(Nat)
    BY FS_Interval DEF FiniteSubsetsOf
<1>2. 0 .. k \in Bad
    BY <1>1
<1>3. PICK U \in Bad : \A V \in Bad : <<V, U>> \notin StrictSubsetOrdering(Nat)
    <2>1. Bad \subseteq FiniteSubsetsOf(Nat)
        OBVIOUS
    <2> HIDE DEF Bad
    <2> QED
        BY <1>2, <2>1, FS_StrictSubsetOrderingWellFounded, WFMin
<1>4. PICK n \in Nat : n \notin G /\ U = 0 .. n
    OBVIOUS
<1>5. n - 1 \in Nat /\ n - 1 \notin G
    BY <1>4
<1>6. 0 .. (n - 1) \in Bad
    BY <1>1, <1>5
<1>7. 0 .. (n - 1) \subseteq 0 .. n /\ n \in 0 .. n /\ n \notin 0 .. (n - 1)
    BY <1>4
<1>8. <<0 .. (n - 1), U>> \in StrictSubsetOrdering(Nat)
    BY <1>4, <1>7 DEF StrictSubsetOrdering
<1> QED
    BY <1>3, <1>6, <1>8

\* f starts at v and goes on by these steps, up to n.
Unrolls(f, v, step, n) == f[0] = v /\ \A i \in 1 .. n : f[i] = step[i][f[i - 1]]

\* There is such a function.
LEMMA FiniteRecursion ==
    ASSUME NEW N \in Nat, NEW V, NEW v \in V, NEW step \in [1 .. N -> [V -> V]]
    PROVE  \E f \in [0 .. N -> V] : Unrolls(f, v, step, N)
<1> DEFINE Solves(f, k) == Unrolls(f, v, step, k)
           G == {k \in Nat : k <= N => \E f \in [0 .. N -> V] : Solves(f, k)}
<1>1. 0 \in G
    <2>1. [n \in 0 .. N |-> v] \in [0 .. N -> V] /\ Solves([n \in 0 .. N |-> v], 0)
        BY DEF Unrolls
    <2> QED
        BY <2>1
<1>2. \A k \in Nat : k \in G => k + 1 \in G
    <2> SUFFICES ASSUME NEW k \in Nat, k \in G PROVE k + 1 \in G
        OBVIOUS
    <2>0. CASE ~(k + 1 <= N)
        BY <2>0
    <2> SUFFICES ASSUME k + 1 <= N PROVE k + 1 \in G
        BY <2>0
    <2>1. PICK f \in [0 .. N -> V] : Solves(f, k)
        OBVIOUS
    <2> DEFINE g == [f EXCEPT ![k + 1] = step[k + 1][f[k]]]
    <2>2. g \in [0 .. N -> V]
        OBVIOUS
    <2>3. ASSUME NEW i \in 1 .. (k + 1) PROVE g[i] = step[i][g[i - 1]]
        <3>1. CASE i = k + 1
            <4>1. g[i] = step[k + 1][f[k]] /\ g[i - 1] = f[k]
                BY <3>1
            <4> QED BY <3>1, <4>1
        <3>2. CASE i # k + 1
            <4>1. i \in 1 .. k
                BY <3>2
            <4>2. g[i] = f[i] /\ g[i - 1] = f[i - 1]
                BY <4>1
            <4> QED BY <2>1, <4>1, <4>2 DEF Unrolls
        <3> QED BY <3>1, <3>2
    <2>4. g[0] = f[0]
        OBVIOUS
    <2>5. Solves(g, k + 1)
        BY <2>1, <2>3, <2>4 DEF Unrolls
    <2>6. \E h \in [0 .. N -> V] : Solves(h, k + 1)
        <3> HIDE DEF g, Solves
        <3> QED BY <2>2, <2>5
    <2> QED
        BY <2>6
<1>3. N \in G
    <2> HIDE DEF G
    <2> QED BY <1>1, <1>2, NatSetInduction
<1> QED
    BY <1>3

\* What starts among some values and goes on among them stays there.
LEMMA StaysAmong ==
    ASSUME NEW N \in Nat, NEW V, NEW p, p[0] \in V, \A i \in 1 .. N : p[i - 1] \in V => p[i] \in V
    PROVE  \A i \in 0 .. N : p[i] \in V
<1> DEFINE G == {n \in Nat : n <= N => p[n] \in V}
<1>1. 0 \in G
    OBVIOUS
<1>2. \A n \in Nat : n \in G => n + 1 \in G
    <2> SUFFICES ASSUME NEW n \in Nat, n \in G, n + 1 <= N PROVE p[n + 1] \in V
        OBVIOUS
    <2>1. n + 1 \in 1 .. N /\ (n + 1) - 1 = n /\ p[n] \in V
        OBVIOUS
    <2> QED BY <2>1
<1>3. Nat \subseteq G
    <2> HIDE DEF G
    <2> QED BY <1>1, <1>2, NatSetInduction
<1> QED
    BY <1>3

-----------------------------------------------------------------------------
(* The recursion inside SumFunctionOnSet.                                  *)

\* The element that is summed next, and the recursive function on subsets.
Chosen(s) == CHOOSE x \in s : TRUE

SumIter(f, S) == CHOOSE it : it = [s \in SUBSET S |->
                  IF s = {} THEN 0 ELSE f[Chosen(s)] + it[s \ {Chosen(s)}]]

\* An element is chosen if there is one.
LEMMA ChosenIn ==
    ASSUME NEW s, s # {}
    PROVE  Chosen(s) \in s
BY Zenon DEF Chosen

\* The sum is the value of that function at the whole set.
LEMMA SumIsIter ==
    ASSUME NEW f, NEW S
    PROVE  SumFunctionOnSet(f, S) = SumIter(f, S)[S]
BY Zenon DEF SumFunctionOnSet, FoldFunctionOnSet, MapThenFoldSet, SumIter, Chosen

\* Subsets of a finite set, and what choosing an element leaves.
LEMMA SubsetCard ==
    ASSUME NEW S, IsFiniteSet(S), NEW s \in SUBSET S
    PROVE  /\ IsFiniteSet(s) /\ Cardinality(s) \in Nat /\ (Cardinality(s) = 0 <=> s = {})
           /\ Cardinality(s) <= Cardinality(S)
           /\ s # {} => /\ s \ {Chosen(s)} \in SUBSET S
                        /\ Cardinality(s \ {Chosen(s)}) = Cardinality(s) - 1
<1>1. IsFiniteSet(s) /\ Cardinality(s) \in Nat /\ (Cardinality(s) = 0 <=> s = {})
    BY FS_Subset, FS_CardinalityType, FS_EmptySet
<1>2. s # {} => Cardinality(s \ {Chosen(s)}) = Cardinality(s) - 1
    BY <1>1, ChosenIn, FS_RemoveElement
<1> QED
    BY <1>1, <1>2, FS_Subset

\* The recursion has a solution: functions that satisfy it for the subsets of up
\* to n elements exist for every n.
LEMMA IterDef ==
    ASSUME NEW S, IsFiniteSet(S), NEW f, \A x \in S : f[x] \in Int
    PROVE  /\ SumIter(f, S) \in [SUBSET S -> Int]
           /\ \A s \in SUBSET S : SumIter(f, S)[s] =
                 IF s = {} THEN 0 ELSE f[Chosen(s)] + SumIter(f, S)[s \ {Chosen(s)}]
<1> DEFINE Step(g) == [s \in SUBSET S |-> IF s = {} THEN 0 ELSE f[Chosen(s)] + g[s \ {Chosen(s)}]]
           Up(n) == {s \in SUBSET S : Cardinality(s) <= n}
           Solves(g, n) == \A s \in Up(n) : g[s] = Step(g)[s]
           G == {n \in Nat : \E g \in [SUBSET S -> Int] : Solves(g, n)}
<1>a. ASSUME NEW s \in SUBSET S
      PROVE  Cardinality(s) \in Nat /\ (Cardinality(s) <= 0 => s = {})
    <2>1. Cardinality(s) \in Nat /\ (Cardinality(s) = 0 <=> s = {})
        BY SubsetCard
    <2> QED
        BY <2>1
<1>b. \A s \in SUBSET S : s # {} => /\ Chosen(s) \in s /\ s \ {Chosen(s)} \in SUBSET S
                                   /\ Cardinality(s \ {Chosen(s)}) = Cardinality(s) - 1
    BY SubsetCard, ChosenIn
<1>1. 0 \in G
    <2> DEFINE g == [s \in SUBSET S |-> 0]
    <2>1. g \in [SUBSET S -> Int] 
        OBVIOUS
    <2>2. Solves(g, 0)
        BY <1>a
    <2>3. \E h \in [SUBSET S -> Int] : Solves(h, 0)
        <3> HIDE DEF Solves, g
        <3> QED BY <2>1, <2>2
    <2> QED
        BY <2>3
<1>2. \A n \in Nat : n \in G => n + 1 \in G
    <2> SUFFICES ASSUME NEW n \in Nat, n \in G PROVE n + 1 \in G
        OBVIOUS
    <2>1. PICK g \in [SUBSET S -> Int] : Solves(g, n)
        OBVIOUS
    <2>2. Step(g) \in [SUBSET S -> Int]
        BY ChosenIn
    <2>3. \A s \in Up(n) : Step(g)[s] = g[s]
        BY <2>1
    <2>4. \A s \in Up(n + 1) : s # {} => s \ {Chosen(s)} \in Up(n)
        BY <1>a, <1>b
    <2>5. Solves(Step(g), n + 1)
        BY <1>b, <2>3, <2>4
    <2>6. \E h \in [SUBSET S -> Int] : Solves(h, n + 1)
        <3> HIDE DEF Solves, Step
        <3> QED BY <2>2, <2>5
    <2>7. n + 1 \in Nat
        OBVIOUS
    <2> HIDE DEF Solves
    <2> QED
        BY <2>6, <2>7, Zenon
<1>3. Cardinality(S) \in G
    <2> HIDE DEF G
    <2> QED BY <1>1, <1>2, NatSetInduction, FS_CardinalityType
<1>4. \E g \in [SUBSET S -> Int] : g = Step(g)
    <2>1. PICK g \in [SUBSET S -> Int] : Solves(g, Cardinality(S))
        BY <1>3
    <2>2. \A s \in SUBSET S : s \in Up(Cardinality(S))
        BY SubsetCard
    <2> QED
        BY <2>1, <2>2
<1>5. SumIter(f, S) = Step(SumIter(f, S))
    BY <1>4, Zenon DEF SumIter
<1> DEFINE E == {n \in Nat : \A s \in Up(n) : SumIter(f, S)[s] \in Int}
<1>6. 0 \in E
    BY <1>5, <1>a
<1>7. \A n \in Nat : n \in E => n + 1 \in E
    <2> SUFFICES ASSUME NEW n \in Nat, n \in E, NEW s \in SUBSET S, Cardinality(s) <= n + 1
                 PROVE  SumIter(f, S)[s] \in Int
        OBVIOUS
    <2>1. CASE s = {}
        BY <1>5, <2>1
    <2>2. CASE s # {}
        <3>1. SumIter(f, S)[s \ {Chosen(s)}] \in Int
            BY <1>a, <1>b, <2>2
        <3>2. SumIter(f, S)[s] = f[Chosen(s)] + SumIter(f, S)[s \ {Chosen(s)}]
            BY <1>5, <2>2
        <3> QED
            BY <1>b, <2>2, <3>1, <3>2
    <2> QED
        BY <2>1, <2>2
<1>8. Cardinality(S) \in E
    <2> HIDE DEF E
    <2> QED BY <1>6, <1>7, NatSetInduction, FS_CardinalityType
<1>9. \A s \in SUBSET S : SumIter(f, S)[s] \in Int
    BY <1>8, SubsetCard
<1>10. SumIter(f, S) \in [SUBSET S -> Int]
    BY <1>5, <1>9
<1> QED
    BY <1>5, <1>10

\* Summing part of a set does not depend on what else is in it.
LEMMA IterSub ==
    ASSUME NEW S, IsFiniteSet(S), NEW f, \A x \in S : f[x] \in Int, NEW T \in SUBSET S
    PROVE  SumIter(f, S)[T] = SumFunctionOnSet(f, T)
<1> DEFINE E == {n \in Nat : \A s \in SUBSET T : Cardinality(s) <= n => SumIter(f, S)[s] = SumIter(f, T)[s]}
<1>0. IsFiniteSet(T)
    BY FS_Subset
<1>1. \A s \in SUBSET T : SumIter(f, T)[s] =
                 IF s = {} THEN 0 ELSE f[Chosen(s)] + SumIter(f, T)[s \ {Chosen(s)}]
    BY <1>0, IterDef
<1>2. \A s \in SUBSET T : SumIter(f, S)[s] =
                 IF s = {} THEN 0 ELSE f[Chosen(s)] + SumIter(f, S)[s \ {Chosen(s)}]
    BY IterDef
<1>a. ASSUME NEW s \in SUBSET T
      PROVE  Cardinality(s) \in Nat /\ (Cardinality(s) <= 0 => s = {})
    <2>1. Cardinality(s) \in Nat /\ (Cardinality(s) = 0 <=> s = {})
        BY <1>0, SubsetCard
    <2> QED
        BY <2>1
<1>b. \A s \in SUBSET T : s # {} => /\ Chosen(s) \in s /\ s \ {Chosen(s)} \in SUBSET T
                                   /\ Cardinality(s \ {Chosen(s)}) = Cardinality(s) - 1
    BY <1>0, SubsetCard, ChosenIn
<1>3. 0 \in E
    BY <1>1, <1>2, <1>a
<1>4. \A n \in Nat : n \in E => n + 1 \in E
    <2> SUFFICES ASSUME NEW n \in Nat, n \in E, NEW s \in SUBSET T, Cardinality(s) <= n + 1
                 PROVE  SumIter(f, S)[s] = SumIter(f, T)[s]
        OBVIOUS
    <2>1. CASE s = {}
        BY <1>1, <1>2, <2>1
    <2>2. CASE s # {}
        <3>1. SumIter(f, S)[s \ {Chosen(s)}] = SumIter(f, T)[s \ {Chosen(s)}]
            BY <1>a, <1>b, <2>2
        <3> QED
            BY <1>1, <1>2, <2>2, <3>1
    <2> QED
        BY <2>1, <2>2
<1>5. Cardinality(T) \in E
    <2> HIDE DEF E
    <2> QED BY <1>0, <1>3, <1>4, NatSetInduction, FS_CardinalityType
<1> QED
    BY <1>0, <1>5, SumIsIter, SubsetCard

-----------------------------------------------------------------------------
(* What sums are.                                                          *)

\* Nothing sums to 0.
THEOREM SumEmpty == ASSUME NEW f PROVE SumFunctionOnSet(f, {}) = 0
BY IterDef, SumIsIter, FS_EmptySet

\* Integers sum to an integer.
THEOREM SumInt ==
    ASSUME NEW S, IsFiniteSet(S), NEW f, \A x \in S : f[x] \in Int
    PROVE  SumFunctionOnSet(f, S) \in Int
<1>1. SumIter(f, S) \in [SUBSET S -> Int]
    BY IterDef
<1> QED
    BY <1>1, SumIsIter

\* The chosen element comes first ...
LEMMA SumChosen ==
    ASSUME NEW S, IsFiniteSet(S), NEW f, \A x \in S : f[x] \in Int, S # {}
    PROVE  SumFunctionOnSet(f, S) = f[Chosen(S)] + SumFunctionOnSet(f, S \ {Chosen(S)})
<1>1. SumIter(f, S)[S] = f[Chosen(S)] + SumIter(f, S)[S \ {Chosen(S)}]
    BY IterDef
<1>2. SumIter(f, S)[S \ {Chosen(S)}] = SumFunctionOnSet(f, S \ {Chosen(S)})
    BY IterSub
<1> QED
    BY <1>1, <1>2, SumIsIter

\* ... but any element could.
THEOREM SumRemove ==
    ASSUME NEW S, IsFiniteSet(S), NEW f, \A x \in S : f[x] \in Int, NEW x \in S
    PROVE  SumFunctionOnSet(f, S) = f[x] + SumFunctionOnSet(f, S \ {x})
<1> DEFINE Sum(s) == SumFunctionOnSet(f, s)
           E == {n \in Nat : \A s \in SUBSET S : Cardinality(s) <= n =>
                                \A y \in s : Sum(s) = f[y] + Sum(s \ {y})}
<1>1. \A s \in SUBSET S : s # {} => Sum(s) = f[Chosen(s)] + Sum(s \ {Chosen(s)})
    BY SumChosen, SubsetCard
<1>2. \A s \in SUBSET S : Sum(s) \in Int
    BY SumInt, SubsetCard
<1> HIDE DEF Sum
<1>3. 0 \in E
    <2>1. ASSUME NEW s \in SUBSET S
          PROVE  Cardinality(s) \in Nat /\ (Cardinality(s) <= 0 => s = {})
        <3>1. Cardinality(s) \in Nat /\ (Cardinality(s) = 0 <=> s = {})
            BY SubsetCard
        <3> QED
            BY <3>1
    <2> QED
        BY <2>1
<1>4. \A n \in Nat : n \in E => n + 1 \in E
    <2> SUFFICES ASSUME NEW n \in Nat, n \in E PROVE n + 1 \in E
        BY Zenon
    <2> SUFFICES ASSUME NEW s \in SUBSET S, Cardinality(s) <= n + 1, NEW y \in s
                 PROVE  Sum(s) = f[y] + Sum(s \ {y})
        OBVIOUS
    <2> DEFINE p == Chosen(s)
               r == s \ {p}
               q == s \ {y}
    <2>1. p \in s /\ Cardinality(r) <= n /\ Cardinality(q) <= n
          /\ r \in SUBSET S /\ q \in SUBSET S
        BY ChosenIn, SubsetCard, FS_RemoveElement
    <2>2. Sum(s) = f[p] + Sum(r)
        BY <1>1
    <2>3. CASE y = p
        BY <2>2, <2>3
    <2>4. CASE y # p
        <3>0. y \in r /\ p \in q
            BY <2>1, <2>4
        <3>1. Sum(r) = f[y] + Sum(r \ {y})
            BY <2>1, <3>0
        <3>2. Sum(q) = f[p] + Sum(q \ {p})
            BY <2>1, <3>0
        <3>3. r \ {y} = q \ {p}
            OBVIOUS
        <3>4. f[y] \in Int /\ f[p] \in Int /\ Sum(q \ {p}) \in Int
            BY <1>2, <2>1, SubsetCard
        <3>5. Sum(s) = f[p] + (f[y] + Sum(q \ {p})) /\ Sum(q) = f[p] + Sum(q \ {p})
            BY <2>2, <3>1, <3>2, <3>3
        <3> HIDE DEF p, r
        <3> QED
            BY <3>4, <3>5
    <2> QED
        BY <2>3, <2>4
<1>5. Cardinality(S) \in E
    <2> HIDE DEF E
    <2> QED BY <1>3, <1>4, NatSetInduction, FS_CardinalityType
<1> QED
    BY <1>5, SubsetCard DEF Sum

\* A new element adds its value.
THEOREM SumAdd ==
    ASSUME NEW S, IsFiniteSet(S), NEW x, x \notin S,
           NEW f, \A y \in S \cup {x} : f[y] \in Int
    PROVE  SumFunctionOnSet(f, S \cup {x}) = SumFunctionOnSet(f, S) + f[x]
<1>1. IsFiniteSet(S \cup {x}) /\ (S \cup {x}) \ {x} = S
    BY FS_AddElement
<1> QED
    BY <1>1, SumRemove, SumInt

\* One element.
THEOREM SumOne ==
    ASSUME NEW f, NEW x, f[x] \in Int
    PROVE  SumFunctionOnSet(f, {x}) = f[x]
<1>1. SumFunctionOnSet(f, {} \cup {x}) = SumFunctionOnSet(f, {}) + f[x]
    BY SumAdd, FS_EmptySet
<1>2. {} \cup {x} = {x}
    OBVIOUS
<1> QED
    BY <1>1, <1>2, SumEmpty

\* Only the values at the elements count.
THEOREM SumSame ==
    ASSUME NEW S, IsFiniteSet(S), NEW f, NEW g, 
           \A x \in S : f[x] \in Int /\ f[x] = g[x]
    PROVE  SumFunctionOnSet(f, S) = SumFunctionOnSet(g, S)
<1> DEFINE E == {s \in SUBSET S : SumFunctionOnSet(f, s) = SumFunctionOnSet(g, s)}
<1>1. {} \in E
    BY SumEmpty
<1>2. \A s \in SUBSET S, x \in S : s \in E => s \cup {x} \in E
    <2> SUFFICES ASSUME NEW s \in SUBSET S, NEW x \in S, s \in E PROVE s \cup {x} \in E
        OBVIOUS
    <2>1. CASE x \in s
        <3>1. s \cup {x} = s
            BY <2>1
        <3> QED BY <3>1
    <2>2. CASE x \notin s
        <3>0. IsFiniteSet(s) /\ \A y \in s \cup {x} : f[y] \in Int /\ g[y] \in Int
            BY SubsetCard
        <3>1. SumFunctionOnSet(f, s \cup {x}) = SumFunctionOnSet(f, s) + f[x]
            BY <2>2, <3>0, SumAdd
        <3>2. SumFunctionOnSet(g, s \cup {x}) = SumFunctionOnSet(g, s) + g[x]
            BY <2>2, <3>0, SumAdd
        <3> QED BY <3>1, <3>2
    <2> QED
        BY <2>1, <2>2
<1>3. S \in E
    <2> HIDE DEF E
    <2> QED BY <1>1, <1>2, SubsetInduction
<1> QED
    BY <1>3

\* Natural numbers sum to a natural number.
THEOREM SumNat ==
    ASSUME NEW S, IsFiniteSet(S), NEW f, \A x \in S : f[x] \in Nat
    PROVE  SumFunctionOnSet(f, S) \in Nat
<1> DEFINE E == {s \in SUBSET S : SumFunctionOnSet(f, s) \in Nat}
<1>1. {} \in E
    BY SumEmpty
<1>2. \A s \in SUBSET S, x \in S : s \in E => s \cup {x} \in E
    <2> SUFFICES ASSUME NEW s \in SUBSET S, NEW x \in S, s \in E PROVE s \cup {x} \in E
        OBVIOUS
    <2>1. CASE x \in s
        <3>1. s \cup {x} = s
            BY <2>1
        <3> QED BY <3>1
    <2>2. CASE x \notin s
        <3>0. IsFiniteSet(s) /\ \A y \in s \cup {x} : f[y] \in Int
            <4>1. \A y \in S : f[y] \in Int
                OBVIOUS
            <4> QED BY <4>1, SubsetCard
        <3>1. SumFunctionOnSet(f, s \cup {x}) = SumFunctionOnSet(f, s) + f[x]
            BY <2>2, <3>0, SumAdd
        <3> QED BY <3>1
    <2> QED
        BY <2>1, <2>2
<1>3. S \in E
    <2> HIDE DEF E
    <2> QED BY <1>1, <1>2, SubsetInduction
<1> QED
    BY <1>3

\* Sums are added value by value.
THEOREM SumPlus ==
    ASSUME NEW S, IsFiniteSet(S), NEW f, NEW g, NEW h,
           \A x \in S : f[x] \in Int /\ g[x] \in Int /\ h[x] = f[x] + g[x]
    PROVE  SumFunctionOnSet(h, S) = SumFunctionOnSet(f, S) + SumFunctionOnSet(g, S)
<1> DEFINE E == {s \in SUBSET S :
                    SumFunctionOnSet(h, s) = SumFunctionOnSet(f, s) + SumFunctionOnSet(g, s)}
<1>1. {} \in E
    BY SumEmpty
<1>2. \A s \in SUBSET S, x \in S : s \in E => s \cup {x} \in E
    <2> SUFFICES ASSUME NEW s \in SUBSET S, NEW x \in S, s \in E PROVE s \cup {x} \in E
        OBVIOUS
    <2>1. CASE x \in s
        <3>1. s \cup {x} = s
            BY <2>1
        <3> QED BY <3>1
    <2>2. CASE x \notin s
        <3>0. IsFiniteSet(s) /\ \A y \in s \cup {x} : f[y] \in Int /\ g[y] \in Int /\ h[y] \in Int
            <4>1. \A y \in S : f[y] \in Int /\ g[y] \in Int /\ h[y] \in Int
                OBVIOUS
            <4> QED BY <4>1, SubsetCard
        <3>1. SumFunctionOnSet(f, s \cup {x}) = SumFunctionOnSet(f, s) + f[x]
            BY <2>2, <3>0, SumAdd
        <3>2. SumFunctionOnSet(g, s \cup {x}) = SumFunctionOnSet(g, s) + g[x]
            BY <2>2, <3>0, SumAdd
        <3>3. SumFunctionOnSet(h, s \cup {x}) = SumFunctionOnSet(h, s) + h[x]
            BY <2>2, <3>0, SumAdd
        <3>4. SumFunctionOnSet(f, s) \in Int /\ SumFunctionOnSet(g, s) \in Int
            BY <3>0, SumInt
        <3> QED BY <3>1, <3>2, <3>3, <3>4
    <2> QED
        BY <2>1, <2>2
<1>3. S \in E
    <2> HIDE DEF E
    <2> QED BY <1>1, <1>2, SubsetInduction
<1> QED
    BY <1>3

\* Smaller values have the smaller sum.
THEOREM SumLess ==
    ASSUME NEW S, IsFiniteSet(S), NEW f, NEW g,
           \A x \in S : f[x] \in Int /\ g[x] \in Int /\ f[x] <= g[x]
    PROVE  SumFunctionOnSet(f, S) <= SumFunctionOnSet(g, S)
<1> DEFINE d == [x \in S |-> g[x] - f[x]]
<1>1. \A x \in S : d[x] \in Nat /\ d[x] \in Int /\ f[x] \in Int /\ g[x] = f[x] + d[x]
    OBVIOUS
<1> HIDE DEF d
<1>2. SumFunctionOnSet(g, S) = SumFunctionOnSet(f, S) + SumFunctionOnSet(d, S)
    BY <1>1, SumPlus
<1>3. SumFunctionOnSet(d, S) \in Nat /\ SumFunctionOnSet(f, S) \in Int
    BY <1>1, SumNat, SumInt
<1> QED
    BY <1>2, <1>3

\* A part and the rest.
THEOREM SumSplit ==
    ASSUME NEW S, IsFiniteSet(S), NEW T \in SUBSET S, NEW f, \A x \in S : f[x] \in Int
    PROVE  SumFunctionOnSet(f, S) = SumFunctionOnSet(f, T) + SumFunctionOnSet(f, S \ T)
<1> DEFINE R == S \ T
           E == {s \in SUBSET T : SumFunctionOnSet(f, R \cup s) =
                                      SumFunctionOnSet(f, s) + SumFunctionOnSet(f, R)}
<1>0. IsFiniteSet(T) /\ IsFiniteSet(R) /\ SumFunctionOnSet(f, R) \in Int
    <2>1. IsFiniteSet(T) /\ IsFiniteSet(R)
        BY FS_Subset
    <2>2. \A x \in R : f[x] \in Int
        OBVIOUS
    <2> QED BY <2>1, <2>2, SumInt
<1>1. {} \in E
    BY <1>0, SumEmpty
<1>2. \A s \in SUBSET T, x \in T : s \in E => s \cup {x} \in E
    <2> SUFFICES ASSUME NEW s \in SUBSET T, NEW x \in T, s \in E PROVE s \cup {x} \in E
        OBVIOUS
    <2>1. CASE x \in s
        <3>1. s \cup {x} = s
            BY <2>1
        <3> QED BY <3>1
    <2>2. CASE x \notin s
        <3>0. /\ IsFiniteSet(s) /\ \A y \in s \cup {x} : f[y] \in Int
              /\ IsFiniteSet(R \cup s) /\ x \notin R \cup s
              /\ \A y \in (R \cup s) \cup {x} : f[y] \in Int
            <4>1. s \subseteq S /\ R \cup s \subseteq S
                OBVIOUS
            <4>2. IsFiniteSet(s) /\ IsFiniteSet(R \cup s)
                BY <4>1, FS_Subset
            <4> QED BY <4>2, <2>2
        <3>1. SumFunctionOnSet(f, s \cup {x}) = SumFunctionOnSet(f, s) + f[x]
            BY <2>2, <3>0, SumAdd
        <3>2. SumFunctionOnSet(f, (R \cup s) \cup {x}) = SumFunctionOnSet(f, R \cup s) + f[x]
            BY <3>0, SumAdd
        <3>3. R \cup (s \cup {x}) = (R \cup s) \cup {x}
            OBVIOUS
        <3>4. SumFunctionOnSet(f, s) \in Int /\ f[x] \in Int
            BY <3>0, SumInt
        <3>5. SumFunctionOnSet(f, R \cup s) = SumFunctionOnSet(f, s) + SumFunctionOnSet(f, R)
            OBVIOUS
        <3>6. SumFunctionOnSet(f, R \cup (s \cup {x})) =
                  SumFunctionOnSet(f, s \cup {x}) + SumFunctionOnSet(f, R)
            <4> HIDE DEF R, E
            <4>1. SumFunctionOnSet(f, R \cup (s \cup {x})) = SumFunctionOnSet(f, R \cup s) + f[x]
                BY <3>2, <3>3, Zenon
            <4> QED BY <3>1, <3>4, <3>5, <4>1, <1>0
        <3> QED BY <3>6
    <2> QED
        BY <2>1, <2>2
<1>3. T \in E
    <2> HIDE DEF E
    <2> QED BY <1>0, <1>1, <1>2, SubsetInduction
<1>4. R \cup T = S
    OBVIOUS
<1> QED
    BY <1>3, <1>4

\* Elements may be renamed, as long as they stay apart.
THEOREM SumRename ==
    ASSUME NEW S, IsFiniteSet(S), NEW m, NEW f, NEW g,
           \A x, y \in S : m[x] = m[y] => x = y,
           \A x \in S : f[x] \in Int /\ g[m[x]] = f[x]
    PROVE  SumFunctionOnSet(g, {m[x] : x \in S}) = SumFunctionOnSet(f, S)
<1> DEFINE New(s) == {m[x] : x \in s}
           E == {s \in SUBSET S : /\ IsFiniteSet(New(s))
                                  /\ SumFunctionOnSet(g, New(s)) = SumFunctionOnSet(f, s)}
<1>1. {} \in E
    <2>1. New({}) = {}
        OBVIOUS
    <2> QED BY <2>1, SumEmpty, FS_EmptySet
<1>2. \A s \in SUBSET S, x \in S : s \in E => s \cup {x} \in E
    <2> SUFFICES ASSUME NEW s \in SUBSET S, NEW x \in S, s \in E PROVE s \cup {x} \in E
        OBVIOUS
    <2>1. CASE x \in s
        <3>1. s \cup {x} = s
            BY <2>1
        <3> QED BY <3>1
    <2>2. CASE x \notin s
        <3>0. IsFiniteSet(s) /\ \A y \in s \cup {x} : f[y] \in Int
            BY SubsetCard
        <3>1. SumFunctionOnSet(f, s \cup {x}) = SumFunctionOnSet(f, s) + f[x]
            BY <2>2, <3>0, SumAdd, ZenonT(60)
        <3>2. New(s \cup {x}) = New(s) \cup {m[x]} /\ m[x] \notin New(s)
            BY <2>2
        <3>3. \A y \in New(s) \cup {m[x]} : g[y] \in Int
            OBVIOUS
        <3>4. IsFiniteSet(New(s) \cup {m[x]})
            BY FS_AddElement
        <3>6. IsFiniteSet(New(s))
            OBVIOUS
        <3> HIDE DEF New, E
        <3>5. SumFunctionOnSet(g, New(s) \cup {m[x]}) = SumFunctionOnSet(g, New(s)) + g[m[x]]
            <4> DEFINE t == New(s)
                       z == m[x]
            <4>1. IsFiniteSet(t) /\ z \notin t /\ \A y \in t \cup {z} : g[y] \in Int
                BY <3>2, <3>3, <3>6
            <4> HIDE DEF t, z
            <4>2. SumFunctionOnSet(g, t \cup {z}) = SumFunctionOnSet(g, t) + g[z]
                BY <4>1, SumAdd
            <4> QED BY <4>2 DEF t, z
        <3>7. SumFunctionOnSet(g, New(s)) = SumFunctionOnSet(f, s) /\ g[m[x]] = f[x]
            BY DEF E
        <3>8. /\ IsFiniteSet(New(s \cup {x}))
              /\ SumFunctionOnSet(g, New(s \cup {x})) = SumFunctionOnSet(f, s \cup {x})
            BY <3>1, <3>2, <3>4, <3>5, <3>7
        <3> QED BY <3>8 DEF E
    <2> QED
        BY <2>1, <2>2
<1>3. S \in E
    <2> HIDE DEF E
    <2> QED BY <1>1, <1>2, SubsetInduction
<1> QED
    BY <1>3


\* SumFunction: a function that grows by one element of its domain, keeping the
\* values it had.
THEOREM SumGrows ==
    ASSUME NEW S, IsFiniteSet(S), NEW x, x \notin S, NEW f, NEW g,
           DOMAIN f = S, DOMAIN g = S \cup {x},
           \A y \in S : f[y] \in Int /\ g[y] = f[y], g[x] \in Int
    PROVE  SumFunction(g) = SumFunction(f) + g[x] /\ SumFunction(f) \in Int
<1>1. SumFunctionOnSet(g, S \cup {x}) = SumFunctionOnSet(g, S) + g[x]
    BY SumAdd
<1>2. SumFunctionOnSet(f, S) = SumFunctionOnSet(g, S)
    BY SumSame
<1> QED
    BY <1>1, <1>2, SumInt DEF SumFunction

\* SumFunction: a function that keeps its domain and its values.
THEOREM SumStays ==
    ASSUME NEW S, IsFiniteSet(S), NEW f, NEW g, DOMAIN f = S, DOMAIN g = S,
           \A y \in S : f[y] \in Int /\ g[y] = f[y]
    PROVE  SumFunction(g) = SumFunction(f) /\ SumFunction(f) \in Int
BY SumSame, SumInt DEF SumFunction

\* SumFunction: a function on two parts of its domain.
THEOREM SumParts ==
    ASSUME NEW S, IsFiniteSet(S), NEW T \in SUBSET S, NEW f, NEW g, NEW h,
           DOMAIN f = S, DOMAIN g = T, DOMAIN h = S \ T, \A x \in S : f[x] \in Int,
           \A x \in T : g[x] = f[x], \A x \in S \ T : h[x] = f[x]
    PROVE  SumFunction(f) = SumFunction(g) + SumFunction(h)
<1>1. SumFunctionOnSet(f, S) = SumFunctionOnSet(f, T) + SumFunctionOnSet(f, S \ T)
    BY SumSplit
<1>2. IsFiniteSet(T) /\ IsFiniteSet(S \ T)
    BY FS_Subset
<1>3. SumFunctionOnSet(f, T) = SumFunctionOnSet(g, T)
    BY <1>2, SumSame
<1>4. SumFunctionOnSet(f, S \ T) = SumFunctionOnSet(h, S \ T)
    <2>1. \A x \in S \ T : f[x] \in Int /\ f[x] = h[x]
        OBVIOUS
    <2> QED BY <1>2, <2>1, SumSame
<1> QED
    BY <1>1, <1>3, <1>4 DEF SumFunction

\* Values of no more than k, n of them: no more than k * n.
THEOREM SumBounded ==
    ASSUME NEW S, IsFiniteSet(S), NEW k \in Nat, NEW f, \A x \in S : f[x] \in 0 .. k
    PROVE  SumFunctionOnSet(f, S) \in Nat /\ SumFunctionOnSet(f, S) <= k * Cardinality(S)
<1> DEFINE E == {s \in SUBSET S : SumFunctionOnSet(f, s) <= k * Cardinality(s)}
<1>0. \A x \in S : f[x] \in Nat /\ f[x] \in Int /\ f[x] <= k
    OBVIOUS
<1>1. {} \in E
    <2>1. Cardinality({}) = 0 /\ k * 0 = 0
        BY FS_EmptySet
    <2> QED BY <2>1, SumEmpty
<1>2. \A s \in SUBSET S, x \in S : s \in E => s \cup {x} \in E
    <2> SUFFICES ASSUME NEW s \in SUBSET S, NEW x \in S, s \in E PROVE s \cup {x} \in E
        OBVIOUS
    <2>1. CASE x \in s
        <3>1. s \cup {x} = s
            BY <2>1
        <3> QED BY <3>1
    <2>2. CASE x \notin s
        <3>0. IsFiniteSet(s) /\ \A y \in s \cup {x} : f[y] \in Int
            BY <1>0, SubsetCard
        <3>1. SumFunctionOnSet(f, s \cup {x}) = SumFunctionOnSet(f, s) + f[x]
              /\ SumFunctionOnSet(f, s) \in Int
            BY <2>2, <3>0, SumAdd, SumInt
        <3>2. Cardinality(s \cup {x}) = Cardinality(s) + 1 /\ Cardinality(s) \in Nat
            BY <2>2, <3>0, FS_AddElement, FS_CardinalityType
        <3> DEFINE n == Cardinality(s)
        <3>3. n \in Nat
            BY <3>2
        <3> HIDE DEF n
        <3>4. k * (n + 1) = k * n + k /\ k * n \in Nat
            BY <3>3
        <3>5. f[x] <= k /\ f[x] \in Int /\ SumFunctionOnSet(f, s) <= k * n
            BY <1>0 DEF n
        <3>6. SumFunctionOnSet(f, s \cup {x}) <= k * (n + 1)
            BY <3>1, <3>4, <3>5
        <3> QED BY <3>2, <3>6 DEF n
    <2> QED
        BY <2>1, <2>2
<1>3. S \in E
    <2> HIDE DEF E
    <2> QED BY <1>1, <1>2, SubsetInduction
<1> QED
    BY <1>0, <1>3, SumNat

\* A factor common to all values.
THEOREM SumScale ==
    ASSUME NEW S, IsFiniteSet(S), NEW k \in Int, NEW f, NEW g,
           \A x \in S : f[x] \in Int /\ g[x] = k * f[x]
    PROVE  SumFunctionOnSet(g, S) = k * SumFunctionOnSet(f, S)
<1> DEFINE E == {s \in SUBSET S : SumFunctionOnSet(g, s) = k * SumFunctionOnSet(f, s)}
<1>0. \A x \in S : f[x] \in Int /\ g[x] \in Int
    OBVIOUS
<1>1. {} \in E
    BY SumEmpty
<1>2. \A s \in SUBSET S, x \in S : s \in E => s \cup {x} \in E
    <2> SUFFICES ASSUME NEW s \in SUBSET S, NEW x \in S, s \in E PROVE s \cup {x} \in E
        OBVIOUS
    <2>1. CASE x \in s
        <3>1. s \cup {x} = s
            BY <2>1
        <3> QED BY <3>1
    <2>2. CASE x \notin s
        <3>0. IsFiniteSet(s) /\ \A y \in s \cup {x} : f[y] \in Int /\ g[y] \in Int
            BY <1>0, SubsetCard
        <3>1. SumFunctionOnSet(f, s \cup {x}) = SumFunctionOnSet(f, s) + f[x]
            BY <2>2, <3>0, SumAdd
        <3>2. SumFunctionOnSet(g, s \cup {x}) = SumFunctionOnSet(g, s) + g[x]
            BY <2>2, <3>0, SumAdd
        <3>3. SumFunctionOnSet(f, s) \in Int
            BY <3>0, SumInt
        <3>4. f[x] \in Int /\ g[x] = k * f[x]
            OBVIOUS
        <3>5. k * (SumFunctionOnSet(f, s) + f[x]) = k * SumFunctionOnSet(f, s) + k * f[x]
            BY <3>3, <3>4
        <3> QED BY <3>1, <3>2, <3>4, <3>5
    <2> QED
        BY <2>1, <2>2
<1>3. S \in E
    <2> HIDE DEF E
    <2> QED BY <1>1, <1>2, SubsetInduction
<1> QED
    BY <1>3

\* A sum of equal terms, and of two kinds of terms.
THEOREM SumConstant ==
    ASSUME NEW S, IsFiniteSet(S), NEW k \in Int, NEW f, \A x \in S : f[x] = k
    PROVE  SumFunctionOnSet(f, S) = k * Cardinality(S)
<1> DEFINE E == {s \in SUBSET S : SumFunctionOnSet(f, s) = k * Cardinality(s)}
<1>1. {} \in E
    BY SumEmpty, FS_EmptySet
<1>2. \A s \in SUBSET S, x \in S : s \in E => s \cup {x} \in E
    <2> SUFFICES ASSUME NEW s \in SUBSET S, NEW x \in S, s \in E PROVE s \cup {x} \in E
        OBVIOUS
    <2>1. CASE x \in s
        <3>1. s \cup {x} = s
            BY <2>1
        <3> QED BY <3>1
    <2>2. CASE x \notin s
        <3>0. IsFiniteSet(s) /\ Cardinality(s) \in Nat /\ \A y \in s \cup {x} : f[y] \in Int
            BY SubsetCard
        <3>1. SumFunctionOnSet(f, s \cup {x}) = SumFunctionOnSet(f, s) + f[x]
            BY <2>2, <3>0, SumAdd
        <3>2. Cardinality(s \cup {x}) = Cardinality(s) + 1
            BY <2>2, <3>0, FS_AddElement
        <3>3. k * (Cardinality(s) + 1) = k * Cardinality(s) + k
            BY <3>0
        <3> QED BY <3>1, <3>2, <3>3
    <2> QED
        BY <2>1, <2>2
<1>3. S \in E
    <2> HIDE DEF E
    <2> QED BY <1>1, <1>2, SubsetInduction
<1> QED
    BY <1>3

THEOREM SumOfTwoKinds ==
    ASSUME NEW S, IsFiniteSet(S), NEW T, T \subseteq S, NEW c, NEW d, c \in Int, d \in Int, NEW f,
           \A x \in T : f[x] = c, \A x \in S \ T : f[x] = d
    PROVE  SumFunctionOnSet(f, S) = c * Cardinality(T) + d * (Cardinality(S) - Cardinality(T))
<1>1. IsFiniteSet(T) /\ IsFiniteSet(S \ T) /\ \A x \in S : f[x] \in Int
    BY FS_Subset
<1>2. SumFunctionOnSet(f, S) = SumFunctionOnSet(f, T) + SumFunctionOnSet(f, S \ T)
    BY <1>1, SumSplit
<1>3. SumFunctionOnSet(f, T) = c * Cardinality(T)
    <2>1. \A x \in T : f[x] = c
        OBVIOUS
    <2> QED BY <1>1, <2>1, SumConstant
<1>4. SumFunctionOnSet(f, S \ T) = d * Cardinality(S \ T)
    <2>1. \A x \in S \ T : f[x] = d
        OBVIOUS
    <2> QED BY <1>1, <2>1, SumConstant
<1>5. Cardinality(S \ T) = Cardinality(S) - Cardinality(T)
    <2>1. S \cap T = T
        OBVIOUS
    <2> QED BY <2>1, FS_Difference
<1> QED BY <1>2, <1>3, <1>4, <1>5

-----------------------------------------------------------------------------
(* Quotients of whole numbers round down.                                  *)

\* What a division leaves.
LEMMA Quotient ==
    ASSUME NEW x \in Int, NEW d \in Nat \ {0}
    PROVE  (x \div d) \in Int /\ d * (x \div d) <= x
OBVIOUS

LEMMA QuotientNat ==
    ASSUME NEW x \in Nat, NEW d \in Nat \ {0}, NEW k \in Nat, x <= d * k
    PROVE  (x \div d) \in 0 .. k
<1>1. x \div d \in Int /\ d * (x \div d) <= x
    BY Quotient
<1>2. x \div d >= 0
    OBVIOUS
<1>3. x \div d <= k
    <2>1. SUFFICES ASSUME x \div d >= k + 1 PROVE FALSE
        BY <1>1
    <2>2. d * (x \div d) >= d * (k + 1)
        BY <1>1, <2>1
    <2> QED BY <1>1, <2>2
<1> QED BY <1>1, <1>2, <1>3

LEMMA QuotientOfNat ==
    ASSUME NEW x \in Nat, NEW d \in Nat \ {0}
    PROVE  (x \div d) \in Nat /\ d * (x \div d) <= x /\ (x = 0 => x \div d = 0)
<1>1. x \div d \in Int /\ d * (x \div d) <= x
    BY Quotient
<1>2. x \div d >= 0
    OBVIOUS
<1>3. x = 0 => x \div d = 0
    OBVIOUS
<1> QED BY <1>1, <1>2, <1>3

\* Products of integers.
LEMMA ProductLess ==
    ASSUME NEW x \in Int, NEW y \in Int, NEW z \in Nat, x <= y
    PROVE  z * x <= z * y /\ x * z <= y * z
<1>1. y - x \in Nat
    OBVIOUS
<1>2. z * (y - x) \in Nat /\ z * (y - x) = z * y - z * x
    BY <1>1
<1> QED BY <1>2
=============================================================================
