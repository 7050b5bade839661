---------------------------- MODULE SumTheorems -----------------------------
(***************************************************************************)
(* Facts about SumFunctionOnSet, the sum of the values of a function over  *)
(* a finite set, on which the proofs about money rest. Induction over      *)
(* finite sets is used in the form of the well-foundedness of the strict   *)
(* subset ordering: the set Good stands where a predicate would. Also that *)
(* a finite set of numbers has a greatest element.                         *)
(***************************************************************************)
EXTENDS Integers, Functions, FiniteSetTheorems, WellFoundedInduction, TLAPS

\* The element that a sum takes first, and what the sum of a set is when those
\* of its subsets are known.
Pick(s) == CHOOSE x \in s : TRUE
Adds(f, s, g) == IF s = {} THEN 0 ELSE f[Pick(s)] + g[s \ {Pick(s)}]
Totals(f, S, g) == g = [s \in SUBSET S |-> Adds(f, s, g)]

\* A set of subsets to which each set belongs whose proper subsets do has them all.
LEMMA SubsetInduction ==
    ASSUME NEW S, IsFiniteSet(S), NEW Good,
           \A T \in SUBSET S : (\A U \in SUBSET T : U # T => U \in Good) => T \in Good
    PROVE  \A T \in SUBSET S : T \in Good
<1> DEFINE Bad == (SUBSET S) \ Good
<1>1. SUFFICES ASSUME Bad # {} PROVE FALSE
  OBVIOUS
<1>2. IsWellFoundedOn(StrictSubsetOrdering(S), SUBSET S)
  BY FS_StrictSubsetOrderingWellFounded, FS_FiniteSubsetsOfFinite
<1>3. PICK T \in Bad : \A U \in Bad : ~ (<<U, T>> \in StrictSubsetOrdering(S))
  <2> HIDE DEF Bad
  <2>1. Bad \subseteq SUBSET S
    BY DEF Bad
  <2> QED BY <1>1, <1>2, <2>1, WFMin
<1>4. ASSUME NEW U \in SUBSET T, U # T PROVE U \in Good
  BY <1>3, <1>4 DEF StrictSubsetOrdering
<1> QED BY <1>4

\* Two functions that total subsets agree on the subsets they share.
LEMMA TotalsAgree ==
    ASSUME NEW f, NEW S, NEW T, IsFiniteSet(S), NEW g, NEW h,
           Totals(f, S, g), Totals(f, T, h)
    PROVE  \A s \in SUBSET S : s \subseteq T => g[s] = h[s]
<1> DEFINE Good == {s \in SUBSET S : s \subseteq T => g[s] = h[s]}
<1>1. ASSUME NEW s \in SUBSET S, \A r \in SUBSET s : r # s => r \in Good
      PROVE  s \in Good
  <2> SUFFICES ASSUME s \subseteq T PROVE g[s] = h[s]
    OBVIOUS
  <2>1. g[s] = Adds(f, s, g) /\ h[s] = Adds(f, s, h)
    BY Zenon DEF Totals
  <2>2. CASE s = {}
    BY <2>1, <2>2 DEF Adds
  <2>3. CASE s # {}
    <3>1. Pick(s) \in s
      BY <2>3 DEF Pick
    <3>2. g[s \ {Pick(s)}] = h[s \ {Pick(s)}]
      BY <1>1, <3>1
    <3> QED BY <2>1, <2>3, <3>2 DEF Adds
  <2> QED BY <2>2, <2>3
<1> HIDE DEF Good
<1>2. \A s \in SUBSET S : s \in Good
  BY <1>1, SubsetInduction
<1> QED BY <1>2 DEF Good

\* The subsets of a finite set can be totalled.
LEMMA TotalsExist ==
    ASSUME NEW f, NEW S, IsFiniteSet(S)
    PROVE  Totals(f, S, CHOOSE g : Totals(f, S, g))
<1> DEFINE Total(s) == CHOOSE g : Totals(f, s, g)
           Good == {s \in SUBSET S : Totals(f, s, Total(s))}
<1>1. ASSUME NEW s \in SUBSET S, \A r \in SUBSET s : r # s => r \in Good
      PROVE  s \in Good
  <2> DEFINE h == [t \in SUBSET s |->
                     IF t = {} THEN 0
                     ELSE f[Pick(t)] + Total(t \ {Pick(t)})[t \ {Pick(t)}]]
  <2>1. ASSUME NEW t \in SUBSET s PROVE h[t] = Adds(f, t, h)
    <3>1. CASE t = {}
      BY <3>1 DEF Adds
    <3>2. CASE t # {}
      <4> DEFINE r == t \ {Pick(t)}
      <4>1. Pick(t) \in t /\ r \in SUBSET s /\ r # s
        BY <3>2 DEF Pick
      <4>2. Totals(f, r, Total(r))
        BY <1>1, <4>1
      <4>3. Total(r)[r] = Adds(f, r, Total(r))
        BY <4>2, Zenon DEF Totals
      <4>4. h[r] = Total(r)[r]
        <5>1. CASE r = {}
          BY <4>1, <4>3, <5>1 DEF Adds
        <5>2. CASE r # {}
          <6> DEFINE q == r \ {Pick(r)}
          <6>1. Pick(r) \in r /\ q \in SUBSET s /\ q # s
            BY <4>1, <5>2 DEF Pick
          <6>2. Totals(f, q, Total(q))
            BY <1>1, <6>1
          <6>3. IsFiniteSet(q)
            BY <6>1, FS_Subset
          <6>4. Total(q)[q] = Total(r)[q]
            <7> HIDE DEF q, r, Total
            <7>1. q \subseteq r
              BY DEF q
            <7> QED BY <4>2, <6>2, <6>3, <7>1, TotalsAgree
          <6>5. h[r] = f[Pick(r)] + Total(q)[q]
            BY <4>1, <5>2
          <6>6. Total(r)[r] = f[Pick(r)] + Total(r)[q]
            BY <4>3, <5>2 DEF Adds
          <6> QED BY <6>4, <6>5, <6>6
        <5> QED BY <5>1, <5>2
      <4>5. h[t] = f[Pick(t)] + Total(r)[r]
        BY <3>2
      <4>6. Adds(f, t, h) = f[Pick(t)] + h[r]
        BY <3>2 DEF Adds
      <4> QED BY <4>4, <4>5, <4>6
    <3> QED BY <3>1, <3>2
  <2>2. h = [t \in SUBSET s |-> Adds(f, t, h)]
    <3>1. h = [t \in SUBSET s |-> h[t]]
      OBVIOUS
    <3> HIDE DEF h
    <3> QED BY <2>1, <3>1
  <2> HIDE DEF h
  <2>3. Totals(f, s, h)
    BY <2>2 DEF Totals
  <2>4. Totals(f, s, Total(s))
    BY <2>3
  <2> QED BY <2>4
<1> HIDE DEF Good
<1>2. \A s \in SUBSET S : s \in Good
  BY <1>1, SubsetInduction
<1> QED BY <1>2 DEF Good

\* A sum is the element that is taken first and the sum of the others.
LEMMA SumPick ==
    ASSUME NEW f, NEW S, IsFiniteSet(S)
    PROVE  SumFunctionOnSet(f, S) =
             IF S = {} THEN 0 ELSE f[Pick(S)] + SumFunctionOnSet(f, S \ {Pick(S)})
<1> DEFINE Total(s) == CHOOSE g : Totals(f, s, g)
<1>1. \A s : SumFunctionOnSet(f, s) = Total(s)[s]
  BY Zenon DEF SumFunctionOnSet, FoldFunctionOnSet, MapThenFoldSet, Totals, Adds, Pick
<1>2. Totals(f, S, Total(S))
  BY TotalsExist
<1>3. Total(S)[S] = Adds(f, S, Total(S))
  BY <1>2, Zenon DEF Totals
<1>4. CASE S = {}
  BY <1>1, <1>3, <1>4 DEF Adds
<1>5. CASE S # {}
  <2> DEFINE r == S \ {Pick(S)}
  <2>1. r \in SUBSET S /\ IsFiniteSet(r)
    BY FS_Subset
  <2>2. Totals(f, r, Total(r))
    BY <2>1, TotalsExist
  <2>3. Total(r)[r] = Total(S)[r]
    <3> HIDE DEF r, Total
    <3> QED BY <1>2, <2>1, <2>2, TotalsAgree
  <2> QED BY <1>1, <1>3, <1>5, <2>3 DEF Adds
<1> QED BY <1>4, <1>5

\* The empty sum.
LEMMA SumEmpty == ASSUME NEW f PROVE SumFunctionOnSet(f, {}) = 0
BY SumPick, FS_EmptySet

\* Sums of naturals are naturals, and sums of integers are integers.
LEMMA SumIsNat ==
    ASSUME NEW S, IsFiniteSet(S), NEW f, \A x \in S : f[x] \in Nat
    PROVE  SumFunctionOnSet(f, S) \in Nat
<1> DEFINE Good == {s \in SUBSET S : SumFunctionOnSet(f, s) \in Nat}
<1>1. ASSUME NEW s \in SUBSET S, \A r \in SUBSET s : r # s => r \in Good
      PROVE  s \in Good
  <2>1. IsFiniteSet(s)
    BY FS_Subset
  <2>2. CASE s = {}
    BY <2>2, SumEmpty
  <2>3. CASE s # {}
    <3>1. Pick(s) \in s
      BY <2>3 DEF Pick
    <3>2. SumFunctionOnSet(f, s \ {Pick(s)}) \in Nat /\ f[Pick(s)] \in Nat
      BY <1>1, <3>1
    <3> QED BY <2>1, <2>3, <3>2, SumPick
  <2> QED BY <2>2, <2>3
<1> HIDE DEF Good
<1>2. \A s \in SUBSET S : s \in Good
  BY <1>1, SubsetInduction
<1> QED BY <1>2 DEF Good

LEMMA SumIsInt ==
    ASSUME NEW S, IsFiniteSet(S), NEW f, \A x \in S : f[x] \in Int
    PROVE  SumFunctionOnSet(f, S) \in Int
<1> DEFINE Good == {s \in SUBSET S : SumFunctionOnSet(f, s) \in Int}
<1>1. ASSUME NEW s \in SUBSET S, \A r \in SUBSET s : r # s => r \in Good
      PROVE  s \in Good
  <2>1. IsFiniteSet(s)
    BY FS_Subset
  <2>2. CASE s = {}
    BY <2>2, SumEmpty
  <2>3. CASE s # {}
    <3>1. Pick(s) \in s
      BY <2>3 DEF Pick
    <3>2. SumFunctionOnSet(f, s \ {Pick(s)}) \in Int /\ f[Pick(s)] \in Int
      BY <1>1, <3>1
    <3> QED BY <2>1, <2>3, <3>2, SumPick
  <2> QED BY <2>2, <2>3
<1> HIDE DEF Good
<1>2. \A s \in SUBSET S : s \in Good
  BY <1>1, SubsetInduction
<1> QED BY <1>2 DEF Good

\* Any element may be taken out of a sum.
LEMMA SumRemove ==
    ASSUME NEW S, IsFiniteSet(S), NEW f, \A x \in S : f[x] \in Int, NEW e \in S
    PROVE  SumFunctionOnSet(f, S) = f[e] + SumFunctionOnSet(f, S \ {e})
<1> DEFINE Good ==
             {s \in SUBSET S : \A x \in s : SumFunctionOnSet(f, s) = f[x] + SumFunctionOnSet(f, s \ {x})}
<1>1. ASSUME NEW s \in SUBSET S, \A r \in SUBSET s : r # s => r \in Good
      PROVE  s \in Good
  <2> SUFFICES ASSUME NEW x \in s PROVE SumFunctionOnSet(f, s) = f[x] + SumFunctionOnSet(f, s \ {x})
    OBVIOUS
  <2> DEFINE p == Pick(s)
  <2>1. IsFiniteSet(s) /\ s # {}
    BY FS_Subset
  <2>2. p \in s
    BY <2>1 DEF Pick
  <2> HIDE DEF p
  <2>3. SumFunctionOnSet(f, s) = f[p] + SumFunctionOnSet(f, s \ {p})
    BY <2>1, SumPick DEF p
  <2>4. CASE p = x
    BY <2>3, <2>4
  <2>5. CASE p # x
    <3>1. SumFunctionOnSet(f, s \ {p}) = f[x] + SumFunctionOnSet(f, (s \ {p}) \ {x})
      BY <1>1, <2>2, <2>5
    <3>2. SumFunctionOnSet(f, s \ {x}) = f[p] + SumFunctionOnSet(f, (s \ {x}) \ {p})
      BY <1>1, <2>2, <2>5
    <3>3. (s \ {p}) \ {x} = (s \ {x}) \ {p}
      OBVIOUS
    <3>4. SumFunctionOnSet(f, (s \ {x}) \ {p}) \in Int
      <4>1. IsFiniteSet((s \ {x}) \ {p})
        BY <2>1, FS_Subset
      <4> QED BY <4>1, SumIsInt
    <3>5. f[x] \in Int /\ f[p] \in Int
      BY <2>2
    <3> DEFINE rest == SumFunctionOnSet(f, (s \ {x}) \ {p})
    <3>6. /\ SumFunctionOnSet(f, s) = f[p] + (f[x] + rest)
          /\ SumFunctionOnSet(f, s \ {x}) = f[p] + rest
      BY <2>3, <3>1, <3>2, <3>3
    <3> HIDE DEF rest
    <3>7. rest \in Int
      BY <3>4 DEF rest
    <3> QED BY <3>5, <3>6, <3>7
  <2> QED BY <2>4, <2>5
<1> HIDE DEF Good
<1>2. \A s \in SUBSET S : s \in Good
  BY <1>1, SubsetInduction
<1> QED BY <1>2 DEF Good

\* An element that joins a sum adds its value.
LEMMA SumAdd ==
    ASSUME NEW S, IsFiniteSet(S), NEW f, \A x \in S : f[x] \in Int, NEW e, e \notin S, f[e] \in Int
    PROVE  SumFunctionOnSet(f, S \cup {e}) = SumFunctionOnSet(f, S) + f[e]
<1>1. IsFiniteSet(S \cup {e})
  BY FS_AddElement
<1>2. (S \cup {e}) \ {e} = S /\ e \in S \cup {e} /\ \A x \in S \cup {e} : f[x] \in Int
  OBVIOUS
<1>3. SumFunctionOnSet(f, S \cup {e}) = f[e] + SumFunctionOnSet(f, S)
  BY <1>1, <1>2, SumRemove
<1>4. SumFunctionOnSet(f, S) \in Int
  BY SumIsInt
<1> QED BY <1>3, <1>4

\* Functions that agree on a set have the same sum over it.
LEMMA SumSame ==
    ASSUME NEW S, IsFiniteSet(S), NEW f, NEW g, \A x \in S : f[x] = g[x]
    PROVE  SumFunctionOnSet(f, S) = SumFunctionOnSet(g, S)
<1> DEFINE Good == {s \in SUBSET S : SumFunctionOnSet(f, s) = SumFunctionOnSet(g, s)}
<1>1. ASSUME NEW s \in SUBSET S, \A r \in SUBSET s : r # s => r \in Good
      PROVE  s \in Good
  <2>1. IsFiniteSet(s)
    BY FS_Subset
  <2>2. CASE s = {}
    BY <2>2, SumEmpty
  <2>3. CASE s # {}
    <3>1. Pick(s) \in s
      BY <2>3 DEF Pick
    <3>2. /\ SumFunctionOnSet(f, s \ {Pick(s)}) = SumFunctionOnSet(g, s \ {Pick(s)})
          /\ f[Pick(s)] = g[Pick(s)]
      BY <1>1, <3>1
    <3> QED BY <2>1, <2>3, <3>2, SumPick
  <2> QED BY <2>2, <2>3
<1> HIDE DEF Good
<1>2. \A s \in SUBSET S : s \in Good
  BY <1>1, SubsetInduction
<1> QED BY <1>2 DEF Good

\* A function that changes at one element changes the sum by as much.
LEMMA SumChange ==
    ASSUME NEW S, IsFiniteSet(S), NEW f, NEW g, NEW e \in S,
           \A x \in S : f[x] \in Int /\ g[x] \in Int, \A x \in S \ {e} : f[x] = g[x]
    PROVE  SumFunctionOnSet(g, S) = SumFunctionOnSet(f, S) + g[e] - f[e]
<1>1. IsFiniteSet(S \ {e})
  BY FS_Subset
<1>2. /\ SumFunctionOnSet(f, S \ {e}) = SumFunctionOnSet(g, S \ {e})
      /\ SumFunctionOnSet(f, S \ {e}) \in Int
  BY <1>1, SumSame, SumIsInt
<1>3. /\ SumFunctionOnSet(f, S) = f[e] + SumFunctionOnSet(f, S \ {e})
      /\ SumFunctionOnSet(g, S) = g[e] + SumFunctionOnSet(g, S \ {e})
  BY SumRemove
<1> QED BY <1>2, <1>3

\* A larger set has the larger sum if what it adds is not negative.
LEMMA SumGrows ==
    ASSUME NEW S, IsFiniteSet(S), NEW T \in SUBSET S, NEW f,
           \A x \in S : f[x] \in Int, \A x \in S \ T : f[x] >= 0
    PROVE  SumFunctionOnSet(f, T) <= SumFunctionOnSet(f, S)
<1> DEFINE Good ==
             {s \in SUBSET S : T \subseteq s => SumFunctionOnSet(f, T) <= SumFunctionOnSet(f, s)}
<1>1. ASSUME NEW s \in SUBSET S, \A r \in SUBSET s : r # s => r \in Good
      PROVE  s \in Good
  <2> SUFFICES ASSUME T \subseteq s PROVE SumFunctionOnSet(f, T) <= SumFunctionOnSet(f, s)
    OBVIOUS
  <2>1. IsFiniteSet(s) /\ IsFiniteSet(T)
    BY FS_Subset
  <2>2. SumFunctionOnSet(f, T) \in Int /\ \A r \in SUBSET s : SumFunctionOnSet(f, r) \in Int
    BY <2>1, SumIsInt, FS_Subset
  <2>3. CASE s = T
    BY <2>2, <2>3
  <2>4. CASE s # T
    <3>1. PICK x \in s : x \notin T
      BY <2>4
    <3>2. SumFunctionOnSet(f, T) <= SumFunctionOnSet(f, s \ {x})
      BY <1>1, <3>1
    <3>3. SumFunctionOnSet(f, s) = f[x] + SumFunctionOnSet(f, s \ {x})
      BY <2>1, SumRemove
    <3>4. f[x] \in Int /\ f[x] >= 0 /\ SumFunctionOnSet(f, s \ {x}) \in Int
      BY <2>2, <3>1
    <3> QED BY <2>2, <3>2, <3>3, <3>4
  <2> QED BY <2>3, <2>4
<1> HIDE DEF Good
<1>2. \A s \in SUBSET S : s \in Good
  BY <1>1, SubsetInduction
<1> QED BY <1>2 DEF Good

\* The sum of what two functions add up to is the sum of their sums.
LEMMA SumPlus ==
    ASSUME NEW S, IsFiniteSet(S), NEW f, NEW g, NEW h,
           \A x \in S : f[x] \in Int /\ g[x] \in Int /\ h[x] = f[x] + g[x]
    PROVE  SumFunctionOnSet(h, S) = SumFunctionOnSet(f, S) + SumFunctionOnSet(g, S)
<1> DEFINE Good ==
             {s \in SUBSET S : SumFunctionOnSet(h, s) = SumFunctionOnSet(f, s) + SumFunctionOnSet(g, s)}
<1>1. ASSUME NEW s \in SUBSET S, \A r \in SUBSET s : r # s => r \in Good
      PROVE  s \in Good
  <2>1. IsFiniteSet(s)
    BY FS_Subset
  <2>2. CASE s = {}
    BY <2>2, SumEmpty
  <2>3. CASE s # {}
    <3> DEFINE x == Pick(s)
               r == s \ {x}
    <3>1. x \in s
      BY <2>3 DEF Pick
    <3>2. SumFunctionOnSet(h, r) = SumFunctionOnSet(f, r) + SumFunctionOnSet(g, r)
      BY <1>1, <3>1
    <3>3. IsFiniteSet(r) /\ SumFunctionOnSet(f, r) \in Int /\ SumFunctionOnSet(g, r) \in Int
      BY <2>1, FS_Subset, SumIsInt
    <3>4. /\ SumFunctionOnSet(h, s) = h[x] + SumFunctionOnSet(h, r)
          /\ SumFunctionOnSet(f, s) = f[x] + SumFunctionOnSet(f, r)
          /\ SumFunctionOnSet(g, s) = g[x] + SumFunctionOnSet(g, r)
      BY <2>1, <2>3, SumPick
    <3>5. f[x] \in Int /\ g[x] \in Int /\ h[x] = f[x] + g[x]
      BY <3>1
    <3> HIDE DEF x, r
    <3>6. SumFunctionOnSet(h, s) = SumFunctionOnSet(f, s) + SumFunctionOnSet(g, s)
      BY <3>2, <3>3, <3>4, <3>5
    <3> QED BY <3>6
  <2> QED BY <2>2, <2>3
<1> HIDE DEF Good
<1>2. \A s \in SUBSET S : s \in Good
  BY <1>1, SubsetInduction
<1> QED BY <1>2 DEF Good

\* A sum of zeros is zero.
LEMMA SumZero ==
    ASSUME NEW S, IsFiniteSet(S), NEW f, \A x \in S : f[x] = 0
    PROVE  SumFunctionOnSet(f, S) = 0
<1> DEFINE a == SumFunctionOnSet(f, S)
<1>1. a = a + a
  BY SumPlus
<1>2. a \in Int
  BY SumIsInt
<1> HIDE DEF a
<1>3. a = 0
  BY <1>1, <1>2
<1> QED BY <1>3 DEF a

\* S in groups, one for each element of E; and what each group adds up to.
Grouped(S, E, of, group) ==
    \A e \in E : group[e] = {x \in S : of[x] = e}
GroupSums(f, E, group, sums) ==
    \A e \in E : sums[e] = SumFunctionOnSet(f, group[e])

\* A sum may be taken group by group.
LEMMA SumGroups ==
    ASSUME NEW E, IsFiniteSet(E), NEW S, IsFiniteSet(S), NEW f, \A x \in S : f[x] \in Int,
           NEW of, \A x \in S : of[x] \in E,
           NEW group, Grouped(S, E, of, group), NEW sums, GroupSums(f, E, group, sums)
    PROVE  SumFunctionOnSet(sums, E) = SumFunctionOnSet(f, S)
<1> DEFINE Group(s) == [e \in E |-> SumFunctionOnSet(f, {x \in s : of[x] = e})]
           Good == {s \in SUBSET S : SumFunctionOnSet(Group(s), E) = SumFunctionOnSet(f, s)}
<1>1. ASSUME NEW s \in SUBSET S, \A r \in SUBSET s : r # s => r \in Good
      PROVE  s \in Good
  <2>1. IsFiniteSet(s)
    BY FS_Subset
  <2>2. CASE s = {}
    <3>1. \A e \in E : Group(s)[e] = 0
      <4>1. \A e \in E : {x \in s : of[x] = e} = {}
        BY <2>2
      <4> QED BY <4>1, SumEmpty
    <3> HIDE DEF Group
    <3>2. SumFunctionOnSet(Group(s), E) = 0 /\ SumFunctionOnSet(f, s) = 0
      BY <2>2, <3>1, SumZero, SumEmpty
    <3> QED BY <3>2
  <2>3. CASE s # {}
    <3> DEFINE p == Pick(s)
               r == s \ {p}
    <3>1. p \in s /\ of[p] \in E /\ f[p] \in Int
      BY <2>3 DEF Pick
    <3>2. SumFunctionOnSet(Group(r), E) = SumFunctionOnSet(f, r)
      BY <1>1, <3>1
    <3>3. SumFunctionOnSet(f, s) = f[p] + SumFunctionOnSet(f, r)
      BY <2>1, <2>3, SumPick
    <3>4. \A e \in E : Group(s)[e] \in Int /\ Group(r)[e] \in Int
      <4>1. \A e \in E : IsFiniteSet({x \in s : of[x] = e}) /\ IsFiniteSet({x \in r : of[x] = e})
        BY <2>1, FS_Subset
      <4> QED BY <4>1, SumIsInt
    <3>5. \A e \in E \ {of[p]} : Group(r)[e] = Group(s)[e]
      <4>1. \A e \in E \ {of[p]} : {x \in r : of[x] = e} = {x \in s : of[x] = e}
        OBVIOUS
      <4> QED BY <4>1
    <3>6. Group(s)[of[p]] = f[p] + Group(r)[of[p]]
      <4> DEFINE g == {x \in s : of[x] = of[p]}
      <4>1. IsFiniteSet(g) /\ p \in g /\ \A x \in g : f[x] \in Int
        BY <2>1, <3>1, FS_Subset
      <4>2. {x \in r : of[x] = of[p]} = g \ {p}
        OBVIOUS
      <4>3. SumFunctionOnSet(f, g) = f[p] + SumFunctionOnSet(f, g \ {p})
        <5> HIDE DEF g, p
        <5> QED BY <4>1, SumRemove
      <4>4. /\ Group(s)[of[p]] = SumFunctionOnSet(f, g)
            /\ Group(r)[of[p]] = SumFunctionOnSet(f, g \ {p})
        BY <3>1, <4>2
      <4> QED BY <4>3, <4>4
    <3> HIDE DEF Group, p, r
    <3>7. SumFunctionOnSet(Group(s), E) =
            SumFunctionOnSet(Group(r), E) + Group(s)[of[p]] - Group(r)[of[p]]
      BY <3>1, <3>4, <3>5, SumChange
    <3>8. SumFunctionOnSet(Group(r), E) \in Int
      BY <3>4, SumIsInt
    <3>9. SumFunctionOnSet(Group(s), E) = SumFunctionOnSet(f, s)
      BY <3>1, <3>2, <3>3, <3>4, <3>6, <3>7, <3>8
    <3> QED BY <3>9
  <2> QED BY <2>2, <2>3
<1> HIDE DEF Good
<1>2. \A s \in SUBSET S : s \in Good
  BY <1>1, SubsetInduction
<1>3. SumFunctionOnSet(Group(S), E) = SumFunctionOnSet(f, S)
  BY <1>2 DEF Good
<1>4. \A e \in E : sums[e] = Group(S)[e]
  BY DEF Grouped, GroupSums
<1>5. SumFunctionOnSet(sums, E) = SumFunctionOnSet(Group(S), E)
  <2> HIDE DEF Group
  <2> QED BY <1>4, SumSame
<1> QED BY <1>3, <1>5

\* A finite set of numbers that is not empty has a greatest element.
LEMMA Greatest ==
    ASSUME NEW E, E \subseteq Nat, IsFiniteSet(E), E # {}
    PROVE  \E e \in E : \A f \in E : f <= e
<1> DEFINE Above(e) == {f \in E : f > e}
           R == StrictSubsetOrdering(E)
           T == {Above(e) : e \in E}
<1>1. IsWellFoundedOn(R, FiniteSubsetsOf(E))
  BY FS_StrictSubsetOrderingWellFounded
<1>2. T \subseteq FiniteSubsetsOf(E) /\ T # {}
  <2>1. \A e \in E : Above(e) \in SUBSET E /\ IsFiniteSet(Above(e))
    BY FS_Subset
  <2>2. \A e \in E : Above(e) \in FiniteSubsetsOf(E)
    BY <2>1 DEF FiniteSubsetsOf
  <2> HIDE DEF Above
  <2> QED BY <2>2
<1>3. \E x \in T : \A y \in T : ~(<<y, x>> \in R)
  <2> HIDE DEF R, T
  <2> QED BY <1>1, <1>2, WFMin
<1>4. PICK e \in E : \A f \in E : ~(<<Above(f), Above(e)>> \in R)
  BY <1>3
<1>5. ASSUME NEW f \in E, f > e PROVE FALSE
  <2>1. Above(f) \subseteq Above(e)
    <3>1. \A g \in E : g > f => g > e
      <4> SUFFICES ASSUME NEW g \in E, g > f PROVE g > e
        OBVIOUS
      <4>1. e \in Nat /\ f \in Nat /\ g \in Nat
        OBVIOUS
      <4> QED BY <4>1, <1>5
    <3> QED BY <3>1
  <2>2. f \in Above(e) /\ f \notin Above(f)
    BY <1>5
  <2> QED BY <1>4, <2>1, <2>2 DEF StrictSubsetOrdering
<1> QED BY <1>5

=============================================================================
