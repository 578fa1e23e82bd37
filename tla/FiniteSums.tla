------------------------------ MODULE FiniteSums ------------------------------
(***************************************************************************)
(* Facts that the proofs about several components rest on: induction over  *)
(* finite sets, the greatest of finitely many numbers, and the sums that   *)
(* the models take with MapThenSumSet.                                     *)
(*                                                                         *)
(* The sets of G in SetInduction take the place of a predicate.            *)
(***************************************************************************)
EXTENDS Integers, FiniteSetsExt, FiniteSetTheorems, WellFoundedInduction, TLAPS

\* What holds of the empty set, and of a set when it holds of the set without
\* any one element, holds of every finite set.
LEMMA SetInduction ==
  ASSUME NEW S, IsFiniteSet(S), NEW G, {} \in G,
         \A s \in SUBSET S : s # {} /\ (\A x \in s : s \ {x} \in G) => s \in G
  PROVE  S \in G
<1> DEFINE B == {s \in SUBSET S : s \notin G}
<1> SUFFICES ASSUME S \notin G PROVE FALSE
  OBVIOUS
<1>1. S \in B
  OBVIOUS
<1>2. B \subseteq FiniteSubsetsOf(S) /\ B # {}
  BY <1>1, FS_Subset DEF FiniteSubsetsOf
<1> HIDE DEF B
<1>3. PICK s \in B : \A t \in B : ~(<<t, s>> \in StrictSubsetOrdering(S))
  BY <1>2, FS_StrictSubsetOrderingWellFounded, WFMin, Zenon
<1>4. s \in SUBSET S /\ s \notin G
  BY <1>3 DEF B
<1>5. \A x \in s : s \ {x} \in SUBSET S /\ s \ {x} # s
  BY <1>4
<1>6. \A x \in s : s \ {x} \notin B
  BY <1>3, <1>4, <1>5 DEF StrictSubsetOrdering
<1>7. \A x \in s : s \ {x} \in G
  BY <1>5, <1>6 DEF B
<1> QED BY <1>4, <1>7

\* A finite set has a greatest element of a total order R.
LEMMA GreatestOf ==
  ASSUME NEW S, IsFiniteSet(S), S # {}, NEW R,
         \A x, y \in S : <<x, y>> \in R \/ <<y, x>> \in R,
         \A x, y, z \in S : <<x, y>> \in R /\ <<y, z>> \in R => <<x, z>> \in R
  PROVE  \E x \in S : \A y \in S : <<x, y>> \in R
<1> DEFINE G == {s \in SUBSET S : s # {} => \E x \in s : \A y \in s : <<x, y>> \in R}
<1>1. {} \in G
  OBVIOUS
<1>2. ASSUME NEW s \in SUBSET S, s # {}, \A x \in s : s \ {x} \in G
      PROVE  s \in G
  <2>1. PICK a \in s : TRUE
    BY <1>2
  <2>2. CASE s \ {a} = {}
    BY <1>2, <2>1, <2>2
  <2>3. CASE s \ {a} # {}
    <3>1. PICK x \in s \ {a} : \A y \in s \ {a} : <<x, y>> \in R
      BY <1>2, <2>1, <2>3
    <3>2. CASE <<x, a>> \in R
      BY <1>2, <3>1, <3>2
    <3>3. CASE <<a, x>> \in R
      <4>1. \A y \in s : <<a, y>> \in R
        BY <1>2, <2>1, <3>1, <3>3
      <4> QED BY <2>1, <4>1
    <3> QED BY <1>2, <2>1, <3>1, <3>2, <3>3
  <2> QED BY <2>2, <2>3
<1> HIDE DEF G
<1>3. S \in G
  BY <1>1, <1>2, SetInduction
<1> QED BY <1>3 DEF G

\* The greatest of finitely many integers.
LEMMA GreatestNumber ==
  ASSUME NEW S \in SUBSET Int, IsFiniteSet(S), S # {}
  PROVE  Max(S) \in S /\ \A y \in S : Max(S) >= y
<1> DEFINE R == {r \in S \X S : r[1] >= r[2]}
<1>1. \A x, y \in S : <<x, y>> \in R <=> x >= y
  OBVIOUS
<1> HIDE DEF R
<1>2. \A x, y \in S : x >= y \/ y >= x
  OBVIOUS
<1>3. /\ \A x, y \in S : <<x, y>> \in R \/ <<y, x>> \in R
      /\ \A x, y, z \in S : <<x, y>> \in R /\ <<y, z>> \in R => <<x, z>> \in R
  BY <1>1, <1>2
<1>4. \E x \in S : \A y \in S : <<x, y>> \in R
  BY <1>3, GreatestOf
<1>5. \E x \in S : \A y \in S : x >= y
  BY <1>1, <1>4
<1> QED BY <1>5 DEF Max

\* The sum of f over S, as MapThenSumSet takes it.
Total(f, S) == MapThenSumSet(LAMBDA k : f[k], S)

Pick(s) == CHOOSE x \in s : TRUE
Step(f, s, g) == IF s = {} THEN 0 ELSE f[Pick(s)] + g[s \ {Pick(s)}]
IsFold(f, S, g) == g = [s \in SUBSET S |-> Step(f, s, g)]
Fold(f, S) == CHOOSE g : IsFold(f, S, g)

LEMMA TotalIsFold == ASSUME NEW f, NEW S PROVE Total(f, S) = Fold(f, S)[S]
BY DEF Total, MapThenSumSet, MapThenFoldSet, Fold, IsFold, Step, Pick

LEMMA FoldUnique ==
  ASSUME NEW f, NEW S, IsFiniteSet(S), NEW T \in SUBSET S,
         NEW g, IsFold(f, S, g), NEW h, IsFold(f, T, h)
  PROVE  g[T] = h[T]
<1> DEFINE G == {s \in SUBSET T : g[s] = h[s]}
<1>1. \A s \in SUBSET T : g[s] = Step(f, s, g) /\ h[s] = Step(f, s, h)
  BY DEF IsFold
<1>2. {} \in G
  BY <1>1 DEF Step
<1>3. ASSUME NEW s \in SUBSET T, s # {}, \A x \in s : s \ {x} \in G
      PROVE  s \in G
  <2>1. Pick(s) \in s
    BY <1>3 DEF Pick
  <2>2. g[s \ {Pick(s)}] = h[s \ {Pick(s)}]
    BY <1>3, <2>1
  <2> QED BY <1>1, <1>3, <2>2 DEF Step
<1>4. IsFiniteSet(T)
  BY FS_Subset
<1> HIDE DEF G
<1>5. T \in G
  BY <1>2, <1>3, <1>4, SetInduction
<1> QED BY <1>5 DEF G

LEMMA FoldExists == ASSUME NEW f, NEW S, IsFiniteSet(S) PROVE IsFold(f, S, Fold(f, S))
<1> DEFINE G == {s \in SUBSET S : \A t \in SUBSET s : IsFold(f, t, Fold(f, t))}
<1>1. {} \in G
  <2>1. IsFold(f, {}, [s \in SUBSET {} |-> 0])
    BY DEF IsFold, Step
  <2>2. IsFold(f, {}, Fold(f, {}))
    BY <2>1 DEF Fold
  <2> QED BY <2>2
<1>2. ASSUME NEW s \in SUBSET S, s # {}, \A x \in s : s \ {x} \in G
      PROVE  s \in G
  <2>1. ASSUME NEW t \in SUBSET s, t # s
        PROVE  IsFold(f, t, Fold(f, t))
    <3>1. PICK x \in s : x \notin t
      BY <2>1
    <3>2. t \in SUBSET (s \ {x})
      BY <3>1, <2>1
    <3> QED BY <1>2, <3>1, <3>2
  <2> DEFINE T == [t \in SUBSET s |-> Fold(f, t)[t]]
             g == [t \in SUBSET s |-> IF t = s THEN Step(f, s, T) ELSE T[t]]
  <2>2. ASSUME NEW t \in SUBSET s
        PROVE  g[t] = Step(f, t, g)
    <3>1. t # {} => /\ Pick(t) \in t
                    /\ t \ {Pick(t)} \in SUBSET s
                    /\ t \ {Pick(t)} # s
                    /\ t \ {Pick(t)} \in SUBSET t
      BY <2>2 DEF Pick
    <3>2. t # {} => g[t \ {Pick(t)}] = T[t \ {Pick(t)}]
      BY <3>1
    <3>3. CASE t = s
      BY <1>2, <3>1, <3>2, <3>3 DEF Step
    <3>4. CASE t # s /\ t = {}
      <4>1. g[t] = Fold(f, t)[t] /\ IsFold(f, t, Fold(f, t))
        BY <2>1, <3>4
      <4>2. Fold(f, t)[t] = Step(f, t, Fold(f, t))
        BY <4>1 DEF IsFold
      <4> QED BY <3>4, <4>1, <4>2 DEF Step
    <3>5. CASE t # s /\ t # {}
      <4> DEFINE u == t \ {Pick(t)}
      <4>1. g[t] = Fold(f, t)[t] /\ IsFold(f, t, Fold(f, t))
        BY <2>1, <3>5
      <4>2. Fold(f, t)[t] = f[Pick(t)] + Fold(f, t)[u]
        BY <3>5, <4>1 DEF IsFold, Step
      <4>3. IsFold(f, u, Fold(f, u)) /\ u \in SUBSET t /\ IsFiniteSet(t)
        BY <2>1, <3>1, <3>5, FS_Subset
      <4>4. Fold(f, t)[u] = Fold(f, u)[u]
        BY <4>1, <4>3, FoldUnique
      <4>5. g[u] = Fold(f, u)[u]
        BY <3>1, <3>2, <3>5
      <4> QED BY <3>5, <4>1, <4>2, <4>4, <4>5 DEF Step
    <3> QED BY <3>3, <3>4, <3>5
  <2>3. IsFold(f, s, g)
    <3> HIDE DEF T
    <3>1. g = [t \in SUBSET s |-> g[t]]
      OBVIOUS
    <3> HIDE DEF g
    <3> QED BY <2>2, <3>1 DEF IsFold
  <2>4. IsFold(f, s, Fold(f, s))
    <3> HIDE DEF g
    <3> QED BY <2>3 DEF Fold
  <2> QED BY <2>1, <2>4
<1> HIDE DEF G
<1>3. S \in G
  BY <1>1, <1>2, SetInduction
<1> QED BY <1>3 DEF G

LEMMA TotalEmpty == ASSUME NEW f PROVE Total(f, {}) = 0
<1>1. IsFold(f, {}, Fold(f, {}))
  BY FoldExists, FS_EmptySet
<1> QED BY <1>1, TotalIsFold DEF IsFold, Step

LEMMA TotalPick ==
  ASSUME NEW f, NEW S, IsFiniteSet(S), S # {}
  PROVE  Pick(S) \in S /\ Total(f, S) = f[Pick(S)] + Total(f, S \ {Pick(S)})
<1> DEFINE u == S \ {Pick(S)}
<1>1. Pick(S) \in S
  BY DEF Pick
<1>2. u \in SUBSET S /\ IsFiniteSet(u)
  BY FS_Subset
<1>3. IsFold(f, S, Fold(f, S)) /\ IsFold(f, u, Fold(f, u))
  BY <1>2, FoldExists
<1>4. Fold(f, S)[u] = Fold(f, u)[u]
  BY <1>2, <1>3, FoldUnique
<1>5. Fold(f, S)[S] = f[Pick(S)] + Fold(f, S)[u]
  BY <1>3 DEF IsFold, Step
<1> QED BY <1>1, <1>4, <1>5, TotalIsFold

\* A sum of integers is one.
LEMMA TotalIsInt ==
  ASSUME NEW f, NEW S, IsFiniteSet(S), \A x \in S : f[x] \in Int
  PROVE  Total(f, S) \in Int
<1> DEFINE G == {s \in SUBSET S : Total(f, s) \in Int}
<1>1. {} \in G
  BY TotalEmpty
<1>2. ASSUME NEW s \in SUBSET S, s # {}, \A x \in s : s \ {x} \in G
      PROVE  s \in G
  <2>1. IsFiniteSet(s)
    BY FS_Subset
  <2>2. Pick(s) \in s /\ Total(f, s) = f[Pick(s)] + Total(f, s \ {Pick(s)})
    BY <1>2, <2>1, TotalPick
  <2>3. Total(f, s \ {Pick(s)}) \in Int
    BY <1>2, <2>2
  <2> QED BY <2>2, <2>3
<1> HIDE DEF G
<1>3. S \in G
  BY <1>1, <1>2, SetInduction
<1> QED BY <1>3 DEF G

\* A sum of natural numbers is one.
LEMMA TotalType ==
  ASSUME NEW f, NEW S, IsFiniteSet(S), \A x \in S : f[x] \in Nat
  PROVE  Total(f, S) \in Nat
<1> DEFINE G == {s \in SUBSET S : Total(f, s) \in Nat}
<1>1. {} \in G
  BY TotalEmpty
<1>2. ASSUME NEW s \in SUBSET S, s # {}, \A x \in s : s \ {x} \in G
      PROVE  s \in G
  <2>1. IsFiniteSet(s)
    BY FS_Subset
  <2>2. Pick(s) \in s /\ Total(f, s) = f[Pick(s)] + Total(f, s \ {Pick(s)})
    BY <1>2, <2>1, TotalPick
  <2>3. Total(f, s \ {Pick(s)}) \in Nat
    BY <1>2, <2>2
  <2> QED BY <2>2, <2>3
<1> HIDE DEF G
<1>3. S \in G
  BY <1>1, <1>2, SetInduction
<1> QED BY <1>3 DEF G

\* A sum does not depend on the order it is taken in.
LEMMA TotalRemove ==
  ASSUME NEW f, NEW S, IsFiniteSet(S), \A x \in S : f[x] \in Nat, NEW y \in S
  PROVE  Total(f, S) = f[y] + Total(f, S \ {y})
<1> DEFINE G == {s \in SUBSET S : \A x \in s : Total(f, s) = f[x] + Total(f, s \ {x})}
<1>1. {} \in G
  OBVIOUS
<1>2. ASSUME NEW s \in SUBSET S, s # {}, \A x \in s : s \ {x} \in G
      PROVE  s \in G
  <2> SUFFICES ASSUME NEW x \in s PROVE Total(f, s) = f[x] + Total(f, s \ {x})
    OBVIOUS
  <2> DEFINE p == Pick(s)
  <2>1. IsFiniteSet(s)
    BY FS_Subset
  <2>2. p \in s /\ Total(f, s) = f[p] + Total(f, s \ {p})
    BY <1>2, <2>1, TotalPick
  <2> HIDE DEF p
  <2>3. CASE p # x
    <3>1. s \ {p} \in G /\ s \ {x} \in G /\ x \in s \ {p} /\ p \in s \ {x}
      BY <1>2, <2>2, <2>3
    <3>2. /\ Total(f, s \ {p}) = f[x] + Total(f, (s \ {p}) \ {x})
          /\ Total(f, s \ {x}) = f[p] + Total(f, (s \ {x}) \ {p})
      BY <3>1
    <3>3. (s \ {p}) \ {x} = (s \ {x}) \ {p}
      OBVIOUS
    <3>4. IsFiniteSet((s \ {x}) \ {p}) /\ \A z \in (s \ {x}) \ {p} : f[z] \in Nat
      BY <2>1, FS_Subset
    <3>5. Total(f, (s \ {x}) \ {p}) \in Nat
      BY <3>4, TotalType
    <3>6. f[x] \in Nat /\ f[p] \in Nat
      BY <2>2
    <3> HIDE DEF G
    <3> QED BY <2>2, <3>2, <3>3, <3>5, <3>6
  <2> QED BY <2>2, <2>3
<1> HIDE DEF G
<1>3. S \in G
  BY <1>1, <1>2, SetInduction
<1> QED BY <1>3 DEF G

\* It depends on the numbers that are added only.
LEMMA TotalSame ==
  ASSUME NEW f, NEW g, NEW S, IsFiniteSet(S), \A x \in S : f[x] = g[x]
  PROVE  Total(f, S) = Total(g, S)
<1> DEFINE G == {s \in SUBSET S : Total(f, s) = Total(g, s)}
<1>1. {} \in G
  BY TotalEmpty
<1>2. ASSUME NEW s \in SUBSET S, s # {}, \A x \in s : s \ {x} \in G
      PROVE  s \in G
  <2>1. IsFiniteSet(s)
    BY FS_Subset
  <2>2. /\ Pick(s) \in s
        /\ Total(f, s) = f[Pick(s)] + Total(f, s \ {Pick(s)})
        /\ Total(g, s) = g[Pick(s)] + Total(g, s \ {Pick(s)})
    BY <1>2, <2>1, TotalPick
  <2>3. Total(f, s \ {Pick(s)}) = Total(g, s \ {Pick(s)})
    BY <1>2, <2>2
  <2> QED BY <2>2, <2>3
<1> HIDE DEF G
<1>3. S \in G
  BY <1>1, <1>2, SetInduction
<1> QED BY <1>3 DEF G

\* Fewer numbers have no greater sum.
LEMMA TotalSubset ==
  ASSUME NEW f, NEW S, IsFiniteSet(S), \A x \in S : f[x] \in Nat, NEW T \in SUBSET S
  PROVE  Total(f, T) <= Total(f, S)
<1> DEFINE G == {s \in SUBSET S : T \subseteq s => Total(f, T) <= Total(f, s)}
<1>1. ASSUME NEW s \in SUBSET S
      PROVE  IsFiniteSet(s) /\ Total(f, s) \in Nat
  BY FS_Subset, TotalType
<1>2. {} \in G
  BY <1>1
<1>3. ASSUME NEW s \in SUBSET S, s # {}, \A x \in s : s \ {x} \in G
      PROVE  s \in G
  <2> SUFFICES ASSUME T \subseteq s, T # s PROVE Total(f, T) <= Total(f, s)
    BY <1>1
  <2>1. PICK x \in s : x \notin T
    OBVIOUS
  <2>2. Total(f, T) <= Total(f, s \ {x})
    BY <1>3, <2>1
  <2>3. \A y \in s : f[y] \in Nat
    BY <1>3
  <2>4. Total(f, s) = f[x] + Total(f, s \ {x})
    BY <1>1, <2>1, <2>3, TotalRemove
  <2>5. /\ Total(f, T) \in Nat /\ Total(f, s) \in Nat /\ Total(f, s \ {x}) \in Nat
        /\ f[x] \in Nat
    BY <1>1, <2>1
  <2> QED BY <2>2, <2>4, <2>5
<1> HIDE DEF G
<1>4. S \in G
  BY <1>2, <1>3, SetInduction
<1> QED BY <1>4 DEF G
===============================================================================
