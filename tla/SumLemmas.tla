------------------------------ MODULE SumLemmas ------------------------------
EXTENDS Functions, FiniteSets, FiniteSetTheorems, WellFoundedInduction, TLAPS

(* Of sets of subsets of a finite set, one is least.                        *)
LEMMA Least ==
  ASSUME NEW S, IsFiniteSet(S), NEW T, T \subseteq SUBSET S, T # {}
  PROVE  \E t \in T : \A u \in T : ~(u \subseteq t /\ u # t)
<1> DEFINE R == StrictSubsetOrdering(S)
           D == FiniteSubsetsOf(S)
<1>1. IsWellFoundedOn(R, D)
  BY FS_StrictSubsetOrderingWellFounded
<1>2. D = SUBSET S
  BY FS_Subset DEF FiniteSubsetsOf
<1>3. \A t, u \in SUBSET S : u \subseteq t /\ u # t => <<u, t>> \in R
  BY DEF StrictSubsetOrdering
<1> HIDE DEF R, D
<1>4. PICK t \in T : \A u \in T : ~ (<<u, t>> \in R)
  BY <1>1, <1>2, WFMin
<1> QED
  BY <1>3, <1>4

(* What a sum over S computes on the way, and the order in which it goes.   *)
Pick(s) == CHOOSE x \in s : TRUE

Sums(F, S, g) ==
  g = [s \in SUBSET S |-> IF s = {} THEN 0 ELSE F[Pick(s)] + g[s \ {Pick(s)}]]

LEMMA SumUnfold == \A F, S : SumFunctionOnSet(F, S) = (CHOOSE g : Sums(F, S, g))[S]
BY DEF SumFunctionOnSet, FoldFunctionOnSet, MapThenFoldSet, Sums, Pick

LEMMA PickIn == \A s : s # {} => Pick(s) \in s
BY DEF Pick

LEMMA SumsAt ==
  ASSUME NEW F, NEW S, NEW g, Sums(F, S, g), NEW s \in SUBSET S
  PROVE  g[s] = IF s = {} THEN 0 ELSE F[Pick(s)] + g[s \ {Pick(s)}]
BY DEF Sums

(* Two such computations agree where both are defined.                      *)
LEMMA SumsUnique ==
  ASSUME NEW F, NEW S, IsFiniteSet(S), NEW T, NEW g, NEW h, Sums(F, S, g), Sums(F, T, h),
         NEW u \in SUBSET S, u \subseteq T
  PROVE  g[u] = h[u]
<1> DEFINE B == {s \in SUBSET S : s \subseteq T /\ g[s] # h[s]}
<1> SUFFICES ASSUME B # {} PROVE FALSE
  OBVIOUS
<1>1. PICK s \in B : \A t \in B : ~(t \subseteq s /\ t # s)
  <2>1. B \subseteq SUBSET S
    OBVIOUS
  <2> HIDE DEF B
  <2> QED
    BY <2>1, Least
<1>2. /\ g[s] = IF s = {} THEN 0 ELSE F[Pick(s)] + g[s \ {Pick(s)}]
      /\ h[s] = IF s = {} THEN 0 ELSE F[Pick(s)] + h[s \ {Pick(s)}]
  BY SumsAt
<1>3. s # {} => g[s \ {Pick(s)}] = h[s \ {Pick(s)}]
  BY <1>1, PickIn
<1> QED
  BY <1>2, <1>3

LEMMA SumsExist ==
  ASSUME NEW F, NEW S, IsFiniteSet(S)
  PROVE  \E g : Sums(F, S, g)
<1> DEFINE B == {s \in SUBSET S : ~ \E g : Sums(F, s, g)}
<1> SUFFICES ASSUME B # {} PROVE FALSE
  OBVIOUS
<1>1. PICK t \in B : \A s \in B : ~(s \subseteq t /\ s # t)
  <2>1. B \subseteq SUBSET S
    OBVIOUS
  <2> HIDE DEF B
  <2> QED
    BY <2>1, Least
<1> DEFINE H(s) == CHOOSE h : Sums(F, s, h)
           val(s) == IF s = {} THEN 0 ELSE F[Pick(s)] + H(s \ {Pick(s)})[s \ {Pick(s)}]
           g == [s \in SUBSET t |-> val(s)]
<1>2. \A s \in SUBSET t : s # t => Sums(F, s, H(s))
  BY <1>1
<1>3. \A s \in SUBSET t : s # t => H(s)[s] = val(s)
  <2> SUFFICES ASSUME NEW s \in SUBSET t, s # t PROVE H(s)[s] = val(s)
    OBVIOUS
  <2>1. Sums(F, s, H(s)) /\ IsFiniteSet(s)
    BY <1>2, FS_Subset
  <2>2. CASE s = {}
    BY <2>1, <2>2, SumsAt
  <2>3. CASE s # {}
    <3> DEFINE u == s \ {Pick(s)}
    <3>1. u \in SUBSET s /\ u # t /\ u \in SUBSET t
      BY PickIn
    <3>2. Sums(F, u, H(u))
      BY <1>2, <3>1
    <3> HIDE DEF u, H
    <3>3. H(s)[u] = H(u)[u]
      BY <2>1, <3>1, <3>2, SumsUnique
    <3>4. H(s)[s] = F[Pick(s)] + H(s)[u]
      BY <2>1, <2>3, SumsAt DEF u
    <3> QED
      BY <2>3, <3>3, <3>4 DEF u
  <2> QED
    BY <2>2, <2>3
<1>4. Sums(F, t, g)
  <2>1. \A s \in SUBSET t : s # {} => s \ {Pick(s)} \in SUBSET t /\ s \ {Pick(s)} # t
    BY PickIn
  <2> HIDE DEF val, H
  <2>2. \A s \in SUBSET t : s # {} => g[s \ {Pick(s)}] = val(s \ {Pick(s)})
    BY <2>1
  <2>3. \A s \in SUBSET t : s # {} =>
          val(s) = F[Pick(s)] + H(s \ {Pick(s)})[s \ {Pick(s)}]
    BY DEF val
  <2>4. \A s \in SUBSET t : s # {} => val(s) = F[Pick(s)] + g[s \ {Pick(s)}]
    BY <1>3, <2>1, <2>2, <2>3
  <2>5. val({}) = 0
    BY DEF val
  <2> HIDE DEF g
  <2>6. g = [s \in SUBSET t |-> IF s = {} THEN 0 ELSE F[Pick(s)] + g[s \ {Pick(s)}]]
    BY <2>4, <2>5 DEF g
  <2> QED
    BY <2>6 DEF Sums
<1> QED
  BY <1>4

LEMMA SumPick ==
  ASSUME NEW F, NEW S, IsFiniteSet(S)
  PROVE  SumFunctionOnSet(F, S) =
           IF S = {} THEN 0 ELSE F[Pick(S)] + SumFunctionOnSet(F, S \ {Pick(S)})
<1> DEFINE H(s) == CHOOSE h : Sums(F, s, h)
<1>1. \A s : SumFunctionOnSet(F, s) = H(s)[s]
  BY SumUnfold
<1>2. \A s : IsFiniteSet(s) => Sums(F, s, H(s))
  BY SumsExist
<1> HIDE DEF H
<1>3. CASE S = {}
  BY <1>1, <1>2, <1>3, SumsAt
<1>4. CASE S # {}
  <2> DEFINE u == S \ {Pick(S)}
  <2>1. u \in SUBSET S /\ IsFiniteSet(u)
    BY FS_Subset
  <2> HIDE DEF u
  <2>2. H(S)[u] = H(u)[u]
    BY <1>2, <2>1, SumsUnique
  <2>3. H(S)[S] = F[Pick(S)] + H(S)[u]
    BY <1>2, <1>4, SumsAt DEF u
  <2> QED
    BY <1>1, <1>4, <2>2, <2>3 DEF u
<1> QED
  BY <1>3, <1>4

(* A sum over integers is an integer.                                       *)
LEMMA SumType ==
  ASSUME NEW F, NEW S, IsFiniteSet(S), \A x \in S : F[x] \in Int
  PROVE  SumFunctionOnSet(F, S) \in Int
<1> DEFINE B == {s \in SUBSET S : SumFunctionOnSet(F, s) \notin Int}
<1> SUFFICES ASSUME B # {} PROVE FALSE
  OBVIOUS
<1>1. PICK s \in B : \A t \in B : ~(t \subseteq s /\ t # s)
  <2>1. B \subseteq SUBSET S
    OBVIOUS
  <2> HIDE DEF B
  <2> QED
    BY <2>1, Least
<1>2. SumFunctionOnSet(F, s) = IF s = {} THEN 0
                               ELSE F[Pick(s)] + SumFunctionOnSet(F, s \ {Pick(s)})
  BY SumPick, FS_Subset
<1>3. s # {} => SumFunctionOnSet(F, s \ {Pick(s)}) \in Int /\ F[Pick(s)] \in Int
  BY <1>1, PickIn
<1> QED
  BY <1>2, <1>3

(* A sum depends only on the values at the elements it goes over.           *)
LEMMA SumEqual ==
  ASSUME NEW F, NEW G, NEW S, IsFiniteSet(S), \A x \in S : F[x] = G[x]
  PROVE  SumFunctionOnSet(F, S) = SumFunctionOnSet(G, S)
<1> DEFINE B == {s \in SUBSET S : SumFunctionOnSet(F, s) # SumFunctionOnSet(G, s)}
<1> SUFFICES ASSUME B # {} PROVE FALSE
  OBVIOUS
<1>1. PICK s \in B : \A t \in B : ~(t \subseteq s /\ t # s)
  <2>1. B \subseteq SUBSET S
    OBVIOUS
  <2> HIDE DEF B
  <2> QED
    BY <2>1, Least
<1>2. /\ SumFunctionOnSet(F, s) = IF s = {} THEN 0
           ELSE F[Pick(s)] + SumFunctionOnSet(F, s \ {Pick(s)})
      /\ SumFunctionOnSet(G, s) = IF s = {} THEN 0
           ELSE G[Pick(s)] + SumFunctionOnSet(G, s \ {Pick(s)})
  BY SumPick, FS_Subset
<1>3. s # {} => /\ SumFunctionOnSet(F, s \ {Pick(s)}) = SumFunctionOnSet(G, s \ {Pick(s)})
                /\ F[Pick(s)] = G[Pick(s)]
  BY <1>1, PickIn
<1> QED
  BY <1>2, <1>3

(* The order of summation does not matter: any element may come first.      *)
LEMMA SumRemove ==
  ASSUME NEW F, NEW S, IsFiniteSet(S), \A y \in S : F[y] \in Int, NEW x \in S
  PROVE  SumFunctionOnSet(F, S) = F[x] + SumFunctionOnSet(F, S \ {x})
<1> DEFINE sum(s) == SumFunctionOnSet(F, s)
           B == {s \in SUBSET S : \E y \in s : sum(s) # F[y] + sum(s \ {y})}
<1> SUFFICES ASSUME B # {} PROVE FALSE
  OBVIOUS
<1>1. PICK s \in B : \A t \in B : ~(t \subseteq s /\ t # s)
  <2>1. B \subseteq SUBSET S
    OBVIOUS
  <2> HIDE DEF B
  <2> QED
    BY <2>1, Least
<1>2. PICK y \in s : sum(s) # F[y] + sum(s \ {y})
  OBVIOUS
<1>3. \A t \in SUBSET S : sum(t) = IF t = {} THEN 0 ELSE F[Pick(t)] + sum(t \ {Pick(t)})
  BY SumPick, FS_Subset
<1>4. \A t \in SUBSET S : sum(t) \in Int
  <2> SUFFICES ASSUME NEW t \in SUBSET S PROVE sum(t) \in Int
    OBVIOUS
  <2>1. IsFiniteSet(t) /\ \A z \in t : F[z] \in Int
    BY FS_Subset
  <2> QED
    BY <2>1, SumType
<1>5. \A t \in SUBSET S : t \subseteq s /\ t # s => \A z \in t : sum(t) = F[z] + sum(t \ {z})
  BY <1>1
<1> HIDE DEF sum
<1> DEFINE p == Pick(s)
<1>6. p \in s /\ sum(s) = F[p] + sum(s \ {p})
  BY <1>2, <1>3, PickIn
<1> HIDE DEF p
<1>7. p # y
  BY <1>2, <1>6
<1> DEFINE r == s \ {p, y}
<1>8. (s \ {p}) \ {y} = r /\ (s \ {y}) \ {p} = r
  OBVIOUS
<1>9. sum(s \ {p}) = F[y] + sum(r)
  BY <1>5, <1>6, <1>7, <1>8
<1>10. sum(s \ {y}) = F[p] + sum(r)
  BY <1>5, <1>6, <1>7, <1>8
<1>11. F[y] \in Int /\ F[p] \in Int /\ sum(r) \in Int
  BY <1>4, <1>6
<1> QED
  BY <1>2, <1>6, <1>9, <1>10, <1>11

(* What becomes of a sum when one element's value changes.                  *)
LEMMA SumChange ==
  ASSUME NEW F, NEW G, NEW S, IsFiniteSet(S),
         \A y \in S : F[y] \in Int /\ G[y] \in Int,
         NEW x \in S, \A y \in S \ {x} : F[y] = G[y]
  PROVE  SumFunctionOnSet(G, S) = SumFunctionOnSet(F, S) - F[x] + G[x]
<1> DEFINE R == S \ {x}
<1>1. IsFiniteSet(R) /\ R \subseteq S
  BY FS_Subset
<1>2. /\ SumFunctionOnSet(F, S) = F[x] + SumFunctionOnSet(F, R)
      /\ SumFunctionOnSet(G, S) = G[x] + SumFunctionOnSet(G, R)
  BY SumRemove
<1>3. SumFunctionOnSet(F, R) \in Int
  BY <1>1, SumType
<1> HIDE DEF R
<1>4. SumFunctionOnSet(F, R) = SumFunctionOnSet(G, R)
  BY <1>1, SumEqual DEF R
<1> QED
  BY <1>2, <1>3, <1>4

(* ... and when an element joins.                                           *)
LEMMA SumInsert ==
  ASSUME NEW F, NEW G, NEW S, IsFiniteSet(S), NEW x, x \notin S,
         G[x] \in Int, \A y \in S : F[y] \in Int /\ F[y] = G[y]
  PROVE  SumFunctionOnSet(G, S \cup {x}) = SumFunctionOnSet(F, S) + G[x]
<1> DEFINE T == S \cup {x}
<1>1. IsFiniteSet(T) /\ T \ {x} = S
  BY FS_AddElement
<1>2. \A y \in T : G[y] \in Int
  OBVIOUS
<1>3. SumFunctionOnSet(G, T) = G[x] + SumFunctionOnSet(G, T \ {x})
  <2>1. x \in T
    OBVIOUS
  <2> HIDE DEF T
  <2> QED
    BY <1>1, <1>2, <2>1, SumRemove
<1>4. SumFunctionOnSet(F, S) = SumFunctionOnSet(G, S)
  BY SumEqual
<1>5. SumFunctionOnSet(F, S) \in Int
  BY SumType
<1>6. SumFunctionOnSet(G, T) = G[x] + SumFunctionOnSet(G, S)
  BY <1>1, <1>3
<1>7. G[x] + SumFunctionOnSet(G, S) = SumFunctionOnSet(F, S) + G[x]
  BY <1>4, <1>5
<1> QED
  BY <1>6, <1>7

(* Zeros add up to zero.                                                    *)
LEMMA SumZero ==
  ASSUME NEW F, NEW S, IsFiniteSet(S), \A x \in S : F[x] = 0
  PROVE  SumFunctionOnSet(F, S) = 0
<1> DEFINE B == {s \in SUBSET S : SumFunctionOnSet(F, s) # 0}
<1> SUFFICES ASSUME B # {} PROVE FALSE
  OBVIOUS
<1>1. PICK s \in B : \A t \in B : ~(t \subseteq s /\ t # s)
  <2>1. B \subseteq SUBSET S
    OBVIOUS
  <2> HIDE DEF B
  <2> QED
    BY <2>1, Least
<1>2. SumFunctionOnSet(F, s) = IF s = {} THEN 0
                               ELSE F[Pick(s)] + SumFunctionOnSet(F, s \ {Pick(s)})
  BY SumPick, FS_Subset
<1>3. s # {} => SumFunctionOnSet(F, s \ {Pick(s)}) = 0 /\ F[Pick(s)] = 0
  BY <1>1, PickIn
<1> QED
  BY <1>2, <1>3

(* Elements that count for nothing may be left out.                         *)
LEMMA SumSubset ==
  ASSUME NEW F, NEW S, IsFiniteSet(S), NEW T \in SUBSET S,
         \A x \in S : F[x] \in Int, \A x \in S \ T : F[x] = 0
  PROVE  SumFunctionOnSet(F, S) = SumFunctionOnSet(F, T)
<1> DEFINE sum(s) == SumFunctionOnSet(F, s)
           B == {s \in SUBSET S : T \subseteq s /\ sum(s) # sum(T)}
<1> SUFFICES ASSUME B # {} PROVE FALSE
  OBVIOUS
<1>1. PICK s \in B : \A t \in B : ~(t \subseteq s /\ t # s)
  <2>1. B \subseteq SUBSET S
    OBVIOUS
  <2> HIDE DEF B
  <2> QED
    BY <2>1, Least
<1>2. PICK x \in s \ T : TRUE
  OBVIOUS
<1> DEFINE t == s \ {x}
<1>3. sum(t) = sum(T)
  BY <1>1, <1>2
<1>4. IsFiniteSet(s) /\ \A y \in s : F[y] \in Int
  BY FS_Subset
<1>5. sum(s) = F[x] + sum(t)
  BY <1>2, <1>4, SumRemove
<1>6. sum(t) \in Int
  <2>1. IsFiniteSet(t) /\ \A y \in t : F[y] \in Int
    BY <1>4, FS_Subset
  <2> QED
    BY <2>1, SumType
<1> QED
  BY <1>2, <1>3, <1>5, <1>6

(* No term of a sum of naturals exceeds it.                                 *)
LEMMA SumNat ==
  ASSUME NEW F, NEW S, IsFiniteSet(S), \A x \in S : F[x] \in Nat
  PROVE  /\ SumFunctionOnSet(F, S) \in Nat
         /\ \A x \in S : F[x] <= SumFunctionOnSet(F, S)
<1> DEFINE sum(s) == SumFunctionOnSet(F, s)
           B == {s \in SUBSET S : sum(s) \notin Nat}
<1>1. \A s \in SUBSET S : sum(s) \in Nat
  <2> SUFFICES ASSUME B # {} PROVE FALSE
    OBVIOUS
  <2>1. PICK s \in B : \A t \in B : ~(t \subseteq s /\ t # s)
    <3>1. B \subseteq SUBSET S
      OBVIOUS
    <3> HIDE DEF B
    <3> QED
      BY <3>1, Least
  <2>2. sum(s) = IF s = {} THEN 0 ELSE F[Pick(s)] + sum(s \ {Pick(s)})
    BY SumPick, FS_Subset
  <2>3. s # {} => sum(s \ {Pick(s)}) \in Nat /\ F[Pick(s)] \in Nat
    BY <2>1, PickIn
  <2> QED
    BY <2>2, <2>3
<1>2. ASSUME NEW x \in S PROVE F[x] <= sum(S)
  <2>1. sum(S) = F[x] + sum(S \ {x})
    BY SumRemove
  <2>2. sum(S \ {x}) \in Nat /\ F[x] \in Nat
    BY <1>1
  <2> HIDE DEF sum
  <2> QED
    BY <2>1, <2>2
<1> QED
  BY <1>1, <1>2

(* Ones add up to the number of the elements.                               *)
LEMMA SumOnes ==
  ASSUME NEW F, NEW S, IsFiniteSet(S), \A x \in S : F[x] = 1
  PROVE  SumFunctionOnSet(F, S) = Cardinality(S)
<1> DEFINE B == {s \in SUBSET S : SumFunctionOnSet(F, s) # Cardinality(s)}
<1> SUFFICES ASSUME B # {} PROVE FALSE
  OBVIOUS
<1>1. PICK s \in B : \A t \in B : ~(t \subseteq s /\ t # s)
  <2>1. B \subseteq SUBSET S
    OBVIOUS
  <2> HIDE DEF B
  <2> QED
    BY <2>1, Least
<1>2. IsFiniteSet(s)
  BY FS_Subset
<1>3. SumFunctionOnSet(F, s) = IF s = {} THEN 0
                               ELSE F[Pick(s)] + SumFunctionOnSet(F, s \ {Pick(s)})
  BY <1>2, SumPick
<1>4. s # {} => /\ SumFunctionOnSet(F, s \ {Pick(s)}) = Cardinality(s \ {Pick(s)})
                /\ F[Pick(s)] = 1
  BY <1>1, PickIn
<1>5. s # {} => Cardinality(s \ {Pick(s)}) = Cardinality(s) - 1
  BY <1>2, PickIn, FS_RemoveElement
<1>6. Cardinality(s) \in Nat /\ (s = {} => Cardinality(s) = 0)
  BY <1>2, FS_CardinalityType, FS_EmptySet
<1> QED
  BY <1>1, <1>3, <1>4, <1>5, <1>6
=============================================================================
