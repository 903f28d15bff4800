---------------------------- MODULE Sums_proofs ----------------------------
(***************************************************************************)
(* The laws of SumOver, for every finite set. SumOver is a fold, defined   *)
(* by a recursive function on the subsets of the set; the laws follow by   *)
(* well-founded induction, always in the form "a set of counterexamples    *)
(* has a smallest member", which is first-order and within reach of the    *)
(* SMT backend (a rule with a predicate parameter is not).                 *)
(***************************************************************************)
EXTENDS Sums, FiniteSetTheorems, TLAPS

\* A non-empty set of subsets of a finite set has a member with no smaller one.
LEMMA SmallestSubset ==
    ASSUME NEW S, IsFiniteSet(S), NEW B, B \subseteq SUBSET S, B # {}
    PROVE  \E T \in B : \A U \in B : ~(U \subseteq T /\ U # T)
<1>1. IsWellFoundedOn(StrictSubsetOrdering(S), SUBSET S)
    BY FS_FiniteSubsetsOfFinite, FS_StrictSubsetOrderingWellFounded
<1>2. \E T \in B : \A U \in B : ~ (<<U, T>> \in StrictSubsetOrdering(S))
    BY <1>1, WFMin
<1> QED
    BY <1>2 DEF StrictSubsetOrdering

\* A non-empty set of natural numbers has a least one.
LEMMA LeastNatural ==
    ASSUME NEW B, B \subseteq Nat, B # {}
    PROVE  \E n \in B : \A m \in B : n <= m
<1> DEFINE R == OpToRel(<, Nat)
<1>1. \A m, n \in Nat : m < n => <<m, n>> \in R
    BY DEF OpToRel
<1>2. IsWellFoundedOn(R, Nat)
    BY NatLessThanWellFounded
<1> HIDE DEF R
<1>3. PICK n \in B : \A m \in B : ~ (<<m, n>> \in R)
    BY <1>2, WFMin
<1>4. ASSUME NEW m \in B PROVE n <= m
  <2>1. m \in Nat /\ n \in Nat /\ ~(m < n)
      BY <1>1, <1>3
  <2> QED
      BY <2>1
<1> QED
    BY <1>4

-----------------------------------------------------------------------------
(* The recursive function behind SumOver, and that it exists.              *)

Pick(S) == CHOOSE x \in S : TRUE

Unfold(f, g, T) == IF T = {} THEN 0 ELSE f[Pick(T)] + g[T \ {Pick(T)}]

PartialSums(f, S) == CHOOSE g : g = [T \in SUBSET S |-> Unfold(f, g, T)]

\* SumOver is that function, applied to the whole set.
LEMMA SumIsPartialSum ==
    ASSUME NEW f, NEW S
    PROVE  SumOver(f, S) = PartialSums(f, S)[S]
BY DEF SumOver, MapThenSumSet, MapThenFoldSet, PartialSums, Unfold, Pick

\* The chosen member is a member.
LEMMA PickType == ASSUME NEW S, S # {} PROVE Pick(S) \in S
BY DEF Pick

\* Removing a member leaves a smaller finite set.
LEMMA Removal ==
    ASSUME NEW S, IsFiniteSet(S), NEW x \in S
    PROVE  /\ IsFiniteSet(S \ {x})
           /\ Cardinality(S) \in Nat
           /\ Cardinality(S \ {x}) = Cardinality(S) - 1
BY FS_RemoveElement, FS_CardinalityType

\* g satisfies the recursion on the subsets with at most n members
SoundUpTo(f, S, g, n) ==
    \A T \in SUBSET S : Cardinality(T) <= n => g[T] = Unfold(f, g, T)

\* For every n there is such a function: unfold one for n - 1 once more.
LEMMA SoundExists ==
    ASSUME NEW S, IsFiniteSet(S), NEW f, \A x \in S : f[x] \in Int, NEW n \in Nat
    PROVE  \E g \in [SUBSET S -> Int] : SoundUpTo(f, S, g, n)
<1> DEFINE B == {m \in Nat : ~\E g \in [SUBSET S -> Int] : SoundUpTo(f, S, g, m)}
<1> SUFFICES ASSUME B # {} PROVE FALSE
    OBVIOUS
<1>0. B \subseteq Nat
    OBVIOUS
<1>1. PICK m \in B : \A k \in B : m <= k
  <2> HIDE DEF B
  <2> QED
      BY <1>0, LeastNatural
<1>2. CASE m = 0
  <2> DEFINE g == [T \in SUBSET S |-> 0]
  <2>1. \A T \in SUBSET S : Cardinality(T) <= 0 => T = {}
      BY FS_Subset, FS_EmptySet, FS_CardinalityType
  <2>2. g \in [SUBSET S -> Int] /\ SoundUpTo(f, S, g, 0)
      BY <2>1 DEF SoundUpTo, Unfold
  <2> QED
      BY <1>2, <2>2
<1>3. CASE m # 0
  <2>1. m - 1 \in Nat /\ m - 1 \notin B
    <3> HIDE DEF B
    <3> QED
        BY <1>0, <1>1, <1>3
  <2>2. PICK g \in [SUBSET S -> Int] : SoundUpTo(f, S, g, m - 1)
      BY <2>1
  <2> DEFINE h == [T \in SUBSET S |-> Unfold(f, g, T)]
  <2>3. h \in [SUBSET S -> Int]
      BY PickType DEF Unfold
  <2>4. ASSUME NEW T \in SUBSET S, Cardinality(T) <= m, T # {}
        PROVE  h[T] = f[Pick(T)] + h[T \ {Pick(T)}]
    <3> DEFINE U == T \ {Pick(T)}
    <3>1. U \in SUBSET S /\ Cardinality(U) <= m - 1
        BY <2>4, FS_Subset, PickType, Removal
    <3>2. h[U] = g[U]
        BY <2>2, <3>1 DEF SoundUpTo
    <3> QED
        BY <2>4, <3>2 DEF Unfold
  <2>5. h[{}] = 0
      BY DEF Unfold
  <2>6. SoundUpTo(f, S, h, m)
    <3> HIDE DEF h
    <3> QED
        BY <2>4, <2>5 DEF SoundUpTo, Unfold
  <2> QED
      BY <2>3, <2>6
<1> QED
    BY <1>2, <1>3

\* The recursive definition of the partial sums defines a function.
LEMMA PartialSumsUnfold ==
    ASSUME NEW S, IsFiniteSet(S), NEW f, \A x \in S : f[x] \in Int
    PROVE  /\ PartialSums(f, S) \in [SUBSET S -> Int]
           /\ \A T \in SUBSET S : PartialSums(f, S)[T] = Unfold(f, PartialSums(f, S), T)
<1>1. Cardinality(S) \in Nat /\ \A T \in SUBSET S : Cardinality(T) <= Cardinality(S)
    BY FS_Subset, FS_CardinalityType
<1>2. PICK g \in [SUBSET S -> Int] : SoundUpTo(f, S, g, Cardinality(S))
    BY <1>1, SoundExists
<1>3. g = [T \in SUBSET S |-> Unfold(f, g, T)]
    BY <1>1, <1>2 DEF SoundUpTo
<1> DEFINE p == PartialSums(f, S)
<1>4. p = [T \in SUBSET S |-> Unfold(f, p, T)]
    BY <1>3 DEF PartialSums
<1>5. \A T \in SUBSET S : p[T] \in Int
  <2> DEFINE B == {T \in SUBSET S : p[T] \notin Int}
  <2> HIDE DEF p
  <2> SUFFICES ASSUME B # {} PROVE FALSE
      OBVIOUS
  <2>1. PICK T \in B : \A U \in B : ~(U \subseteq T /\ U # T)
    <3>1. B \subseteq SUBSET S
        OBVIOUS
    <3> HIDE DEF B
    <3> QED
        BY <3>1, SmallestSubset
  <2>2. p[T] = Unfold(f, p, T)
      BY <1>4
  <2>3. CASE T = {}
      BY <2>2, <2>3 DEF Unfold
  <2>4. CASE T # {}
    <3>1. Pick(T) \in T /\ T \ {Pick(T)} \in SUBSET S
        BY <2>4, PickType
    <3>2. p[T \ {Pick(T)}] \in Int
        BY <2>1, <3>1
    <3> QED
        BY <2>2, <2>4, <3>1, <3>2 DEF Unfold
  <2> QED
      BY <2>3, <2>4
<1> QED
  <2> HIDE DEF p
  <2>1. p \in [SUBSET S -> Int] /\ \A T \in SUBSET S : p[T] = Unfold(f, p, T)
      BY <1>4, <1>5
  <2> QED
      BY <2>1 DEF p

-----------------------------------------------------------------------------
(* The laws.                                                               *)

\* The sum of no row is 0.
LEMMA SumEmpty == ASSUME NEW f PROVE SumOver(f, {}) = 0
BY SumIsPartialSum, PartialSumsUnfold, FS_EmptySet DEF Unfold

\* The sum over a subset does not depend on the set it is taken from.
LEMMA PartialSumIsSum ==
    ASSUME NEW S, IsFiniteSet(S), NEW f, \A x \in S : f[x] \in Int, NEW T \in SUBSET S
    PROVE  PartialSums(f, S)[T] = SumOver(f, T)
<1> DEFINE p == PartialSums(f, S)
           q == PartialSums(f, T)
           B == {U \in SUBSET T : p[U] # q[U]}
<1>1. IsFiniteSet(T)
    BY FS_Subset
<1>2. \A U \in SUBSET T : p[U] = Unfold(f, p, U) /\ q[U] = Unfold(f, q, U)
    BY <1>1, PartialSumsUnfold
<1> HIDE DEF p, q
<1>3. CASE B # {}
  <2>1. PICK U \in B : \A V \in B : ~(V \subseteq U /\ V # U)
    <3>1. B \subseteq SUBSET T
        OBVIOUS
    <3> HIDE DEF B
    <3> QED
        BY <1>1, <1>3, <3>1, SmallestSubset
  <2>2. U # {}
      BY <1>2 DEF Unfold
  <2>3. Pick(U) \in U
      BY <2>2, PickType
  <2>4. p[U \ {Pick(U)}] = q[U \ {Pick(U)}]
      BY <2>1, <2>3
  <2> QED
      BY <1>2, <2>2, <2>4 DEF Unfold
<1>4. CASE B = {}
  <2>1. p[T] = q[T]
      BY <1>4
  <2> QED
      BY <2>1, SumIsPartialSum DEF p, q
<1> QED
    BY <1>3, <1>4

\* The sum of integers is one, and begins with any fixed choice of a row.
LEMMA SumPicks ==
    ASSUME NEW S, IsFiniteSet(S), NEW f, \A x \in S : f[x] \in Int
    PROVE  /\ SumOver(f, S) \in Int
           /\ S # {} => SumOver(f, S) = f[Pick(S)] + SumOver(f, S \ {Pick(S)})
<1>1. SumOver(f, S) = PartialSums(f, S)[S]
    BY SumIsPartialSum
<1>2. PartialSums(f, S)[S \ {Pick(S)}] = SumOver(f, S \ {Pick(S)})
    BY PartialSumIsSum
<1>3. /\ PartialSums(f, S) \in [SUBSET S -> Int]
      /\ PartialSums(f, S)[S] = Unfold(f, PartialSums(f, S), S)
    BY PartialSumsUnfold
<1> QED
    BY <1>1, <1>2, <1>3 DEF Unfold

\* The sum does not depend on the order of the rows: any of them can be
\* taken out first.
LEMMA SumRemoves ==
    ASSUME NEW S, IsFiniteSet(S), NEW f, \A x \in S : f[x] \in Int, NEW x \in S
    PROVE  SumOver(f, S) = f[x] + SumOver(f, S \ {x})
<1> DEFINE B == {T \in SUBSET S : \E y \in T : SumOver(f, T) # f[y] + SumOver(f, T \ {y})}
<1>1. CASE B # {}
  <2>1. PICK T \in B : \A U \in B : ~(U \subseteq T /\ U # T)
    <3>1. B \subseteq SUBSET S
        OBVIOUS
    <3> HIDE DEF B
    <3> QED
        BY <1>1, <3>1, SmallestSubset
  <2>2. PICK y \in T : SumOver(f, T) # f[y] + SumOver(f, T \ {y})
      OBVIOUS
  <2> DEFINE c == Pick(T)
  <2>3. c \in T /\ SumOver(f, T) = f[c] + SumOver(f, T \ {c})
    <3>1. T \in SUBSET S /\ T # {}
        OBVIOUS
    <3>2. IsFiniteSet(T) /\ \A z \in T : f[z] \in Int
        BY <3>1, FS_Subset
    <3> QED
        BY <3>1, <3>2, SumPicks, PickType
  <2> HIDE DEF c
  <2>4. c # y
      BY <2>2, <2>3
  <2>5. T \ {c} \notin B /\ T \ {y} \notin B /\ T \ {c} \in SUBSET S /\ T \ {y} \in SUBSET S
      BY <2>1, <2>3
  <2>6. SumOver(f, T \ {c}) = f[y] + SumOver(f, (T \ {c}) \ {y})
      BY <2>4, <2>5
  <2>7. SumOver(f, T \ {y}) = f[c] + SumOver(f, (T \ {y}) \ {c})
      BY <2>3, <2>4, <2>5
  <2>8. (T \ {c}) \ {y} = (T \ {y}) \ {c} /\ (T \ {c}) \ {y} \in SUBSET S
      OBVIOUS
  <2>9. f[c] \in Int /\ f[y] \in Int /\ SumOver(f, (T \ {c}) \ {y}) \in Int
    <3> DEFINE U == (T \ {c}) \ {y}
    <3>1. c \in S /\ y \in S
        BY <2>3
    <3>2. IsFiniteSet(U) /\ \A z \in U : f[z] \in Int
        BY <2>8, FS_Subset
    <3> HIDE DEF B
    <3>3. SumOver(f, U) \in Int
      <4> HIDE DEF U
      <4> QED
          BY <3>2, SumPicks
    <3> QED
        BY <3>1, <3>3
  <2> DEFINE rest == SumOver(f, (T \ {c}) \ {y})
  <2>10. /\ SumOver(f, T) = f[c] + (f[y] + rest)
         /\ SumOver(f, T \ {y}) = f[c] + rest
         /\ rest \in Int
      BY <2>3, <2>6, <2>7, <2>8, <2>9
  <2> HIDE DEF B, rest
  <2> QED
      BY <2>2, <2>9, <2>10
<1> QED
    BY <1>1

\* Rows that agree on the column have the same sum.
LEMMA SumAgrees ==
    ASSUME NEW S, IsFiniteSet(S), NEW f, NEW g, \A x \in S : f[x] \in Int /\ f[x] = g[x]
    PROVE  SumOver(f, S) = SumOver(g, S)
<1> DEFINE B == {T \in SUBSET S : SumOver(f, T) # SumOver(g, T)}
<1>1. CASE B # {}
  <2>1. PICK T \in B : \A U \in B : ~(U \subseteq T /\ U # T)
    <3>1. B \subseteq SUBSET S
        OBVIOUS
    <3> HIDE DEF B
    <3> QED
        BY <1>1, <3>1, SmallestSubset
  <2>2. T # {}
      BY SumEmpty
  <2>3. PICK x \in T : TRUE
      BY <2>2
  <2>4. IsFiniteSet(T)
      BY FS_Subset
  <2>5. /\ SumOver(f, T) = f[x] + SumOver(f, T \ {x})
        /\ SumOver(g, T) = g[x] + SumOver(g, T \ {x})
      BY <2>4, SumRemoves
  <2>6. SumOver(f, T \ {x}) = SumOver(g, T \ {x})
      BY <2>1
  <2> QED
      BY <2>5, <2>6
<1> QED
    BY <1>1

\* Rows of no negative value that are added never make a sum smaller.
LEMMA SumGrows ==
    ASSUME NEW T, IsFiniteSet(T), NEW f, \A x \in T : f[x] \in Int,
           NEW S \in SUBSET T, \A x \in T \ S : f[x] >= 0
    PROVE  SumOver(f, S) <= SumOver(f, T)
<1> DEFINE B == {U \in SUBSET T : S \subseteq U /\ ~(SumOver(f, S) <= SumOver(f, U))}
<1>0. ASSUME NEW U \in SUBSET T PROVE IsFiniteSet(U) /\ SumOver(f, U) \in Int
  <2>1. IsFiniteSet(U) /\ \A x \in U : f[x] \in Int
      BY FS_Subset
  <2> QED
      BY <2>1, SumPicks
<1>1. CASE B # {}
  <2>1. PICK U \in B : \A V \in B : ~(V \subseteq U /\ V # U)
    <3>1. B \subseteq SUBSET T
        OBVIOUS
    <3> HIDE DEF B
    <3> QED
        BY <1>1, <3>1, SmallestSubset
  <2>2. U # S
      BY <1>0
  <2>3. PICK x \in U \ S : TRUE
      BY <2>2
  <2>4. SumOver(f, U) = f[x] + SumOver(f, U \ {x})
      BY <1>0, SumRemoves
  <2>5. SumOver(f, S) <= SumOver(f, U \ {x})
      BY <2>1, <2>3
  <2> QED
      BY <1>0, <2>3, <2>4, <2>5
<1> QED
    BY <1>1

\* A new row adds its value.
LEMMA SumAdds ==
    ASSUME NEW S, IsFiniteSet(S), NEW x, x \notin S, NEW f, \A y \in S \cup {x} : f[y] \in Int
    PROVE  SumOver(f, S \cup {x}) = f[x] + SumOver(f, S)
<1> DEFINE T == S \cup {x}
<1>1. IsFiniteSet(T) /\ x \in T /\ T \ {x} = S
    BY FS_AddElement
<1>2. \A y \in T : f[y] \in Int
    OBVIOUS
<1> HIDE DEF T
<1>3. SumOver(f, T) = f[x] + SumOver(f, T \ {x})
    BY <1>1, <1>2, SumRemoves
<1> QED
    BY <1>1, <1>3 DEF T

\* A row that changes its value changes the sum by as much.
LEMMA SumShifts ==
    ASSUME NEW S, IsFiniteSet(S), NEW f, NEW g, NEW x \in S,
           \A y \in S : f[y] \in Int /\ g[y] \in Int,
           \A y \in S : y # x => g[y] = f[y]
    PROVE  SumOver(g, S) = SumOver(f, S) + (g[x] - f[x])
<1> DEFINE T == S \ {x}
<1>1. SumOver(f, S) = f[x] + SumOver(f, T) /\ SumOver(g, S) = g[x] + SumOver(g, T)
    BY SumRemoves
<1>2. IsFiniteSet(T) /\ \A y \in T : f[y] \in Int /\ f[y] = g[y]
    BY FS_Subset
<1> HIDE DEF T
<1>3. SumOver(f, T) = SumOver(g, T) /\ SumOver(f, T) \in Int
    BY <1>2, SumAgrees, SumPicks
<1> QED
    BY <1>1, <1>3

\* Rows of no value have no sum.
LEMMA SumZero ==
    ASSUME NEW S, IsFiniteSet(S), NEW f, \A x \in S : f[x] = 0
    PROVE  SumOver(f, S) = 0
<1> DEFINE B == {T \in SUBSET S : SumOver(f, T) # 0}
<1>1. CASE B # {}
  <2>1. PICK T \in B : \A U \in B : ~(U \subseteq T /\ U # T)
    <3>1. B \subseteq SUBSET S
        OBVIOUS
    <3> HIDE DEF B
    <3> QED
        BY <1>1, <3>1, SmallestSubset
  <2>2. T # {}
      BY SumEmpty
  <2>3. PICK x \in T : TRUE
      BY <2>2
  <2>4. IsFiniteSet(T) /\ \A y \in T : f[y] \in Int
      BY FS_Subset
  <2>5. SumOver(f, T) = f[x] + SumOver(f, T \ {x})
      BY <2>4, SumRemoves
  <2>6. SumOver(f, T \ {x}) = 0
      BY <2>1
  <2> QED
      BY <2>5, <2>6
<1> QED
    BY <1>1
=============================================================================
