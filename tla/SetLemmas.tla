------------------------------- MODULE SetLemmas -------------------------------
(***************************************************************************)
(* Lemmas on finite sets that the proofs about the components share: what  *)
(* SumFunctionOnSet computes, that a set of numbers has a least element,   *)
(* and what the levels of a tree reach that are walked downward or upward; *)
(* and a few on sequences.                                                 *)
(*                                                                         *)
(* Induction over the subsets of a finite set takes the set of the good    *)
(* ones instead of a predicate, and follows from the strict subset         *)
(* ordering being well founded.  SumFunctionOnSet chooses a solution of a  *)
(* recursion equation; it has exactly one.                                 *)
(***************************************************************************)
EXTENDS Integers, Sequences, FiniteSets, FiniteSetsExt, FiniteSetTheorems, TLAPS

\* The element a fold takes out of a set, and the function it computes for its subsets
Picked(s) == CHOOSE x \in s : TRUE
Folds(f, g, S) == g = [s \in SUBSET S |-> IF s = {} THEN 0 ELSE f[Picked(s)] + g[s \ {Picked(s)}]]
Iter(f, S) == CHOOSE g : Folds(f, g, S)

\* A sum is the value of that function.
LEMMA SumDef ==
  ASSUME NEW f, NEW S
  PROVE  SumFunctionOnSet(f, S) = Iter(f, S)[S]
BY DEF SumFunctionOnSet, FoldFunctionOnSet, MapThenFoldSet, Iter, Folds, Picked

-----------------------------------------------------------------------------
(* Induction over the subsets of a finite set *)

\* A set that has T whenever it has the proper subsets of T has all subsets.
LEMMA SubsetInduction ==
  ASSUME NEW S, IsFiniteSet(S), NEW Good \in SUBSET SUBSET S,
         \A T \in SUBSET S : (\A U \in SUBSET T : U # T => U \in Good) => T \in Good
  PROVE  Good = SUBSET S
<1> DEFINE Bad == (SUBSET S) \ Good
<1> SUFFICES ASSUME Bad # {}
             PROVE  FALSE
  OBVIOUS
<1>1. SUBSET S = FiniteSubsetsOf(S)
  BY FS_FiniteSubsetsOfFinite
<1>2. IsWellFoundedOn(StrictSubsetOrdering(S), FiniteSubsetsOf(S))
  BY FS_StrictSubsetOrderingWellFounded
<1>3. PICK T \in Bad : \A U \in Bad : ~(<<U, T>> \in StrictSubsetOrdering(S))
  <2>1. Bad \subseteq FiniteSubsetsOf(S)
    BY <1>1
  <2>2. Bad # {}
    OBVIOUS
  <2> HIDE DEF Bad
  <2> QED
    BY <1>2, <2>1, <2>2, WFMin
<1>4. \A U \in SUBSET T : U # T => U \in Good
  BY <1>3 DEF StrictSubsetOrdering
<1> QED
  BY <1>4

-----------------------------------------------------------------------------
(* The recursion equation of a sum *)

\* The equation of the fold has one solution at most.
LEMMA FoldsUnique ==
  ASSUME NEW f, NEW S, IsFiniteSet(S), NEW g, NEW h, NEW T \in SUBSET S,
         Folds(f, g, S), Folds(f, h, T)
  PROVE  \A s \in SUBSET T : g[s] = h[s]
<1> DEFINE Good == {s \in SUBSET T : g[s] = h[s]}
<1>1. IsFiniteSet(T)
  BY FS_Subset
<1>2. ASSUME NEW s \in SUBSET T, \A u \in SUBSET s : u # s => u \in Good
      PROVE  s \in Good
  <2>1. CASE s = {}
    BY <2>1 DEF Folds
  <2>2. CASE s # {}
    <3>1. Picked(s) \in s
      BY <2>2 DEF Picked
    <3>2. s \ {Picked(s)} \in Good
      BY <3>1, <1>2
    <3>3. g[s] = f[Picked(s)] + g[s \ {Picked(s)}]
      BY <2>2 DEF Folds
    <3>4. h[s] = f[Picked(s)] + h[s \ {Picked(s)}]
      BY <2>2 DEF Folds
    <3> QED
      BY <3>2, <3>3, <3>4
  <2> QED
    BY <2>1, <2>2
<1>3. Good = SUBSET T
  <2> HIDE DEF Good
  <2>1. Good \in SUBSET SUBSET T
    BY DEF Good
  <2> QED
    BY <1>1, <1>2, <2>1, SubsetInduction
<1> QED
  BY <1>3

\* ... and it has one.
LEMMA FoldsExists ==
  ASSUME NEW f, NEW S, IsFiniteSet(S)
  PROVE  \E g : Folds(f, g, S)
<1> DEFINE Good == {T \in SUBSET S : \E g : Folds(f, g, T)}
<1>1. ASSUME NEW T \in SUBSET S, \A U \in SUBSET T : U # T => U \in Good
      PROVE  T \in Good
  <2> DEFINE below == [s \in SUBSET T |-> IF s = {} THEN 0 ELSE f[Picked(s)] + Iter(f, s \ {Picked(s)})[s \ {Picked(s)}]]
  <2>1. ASSUME NEW s \in SUBSET T, s # {}
        PROVE  below[s \ {Picked(s)}] = Iter(f, s \ {Picked(s)})[s \ {Picked(s)}]
    <3> DEFINE u == s \ {Picked(s)}
    <3>1. Picked(s) \in s
      BY <2>1 DEF Picked
    <3>2. u \in SUBSET T /\ u # T
      BY <3>1
    <3>3. Folds(f, Iter(f, u), u)
      BY <3>2, <1>1 DEF Iter
    <3>4. CASE u = {}
      BY <3>2, <3>3, <3>4 DEF Folds
    <3>5. CASE u # {}
      <4> DEFINE v == u \ {Picked(u)}
      <4>1. Picked(u) \in u
        BY <3>5 DEF Picked
      <4>2. v \in SUBSET u /\ v # T /\ v \in SUBSET T
        BY <3>2, <4>1
      <4>3. Folds(f, Iter(f, v), v)
        BY <4>2, <1>1 DEF Iter
      <4>4. IsFiniteSet(u)
        BY FS_Subset
      <4>5. \A x \in SUBSET v : Iter(f, u)[x] = Iter(f, v)[x]
        <5> HIDE DEF u, v
        <5> QED
          BY <3>3, <4>2, <4>3, <4>4, FoldsUnique
      <4>6. Iter(f, u)[u] = f[Picked(u)] + Iter(f, u)[v]
        BY <3>3, <3>5 DEF Folds
      <4>7. below[u] = f[Picked(u)] + Iter(f, v)[v]
        BY <3>2, <3>5
      <4> QED
        BY <4>5, <4>6, <4>7
    <3> QED
      BY <3>4, <3>5
  <2>2. Folds(f, below, T)
    BY <2>1 DEF Folds
  <2> QED
    BY <2>2
<1>2. Good = SUBSET S
  <2> HIDE DEF Good
  <2>1. Good \in SUBSET SUBSET S
    BY DEF Good
  <2> QED
    BY <1>1, <2>1, SubsetInduction
<1> QED
  BY <1>2

\* So the fold of a set and that of a subset agree.
LEMMA IterAgrees ==
  ASSUME NEW f, NEW S, IsFiniteSet(S), NEW T \in SUBSET S
  PROVE  /\ Folds(f, Iter(f, S), S)
         /\ Iter(f, S)[T] = SumFunctionOnSet(f, T)
<1>1. Folds(f, Iter(f, S), S)
  BY FoldsExists DEF Iter
<1>2. IsFiniteSet(T)
  BY FS_Subset
<1>3. Folds(f, Iter(f, T), T)
  BY <1>2, FoldsExists DEF Iter
<1>4. ASSUME NEW g, NEW h, Folds(f, g, S), Folds(f, h, T)
      PROVE  \A s \in SUBSET T : g[s] = h[s]
  <2>1. T \in SUBSET S /\ IsFiniteSet(S)
    OBVIOUS
  <2>2. Folds(f, g, S) /\ Folds(f, h, T)
    BY <1>4
  <2> QED
  BY <2>1, <2>2, FoldsUnique, SMTT(60)
<1> QED
  BY <1>1, <1>3, <1>4, SumDef

\* The equation holds of sums.
LEMMA SumUnfold ==
  ASSUME NEW f, NEW S, IsFiniteSet(S)
  PROVE  /\ S = {} => SumFunctionOnSet(f, S) = 0
         /\ S # {} => SumFunctionOnSet(f, S) = f[Picked(S)] + SumFunctionOnSet(f, S \ {Picked(S)})
<1>1. Folds(f, Iter(f, S), S) /\ SumFunctionOnSet(f, S) = Iter(f, S)[S]
  BY IterAgrees
<1>2. CASE S = {}
  BY <1>1, <1>2 DEF Folds
<1>3. CASE S # {}
  <2>1. S \ {Picked(S)} \in SUBSET S
    OBVIOUS
  <2>2. Iter(f, S)[S \ {Picked(S)}] = SumFunctionOnSet(f, S \ {Picked(S)})
    BY <2>1, IterAgrees
  <2>3. Iter(f, S)[S] = f[Picked(S)] + Iter(f, S)[S \ {Picked(S)}]
    BY <1>1, <1>3 DEF Folds
  <2> QED
    BY <1>1, <1>3, <2>2, <2>3
<1> QED
  BY <1>2, <1>3

-----------------------------------------------------------------------------
(* Sums of integers *)

\* Nothing sums to zero.
LEMMA SumEmpty ==
  ASSUME NEW f
  PROVE  SumFunctionOnSet(f, {}) = 0
BY SumUnfold, FS_EmptySet

\* A sum of integers is one.
LEMMA SumInt ==
  ASSUME NEW f, NEW S, IsFiniteSet(S), \A x \in S : f[x] \in Int
  PROVE  SumFunctionOnSet(f, S) \in Int
<1> DEFINE Good == {T \in SUBSET S : SumFunctionOnSet(f, T) \in Int}
<1>1. ASSUME NEW T \in SUBSET S, \A U \in SUBSET T : U # T => U \in Good
      PROVE  T \in Good
  <2>1. IsFiniteSet(T)
    BY FS_Subset
  <2>2. CASE T = {}
    BY <2>2, SumEmpty
  <2>3. CASE T # {}
    <3>1. Picked(T) \in T
      BY <2>3 DEF Picked
    <3>2. T \ {Picked(T)} \in Good
      BY <3>1, <1>1
    <3>3. SumFunctionOnSet(f, T) = f[Picked(T)] + SumFunctionOnSet(f, T \ {Picked(T)})
      BY <2>1, <2>3, SumUnfold
    <3> QED
      BY <3>1, <3>2, <3>3
  <2> QED
    BY <2>2, <2>3
<1>2. Good = SUBSET S
  <2> HIDE DEF Good
  <2>1. Good \in SUBSET SUBSET S
    BY DEF Good
  <2> QED
    BY <1>1, <2>1, SubsetInduction
<1> QED
  BY <1>2

\* Any element may be taken out first.
LEMMA SumRemove ==
  ASSUME NEW f, NEW S, IsFiniteSet(S), \A x \in S : f[x] \in Int, NEW x \in S
  PROVE  SumFunctionOnSet(f, S) = f[x] + SumFunctionOnSet(f, S \ {x})
<1> DEFINE Good == {T \in SUBSET S : \A y \in T : SumFunctionOnSet(f, T) = f[y] + SumFunctionOnSet(f, T \ {y})}
<1>1. ASSUME NEW T \in SUBSET S, \A U \in SUBSET T : U # T => U \in Good
      PROVE  T \in Good
  <2> SUFFICES ASSUME NEW y \in T
               PROVE  SumFunctionOnSet(f, T) = f[y] + SumFunctionOnSet(f, T \ {y})
    OBVIOUS
  <2> DEFINE z == Picked(T)
             Y == T \ {y}
             Z == T \ {z}
             Rest == (T \ {z}) \ {y}
  <2>1. IsFiniteSet(T)
    BY FS_Subset
  <2>2. z \in T
    BY DEF Picked
  <2>3. SumFunctionOnSet(f, T) = f[z] + SumFunctionOnSet(f, Z)
    BY <2>1, SumUnfold
  <2>4. CASE y = z
    BY <2>3, <2>4
  <2>5. CASE y # z
    <3>1. Z \in Good /\ y \in Z
      BY <2>2, <2>5, <1>1
    <3>2. SumFunctionOnSet(f, Z) = f[y] + SumFunctionOnSet(f, Rest)
      BY <3>1
    <3>3. Y \in Good /\ z \in Y
      BY <2>2, <2>5, <1>1
    <3>4. Y \ {z} = Rest
      OBVIOUS
    <3>5. SumFunctionOnSet(f, Y) = f[z] + SumFunctionOnSet(f, Rest)
      BY <3>3, <3>4
    <3>6. IsFiniteSet(Rest)
      BY <2>1, FS_Subset
    <3>7. SumFunctionOnSet(f, Rest) \in Int
      BY <3>6, SumInt
    <3>8. f[y] \in Int /\ f[z] \in Int
      BY <2>2
    <3> HIDE DEF z, Y, Z, Rest
    <3> QED
      BY <2>3, <3>2, <3>5, <3>7, <3>8 DEF Y
  <2> QED
    BY <2>4, <2>5
<1>2. Good = SUBSET S
  <2> HIDE DEF Good
  <2>1. Good \in SUBSET SUBSET S
    BY DEF Good
  <2> QED
    BY <1>1, <2>1, SubsetInduction
<1> QED
  BY <1>2

\* A new element adds its summand.
LEMMA SumAdd ==
  ASSUME NEW f, NEW S, IsFiniteSet(S), NEW x, x \notin S, \A y \in S \union {x} : f[y] \in Int
  PROVE  SumFunctionOnSet(f, S \union {x}) = f[x] + SumFunctionOnSet(f, S)
<1>1. IsFiniteSet(S \union {x})
  BY FS_AddElement
<1>2. (S \union {x}) \ {x} = S
  OBVIOUS
<1> QED
  BY <1>1, <1>2, SumRemove

\* A sum depends on the summands only.
LEMMA SumSame ==
  ASSUME NEW f, NEW g, NEW S, IsFiniteSet(S), \A x \in S : f[x] = g[x]
  PROVE  SumFunctionOnSet(f, S) = SumFunctionOnSet(g, S)
<1> DEFINE Good == {T \in SUBSET S : SumFunctionOnSet(f, T) = SumFunctionOnSet(g, T)}
<1>1. ASSUME NEW T \in SUBSET S, \A U \in SUBSET T : U # T => U \in Good
      PROVE  T \in Good
  <2>1. IsFiniteSet(T)
    BY FS_Subset
  <2>2. CASE T = {}
    BY <2>2, SumEmpty
  <2>3. CASE T # {}
    <3>1. Picked(T) \in T
      BY <2>3 DEF Picked
    <3>2. T \ {Picked(T)} \in Good
      BY <3>1, <1>1
    <3>3. /\ SumFunctionOnSet(f, T) = f[Picked(T)] + SumFunctionOnSet(f, T \ {Picked(T)})
          /\ SumFunctionOnSet(g, T) = g[Picked(T)] + SumFunctionOnSet(g, T \ {Picked(T)})
      BY <2>1, <2>3, SumUnfold
    <3> QED
      BY <3>1, <3>2, <3>3
  <2> QED
    BY <2>2, <2>3
<1>2. Good = SUBSET S
  <2> HIDE DEF Good
  <2>1. Good \in SUBSET SUBSET S
    BY DEF Good
  <2> QED
    BY <1>1, <2>1, SubsetInduction
<1> QED
  BY <1>2

\* Natural numbers have a natural sum, not below that of a part.
LEMMA SumNat ==
  ASSUME NEW f, NEW S, IsFiniteSet(S), \A x \in S : f[x] \in Nat
  PROVE  /\ SumFunctionOnSet(f, S) \in Nat
         /\ \A T \in SUBSET S : SumFunctionOnSet(f, T) <= SumFunctionOnSet(f, S)
<1> DEFINE Good == {T \in SUBSET S : /\ SumFunctionOnSet(f, T) \in Nat
                                     /\ \A U \in SUBSET T : SumFunctionOnSet(f, U) <= SumFunctionOnSet(f, T)}
<1>1. ASSUME NEW T \in SUBSET S, \A U \in SUBSET T : U # T => U \in Good
      PROVE  T \in Good
  <2>1. IsFiniteSet(T)
    BY FS_Subset
  <2>2. SumFunctionOnSet(f, T) \in Nat
    <3>1. CASE T = {}
      BY <3>1, SumEmpty
    <3>2. CASE T # {}
      <4>1. Picked(T) \in T
        BY <3>2 DEF Picked
      <4>2. T \ {Picked(T)} \in Good
        BY <4>1, <1>1
      <4>3. SumFunctionOnSet(f, T) = f[Picked(T)] + SumFunctionOnSet(f, T \ {Picked(T)})
        BY <2>1, <3>2, SumUnfold
      <4> QED
        BY <4>1, <4>2, <4>3
    <3> QED
      BY <3>1, <3>2
  <2>3. ASSUME NEW U \in SUBSET T
        PROVE  SumFunctionOnSet(f, U) <= SumFunctionOnSet(f, T)
    <3>1. CASE U = T
      BY <2>2, <3>1
    <3>2. CASE U # T
      <4>1. PICK x \in T : x \notin U
        BY <3>2
      <4> DEFINE V == T \ {x}
      <4>2. V \in Good /\ U \in SUBSET V
        BY <4>1, <1>1
      <4>3. SumFunctionOnSet(f, T) = f[x] + SumFunctionOnSet(f, V)
        BY <2>1, SumRemove
      <4>4. SumFunctionOnSet(f, U) <= SumFunctionOnSet(f, V) /\ SumFunctionOnSet(f, V) \in Nat
        BY <4>2
      <4>5. SumFunctionOnSet(f, U) \in Nat
        <5>1. U # T /\ U \in SUBSET T
          BY <3>2
        <5> QED
          BY <5>1, <1>1
      <4>6. f[x] \in Nat
        OBVIOUS
      <4> HIDE DEF V
      <4> QED
        BY <4>3, <4>4, <4>5, <4>6
    <3> QED
      BY <3>1, <3>2
  <2> QED
    BY <2>2, <2>3
<1>2. Good = SUBSET S
  <2> HIDE DEF Good
  <2>1. Good \in SUBSET SUBSET S
    BY DEF Good
  <2> QED
    BY <1>1, <2>1, SubsetInduction
<1> QED
  BY <1>2

\* A sum of which one summand changes.
LEMMA SumUpdate ==
  ASSUME NEW f, NEW g, NEW S, IsFiniteSet(S), NEW x \in S,
         \A y \in S : f[y] \in Int /\ g[y] \in Int,
         \A y \in S \ {x} : f[y] = g[y]
  PROVE  SumFunctionOnSet(g, S) = SumFunctionOnSet(f, S) - f[x] + g[x]
<1> DEFINE T == S \ {x}
<1>1. IsFiniteSet(T)
  BY FS_Subset
<1>2. SumFunctionOnSet(f, T) = SumFunctionOnSet(g, T) /\ SumFunctionOnSet(f, T) \in Int
  BY <1>1, SumSame, SumInt
<1>3. SumFunctionOnSet(f, S) = f[x] + SumFunctionOnSet(f, T)
  BY SumRemove
<1>4. SumFunctionOnSet(g, S) = g[x] + SumFunctionOnSet(g, T)
  BY SumRemove
<1> HIDE DEF T
<1> QED
  BY <1>2, <1>3, <1>4

-----------------------------------------------------------------------------
(* Minima and maxima *)

\* A finite set of integers has a minimum.
LEMMA MinOfFinite ==
  ASSUME NEW S, IsFiniteSet(S), S \subseteq Int, S # {}
  PROVE  Min(S) \in S /\ \A x \in S : Min(S) <= x
<1> DEFINE Good == {T \in SUBSET S : T # {} => \E x \in T : \A y \in T : x <= y}
<1>1. ASSUME NEW T \in SUBSET S, \A U \in SUBSET T : U # T => U \in Good
      PROVE  T \in Good
  <2> SUFFICES ASSUME T # {}
               PROVE  \E x \in T : \A y \in T : x <= y
    OBVIOUS
  <2>1. PICK z \in T : TRUE
    OBVIOUS
  <2>2. T \ {z} \in Good
    BY <1>1
  <2>3. CASE T \ {z} = {}
    <3>1. \A y \in T : y = z
      BY <2>3
    <3> QED
      BY <3>1, <2>1
  <2>4. CASE T \ {z} # {}
    <3>1. PICK x \in T \ {z} : \A y \in T \ {z} : x <= y
      BY <2>2, <2>4
    <3>2. x \in Int /\ z \in Int /\ T \subseteq Int
      OBVIOUS
    <3>3. CASE x <= z
      BY <3>1, <3>2, <3>3
    <3>4. CASE z <= x
      BY <3>1, <3>2, <3>4
    <3> QED
      BY <3>2, <3>3, <3>4
  <2> QED
    BY <2>3, <2>4
<1>2. Good = SUBSET S
  <2> HIDE DEF Good
  <2>1. Good \in SUBSET SUBSET S
    BY DEF Good
  <2> QED
    BY <1>1, <2>1, SubsetInduction
<1>3. \E x \in S : \A y \in S : x <= y
  BY <1>2
<1> QED
  BY <1>3 DEF Min

\* ... and a maximum, the minimum of the opposites.
LEMMA MaxOfFinite ==
  ASSUME NEW S, IsFiniteSet(S), S \subseteq Int, S # {}
  PROVE  Max(S) \in S /\ \A x \in S : x <= Max(S)
<1> DEFINE N == {-x : x \in S}
<1>1. IsFiniteSet(N)
  <2>1. [x \in S |-> -x] \in Surjection(S, N)
    BY DEF Surjection
  <2> QED
    BY <2>1, FS_Surjection
<1>2. N \subseteq Int /\ N # {}
  OBVIOUS
<1>3. Min(N) \in N /\ \A y \in N : Min(N) <= y
  <2> HIDE DEF N
  <2> QED
    BY <1>1, <1>2, MinOfFinite
<1>4. PICK x \in S : Min(N) = -x
  BY <1>3
<1>5. \A y \in S : y <= x
  <2> SUFFICES ASSUME NEW y \in S
               PROVE  y <= x
    OBVIOUS
  <2>1. -x <= -y /\ x \in Int /\ y \in Int
    BY <1>3, <1>4
  <2> QED
    BY <2>1
<1>6. \E z \in S : \A y \in S : z >= y
  <2>1. \A y \in S : x >= y
    BY <1>5
  <2> QED
    BY <2>1
<1> QED
  BY <1>6 DEF Max

\* A set of numbers that is not empty has a least element.
LEMMA LeastNumber == ASSUME NEW S \in SUBSET Nat, S # {} PROVE \E i \in S : \A j \in S : i <= j
<1>1. PICK i \in S : \A j \in S : ~(<<j, i>> \in OpToRel(<, Nat))
  BY Zenon, NatLessThanWellFounded, WFMin
<1>2. \A j \in S : ~(j < i)
  BY <1>1 DEF OpToRel
<1> QED
  BY <1>2

-----------------------------------------------------------------------------
(* Trees *)

\* The levels below a set X: level n has those n steps away from it, along the parents of the
\* members of S.
Levels(X, S, parent, levels, D) ==
  levels = [n \in D |-> IF n = 0 THEN X ELSE {s \in S : parent[s] \in levels[n - 1]}]

\* The equation of the levels has one solution as far as two go ...
LEMMA LevelsUnique ==
  ASSUME NEW X, NEW S, NEW parent, NEW f, NEW g, NEW N \in Nat, NEW M \in Nat, N <= M,
         Levels(X, S, parent, f, 0 .. N), Levels(X, S, parent, g, 0 .. M)
  PROVE  \A n \in 0 .. N : f[n] = g[n]
<1> DEFINE Bad == {n \in 0 .. N : f[n] # g[n]}
<1> SUFFICES ASSUME Bad # {} PROVE FALSE
  OBVIOUS
<1>1. PICK n \in Bad : \A k \in Bad : n <= k
  <2>1. Bad \in SUBSET Nat /\ Bad # {}
    OBVIOUS
  <2> HIDE DEF Bad
  <2> QED
    BY <2>1, LeastNumber
<1>2. n \in 0 .. N /\ n \in 0 .. M /\ f[n] # g[n]
  OBVIOUS
<1>3. f[n] = IF n = 0 THEN X ELSE {s \in S : parent[s] \in f[n - 1]}
  BY <1>2 DEF Levels
<1>4. g[n] = IF n = 0 THEN X ELSE {s \in S : parent[s] \in g[n - 1]}
  BY <1>2 DEF Levels
<1>5. n # 0 => f[n - 1] = g[n - 1]
  <2> SUFFICES ASSUME n # 0 PROVE f[n - 1] = g[n - 1]
    OBVIOUS
  <2>1. n - 1 \in 0 .. N /\ ~(n <= n - 1)
    BY <1>2
  <2> QED
    BY <1>1, <2>1
<1> QED
  BY <1>2, <1>3, <1>4, <1>5

\* ... and one for all levels.
LEMMA LevelsExist ==
  ASSUME NEW X, NEW S, NEW parent
  PROVE  \E levels : Levels(X, S, parent, levels, Nat)
<1> DEFINE Bad == {n \in Nat : ~(\E f : Levels(X, S, parent, f, 0 .. n))}
<1>1. Bad = {}
  <2> SUFFICES ASSUME Bad # {} PROVE FALSE
    OBVIOUS
  <2>1. PICK n \in Bad : \A k \in Bad : n <= k
    <3>1. Bad \in SUBSET Nat /\ Bad # {}
      OBVIOUS
    <3> HIDE DEF Bad
    <3> QED
      BY <3>1, LeastNumber
  <2>2. CASE n = 0
    <3>1. Levels(X, S, parent, [i \in 0 .. 0 |-> X], 0 .. 0)
      BY DEF Levels
    <3> QED
      BY <2>2, <3>1
  <2>3. CASE n # 0
    <3>1. n \in Nat /\ n - 1 \in Nat /\ ~(n <= n - 1)
      BY <2>3
    <3>2. PICK f : Levels(X, S, parent, f, 0 .. n - 1)
      BY <2>1, <3>1
    <3>3. PICK g : g = [i \in 0 .. n |-> IF i = 0 THEN X ELSE {s \in S : parent[s] \in f[i - 1]}]
      OBVIOUS
    <3>4. ASSUME NEW i \in 0 .. n - 1 PROVE g[i] = f[i]
      <4>1. f[i] = IF i = 0 THEN X ELSE {s \in S : parent[s] \in f[i - 1]}
        BY <3>2 DEF Levels
      <4>2. i \in 0 .. n
        BY <3>1
      <4> QED
        BY <3>3, <4>1, <4>2
    <3>5. ASSUME NEW i \in 0 .. n, i # 0 PROVE g[i - 1] = f[i - 1]
      <4>1. i - 1 \in 0 .. n - 1
        BY <3>1, <3>5
      <4> QED
        BY <3>4, <4>1
    <3>6. g = [i \in 0 .. n |-> IF i = 0 THEN X ELSE {s \in S : parent[s] \in g[i - 1]}]
      BY <3>3, <3>5
    <3>7. Levels(X, S, parent, g, 0 .. n)
      BY <3>6, Zenon DEF Levels
    <3> QED
      BY <3>7
  <2> QED
    BY <2>2, <2>3
<1> DEFINE Solution(n) == CHOOSE f : Levels(X, S, parent, f, 0 .. n)
<1>2. \A n \in Nat : Levels(X, S, parent, Solution(n), 0 .. n)
  BY <1>1
<1> HIDE DEF Solution
<1>3. PICK h : h = [n \in Nat |-> Solution(n)[n]]
  OBVIOUS
<1>4. ASSUME NEW n \in Nat PROVE h[n] = IF n = 0 THEN X ELSE {s \in S : parent[s] \in h[n - 1]}
  <2>1. Solution(n)[n] = IF n = 0 THEN X ELSE {s \in S : parent[s] \in Solution(n)[n - 1]}
    <3>1. n \in 0 .. n
      OBVIOUS
    <3> QED
      BY <1>2, <3>1 DEF Levels
  <2>2. CASE n = 0
    BY <1>3, <2>1, <2>2
  <2>3. CASE n # 0
    <3>1. n - 1 \in Nat /\ n - 1 <= n /\ n - 1 \in 0 .. n - 1
      BY <2>3
    <3>2. Solution(n - 1)[n - 1] = Solution(n)[n - 1]
      BY <1>2, <3>1, LevelsUnique
    <3> QED
      BY <1>3, <2>1, <2>3, <3>1, <3>2
  <2> QED
    BY <2>2, <2>3
<1>5. h = [n \in Nat |-> IF n = 0 THEN X ELSE {s \in S : parent[s] \in h[n - 1]}]
  BY <1>3, <1>4
<1> QED
  BY <1>5, Zenon DEF Levels

\* As many levels as a finite set has members reach all that can be reached: otherwise each
\* level up to the last would have a member that no earlier one has.
LEMMA LevelsSuffice ==
  ASSUME NEW T, IsFiniteSet(T), NEW S \in SUBSET T, NEW X \in SUBSET T, NEW parent, NEW levels,
         Levels(X, S, parent, levels, Nat), NEW s \in S, NEW i \in 0 .. Cardinality(T), parent[s] \in levels[i]
  PROVE  \E j \in 0 .. Cardinality(T) : s \in levels[j]
<1> SUFFICES ASSUME \A j \in 0 .. Cardinality(T) : s \notin levels[j] PROVE FALSE
  OBVIOUS
<1>1. PICK N \in Nat : N = Cardinality(T)
  BY FS_CardinalityType
<1>2. levels[0] = X /\ \A n \in Nat \ {0} : levels[n] = {t \in S : parent[t] \in levels[n - 1]}
  BY DEF Levels
<1>3. \A n \in Nat, t \in S : parent[t] \in levels[n] => t \in levels[n + 1]
  BY <1>2
<1> DEFINE New(n) == {t \in levels[n] : \A j \in 0 .. n - 1 : t \notin levels[j]}
<1>4. i = N /\ New(N) # {}
  <2>1. i \in Nat /\ i <= N
    BY <1>1
  <2>2. \A j \in 0 .. N - 1 : parent[s] \notin levels[j]
    <3> SUFFICES ASSUME NEW j \in 0 .. N - 1, parent[s] \in levels[j] PROVE FALSE
      OBVIOUS
    <3>1. j \in Nat /\ j + 1 \in 0 .. N
      BY <1>1
    <3> QED
      BY <1>1, <1>3, <3>1
  <2>3. ~(i < N)
    BY <2>1, <2>2
  <2>4. i = N
    BY <2>1, <2>3
  <2> QED
    BY <2>2, <2>4
<1>5. ASSUME NEW n \in Nat \ {0}, New(n) # {} PROVE New(n - 1) # {}
  <2>1. PICK t \in levels[n] : \A j \in 0 .. n - 1 : t \notin levels[j]
    BY <1>5
  <2>2. t \in S /\ parent[t] \in levels[n - 1]
    BY <1>2, <2>1
  <2>3. ASSUME NEW j \in 0 .. (n - 1) - 1, parent[t] \in levels[j] PROVE FALSE
    <3>1. j \in Nat /\ j + 1 \in 0 .. n - 1
      OBVIOUS
    <3> QED
      BY <1>3, <2>1, <2>2, <2>3, <3>1
  <2> QED
    BY <2>2, <2>3
<1> DEFINE Bad == {k \in 0 .. N : New(N - k) = {}}
<1>6. Bad = {}
  <2> SUFFICES ASSUME Bad # {} PROVE FALSE
    OBVIOUS
  <2>1. PICK k \in Bad : \A j \in Bad : k <= j
    <3>1. Bad \in SUBSET Nat /\ Bad # {}
      OBVIOUS
    <3> HIDE DEF Bad
    <3> QED
      BY <3>1, LeastNumber
  <2>2. k \in 0 .. N /\ New(N - k) = {}
    OBVIOUS
  <2> HIDE DEF New
  <2>3. k # 0
    BY <1>4, <2>2
  <2>4. k - 1 \in 0 .. N /\ ~(k <= k - 1)
    BY <2>2, <2>3
  <2>5. New(N - (k - 1)) # {}
    BY <2>1, <2>4
  <2>6. N - (k - 1) \in Nat \ {0} /\ (N - (k - 1)) - 1 = N - k
    BY <2>2, <2>3
  <2> QED
    BY <1>5, <2>2, <2>5, <2>6
<1>7. ASSUME NEW n \in 0 .. N PROVE New(n) # {} /\ New(n) \subseteq T
  <2>1. N - n \in 0 .. N /\ N - (N - n) = n
    OBVIOUS
  <2>2. New(n) # {}
    <3> HIDE DEF New
    <3> QED
      BY <1>6, <2>1
  <2>3. levels[n] \subseteq T
    BY <1>2
  <2> QED
    BY <2>2, <2>3
<1> DEFINE f == [n \in 0 .. N |-> CHOOSE t : t \in New(n)]
<1>8. \A n \in 0 .. N : f[n] \in New(n)
  <2> HIDE DEF New
  <2> QED
    BY <1>7
<1>9. ASSUME NEW m \in 0 .. N, NEW n \in 0 .. N, m < n PROVE f[m] # f[n]
  <2>1. f[m] \in levels[m]
    BY <1>8
  <2>2. m \in 0 .. n - 1
    BY <1>9
  <2>3. f[n] \notin levels[m]
    BY <1>8, <2>2
  <2> QED
    BY <2>1, <2>3
<1>10. f \in Injection(0 .. N, T)
  <2>1. f \in [0 .. N -> T]
    BY <1>7, <1>8
  <2>2. \A m, n \in 0 .. N : f[m] = f[n] => m = n
    <3> HIDE DEF f
    <3> SUFFICES ASSUME NEW m \in 0 .. N, NEW n \in 0 .. N, m # n PROVE f[m] # f[n]
      OBVIOUS
    <3>1. m < n \/ n < m
      OBVIOUS
    <3> QED
      BY <1>9, <3>1
  <2> QED
    BY <2>1, <2>2 DEF Injection, IsInjective
<1>11. Cardinality(0 .. N) <= N
  BY <1>1, <1>10, FS_Injection
<1>12. Cardinality(0 .. N) = N + 1
  <2>1. 0 \in Int /\ N \in Int /\ ~(0 > N) /\ N - 0 + 1 = N + 1
    OBVIOUS
  <2> QED
    BY <2>1, FS_Interval
<1> QED
  BY <1>11, <1>12

\* A tree ends: of any members, one has its parent elsewhere.
Rises(S, parent) == \A group \in (SUBSET S) \ {{}} : \E s \in group : parent[s] \notin group

\* A member that moves to a parent outside what is below it leaves the tree ending.
LEMMA MovesOut ==
  ASSUME NEW S, NEW parent, NEW moved, Rises(S, parent), NEW e \in S, NEW below, e \in below, moved[e] \notin below,
         \A s \in S : parent[s] \in below => s \in below, \A s \in S : s # e => moved[s] = parent[s]
  PROVE  Rises(S, moved)
<1> SUFFICES ASSUME NEW group \in (SUBSET S) \ {{}} PROVE \E s \in group : moved[s] \notin group
  BY DEF Rises
<1>1. CASE e \notin group
  BY <1>1 DEF Rises
<1>2. CASE e \in group /\ group \subseteq below
  BY <1>2
<1>3. CASE e \in group /\ group \ below # {}
  <2>1. PICK s \in group \ below : parent[s] \notin group \ below
    <3>1. group \ below \in (SUBSET S) \ {{}}
      BY <1>3
    <3> QED
      BY <3>1 DEF Rises
  <2>2. parent[s] \notin group /\ s # e
    BY <2>1
  <2> QED
    BY <2>1, <2>2
<1> QED
  BY <1>1, <1>2, <1>3

\* A new member that is nobody's parent.
LEMMA GrowsOut ==
  ASSUME NEW S, NEW parent, NEW grown, Rises(S, parent), NEW e, e \notin S, grown[e] # e,
         \A s \in S : grown[s] = parent[s] /\ parent[s] # e
  PROVE  Rises(S \union {e}, grown)
<1> SUFFICES ASSUME NEW group \in (SUBSET (S \union {e})) \ {{}} PROVE \E s \in group : grown[s] \notin group
  BY DEF Rises
<1>1. CASE group = {e}
  BY <1>1
<1>2. CASE group \ {e} # {}
  <2>1. group \ {e} \in (SUBSET S) \ {{}}
    BY <1>2
  <2>2. PICK s \in group \ {e} : parent[s] \notin group \ {e}
    BY <2>1 DEF Rises
  <2>3. s \in S /\ grown[s] = parent[s] /\ parent[s] # e
    BY <2>1, <2>2
  <2> QED
    BY <2>2, <2>3
<1> QED
  BY <1>1, <1>2

\* Fewer members, or members that have left their parents for something outside.
LEMMA StaysRising ==
  ASSUME NEW S, NEW T \in SUBSET S, NEW parent, NEW kept, Rises(S, parent),
         \A s \in T : kept[s] = parent[s] \/ kept[s] \notin T
  PROVE  Rises(T, kept)
<1> SUFFICES ASSUME NEW group \in (SUBSET T) \ {{}} PROVE \E s \in group : kept[s] \notin group
  BY DEF Rises
<1>1. PICK s \in group : parent[s] \notin group
  BY DEF Rises
<1> QED
  BY <1>1

\* What a sequence is that has grown at its end.
LEMMA AppendAt ==
  ASSUME NEW a \in Seq(Nat), NEW i \in Nat
  PROVE  /\ Len(Append(a, i)) = Len(a) + 1 /\ Append(a, i)[Len(a) + 1] = i
         /\ \A n \in 1 .. Len(a) : Append(a, i)[n] = a[n]
<1>1. Len(a) \in Nat /\ Len(Append(a, i)) = Len(a) + 1
  OBVIOUS
<1>2. Append(a, i)[Len(a) + 1] = i
  BY <1>1
<1>3. ASSUME NEW n \in 1 .. Len(a) PROVE Append(a, i)[n] = a[n]
  BY <1>1
<1> QED
  BY <1>1, <1>2, <1>3

\* Sequences of numbers that have the same members at the same places are equal.
LEMMA SameNumbers ==
  ASSUME NEW a \in Seq(Nat), NEW b \in Seq(Nat), Len(a) = Len(b), \A n \in 1 .. Len(a) : a[n] = b[n]
  PROVE  a = b
  OBVIOUS

\* The same number at the end of different sequences, or different numbers, make different ones.
LEMMA AppendsDiffer ==
  ASSUME NEW a \in Seq(Nat), NEW b \in Seq(Nat), NEW i \in Nat, NEW j \in Nat, Append(a, i) = Append(b, j)
  PROVE  a = b /\ i = j
<1>1. /\ Len(Append(a, i)) = Len(a) + 1 /\ Append(a, i)[Len(a) + 1] = i
      /\ \A n \in 1 .. Len(a) : Append(a, i)[n] = a[n]
  BY AppendAt, Zenon
<1>2. /\ Len(Append(b, j)) = Len(b) + 1 /\ Append(b, j)[Len(b) + 1] = j
      /\ \A n \in 1 .. Len(b) : Append(b, j)[n] = b[n]
  BY AppendAt, Zenon
<1>3. PICK p : p = Append(a, i)
  OBVIOUS
<1>4. Len(a) = Len(b) /\ Len(a) \in Nat /\ Len(b) \in Nat
  <2>1. Len(p) = Len(a) + 1 /\ Len(p) = Len(b) + 1
    BY <1>1, <1>2, <1>3, Zenon
  <2> QED
    BY <2>1
<1>5. i = j
  BY <1>1, <1>2, <1>4, Zenon
<1>6. \A n \in 1 .. Len(a) : a[n] = b[n]
  BY <1>1, <1>2, <1>4, Zenon
<1> QED
  BY <1>4, <1>5, <1>6, SameNumbers, Zenon

\* Sequences of two numbers.
LEMMA TwoNumbers ==
  ASSUME NEW s \in Seq(Nat), NEW t \in Seq(Nat), Len(s) = 2, Len(t) = 2, s[1] = t[1], s[2] = t[2]
  PROVE  s = t
<1>1. \A k \in 1 .. Len(s) : s[k] = t[k]
  OBVIOUS
<1> QED
  BY <1>1

\* A number and one more.
LEMMA FirstSubtask == ASSUME NEW n \in Nat, NEW k \in Nat PROVE Append(<<n>>, k) = <<n, k>>
<1>1. <<n>> \in Seq(Nat) /\ Append(<<n>>, k) \in Seq(Nat) /\ <<n, k>> \in Seq(Nat)
  OBVIOUS
<1>2. Len(Append(<<n>>, k)) = 2 /\ Append(<<n>>, k)[1] = n /\ Append(<<n>>, k)[2] = k
  OBVIOUS
<1>3. Len(<<n, k>>) = 2 /\ <<n, k>>[1] = n /\ <<n, k>>[2] = k
  OBVIOUS
<1> QED
  BY <1>1, <1>2, <1>3, TwoNumbers, Zenon

\* A sequence over some is one over more.
LEMMA SeqOfMore == ASSUME NEW S, NEW T, S \subseteq T, NEW q \in Seq(S) PROVE q \in Seq(T)
OBVIOUS
=============================================================================
