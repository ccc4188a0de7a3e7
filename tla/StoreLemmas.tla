---------------------------- MODULE StoreLemmas -----------------------------
(***************************************************************************)
(* What the operators of the partitioned store compute, for every set of   *)
(* partitions, keys, values, sizes and quotas: sums over finite sets, the  *)
(* engine's accounting, a log read back record by record, and a snapshot.  *)
(***************************************************************************)
EXTENDS Store, FiniteSetTheorems, WellFoundedInduction, SequenceTheorems, TLAPS

(* A leaf that names no prover is tried with these, in turn.               *)
USE ZenonT(2), SMTT(30), Z3T(30), ZenonT(30)

-----------------------------------------------------------------------------
(* Induction: a set of numbers, or of subsets of a finite set, in which    *)
(* there is always a smaller one is empty.                                 *)

LEMMA NoDescent ==
    ASSUME NEW T, T \subseteq Nat, \A n \in T : \E m \in T : m < n
    PROVE  T = {}
<1> DEFINE R == OpToRel(<, Nat)
<1>1. IsWellFoundedOn(R, Nat)
  BY NatLessThanWellFounded
<1>2. \A x, y \in Nat : <<y, x>> \in R <=> y < x
  BY DEF OpToRel
<1> HIDE DEF R
<1>3. SUFFICES ASSUME T # {} PROVE FALSE
  OBVIOUS
<1>4. PICK x \in T : \A y \in T : ~ (<<y, x>> \in R)
  BY <1>1, <1>3, WFMin
<1> QED
  BY <1>2, <1>4

LEMMA NoSmallerSubset ==
    ASSUME NEW S, IsFiniteSet(S), NEW B, B \subseteq SUBSET S,
           \A s \in B : \E t \in B : Cardinality(t) < Cardinality(s)
    PROVE  B = {}
<1> DEFINE T == {Cardinality(s) : s \in B}
<1>1. T \subseteq Nat
  BY FS_Subset, FS_CardinalityType
<1>2. \A n \in T : \E m \in T : m < n
  OBVIOUS
<1>3. T = {}
  <2> HIDE DEF T
  <2> QED BY <1>1, <1>2, NoDescent
<1> QED
  BY <1>3

-----------------------------------------------------------------------------
(* Recursion: what N steps make of b, and that there is such a function.   *)

Runs(N, V, b, Step, g) ==
    g \in [0 .. N -> V] /\ g[0] = b /\ \A n \in 1 .. N : g[n] = Step[n][g[n - 1]]

LEMMA RunExists ==
    ASSUME NEW N \in Nat, NEW V, NEW b \in V, NEW Step \in [1 .. N -> [V -> V]]
    PROVE  \E g : Runs(N, V, b, Step, g)
<1> DEFINE T == {n \in 0 .. N : ~ \E g : Runs(n, V, b, Step, g)}
<1>1. Runs(0, V, b, Step, [i \in 0 .. 0 |-> b])
  BY DEF Runs
<1>2. ASSUME NEW n \in T
      PROVE  n - 1 \in T /\ n - 1 < n
  <2>1. n \in 1 .. N
    BY <1>1, <1>2
  <2>2. SUFFICES ASSUME NEW g, Runs(n - 1, V, b, Step, g)
                 PROVE  \E h : Runs(n, V, b, Step, h)
    BY <2>1, <1>2
  <2> DEFINE h == [i \in 0 .. n |-> IF i = n THEN Step[n][g[n - 1]] ELSE g[i]]
  <2>3. g \in [0 .. n - 1 -> V] /\ g[0] = b /\ \A i \in 1 .. n - 1 : g[i] = Step[i][g[i - 1]]
    BY <2>2 DEF Runs
  <2>4. h \in [0 .. n -> V]
    BY <2>1, <2>3
  <2>5. h[0] = b /\ h[n] = Step[n][h[n - 1]]
    BY <2>1, <2>3
  <2>6. \A i \in 1 .. n - 1 : h[i] = g[i] /\ h[i - 1] = g[i - 1]
    BY <2>1
  <2>7. \A i \in 1 .. n : h[i] = Step[i][h[i - 1]]
    BY <2>1, <2>3, <2>5, <2>6
  <2> QED
    BY <2>4, <2>5, <2>7 DEF Runs
<1>3. T = {}
  <2>1. T \subseteq Nat
    OBVIOUS
  <2>2. \A n \in T : \E m \in T : m < n
    BY <1>2
  <2> HIDE DEF T
  <2> QED BY <2>1, <2>2, NoDescent
<1>4. N \in 0 .. N
  OBVIOUS
<1>5. N \notin T
  <2> HIDE DEF T
  <2> QED BY <1>3
<1> QED
  BY <1>4, <1>5

-----------------------------------------------------------------------------
(* Sums over finite sets.                                                  *)

Pick(s) == CHOOSE x \in s : TRUE

Folded(f, S, g) ==
    g = [s \in SUBSET S |-> IF s = {} THEN 0 ELSE f[Pick(s)] + g[s \ {Pick(s)}]]

LEMMA SumIsFolded ==
    ASSUME NEW f, NEW S
    PROVE  SumFunctionOnSet(f, S) = (CHOOSE g : Folded(f, S, g))[S]
BY DEF SumFunctionOnSet, FoldFunctionOnSet, MapThenFoldSet, Folded, Pick

LEMMA PickIn ==
    ASSUME NEW s, IsFiniteSet(s), s # {}
    PROVE  /\ Pick(s) \in s
           /\ Cardinality(s) \in Nat \ {0}
           /\ Cardinality(s \ {Pick(s)}) = Cardinality(s) - 1
           /\ Cardinality(s \ {Pick(s)}) < Cardinality(s)
<1>1. Pick(s) \in s
  BY DEF Pick
<1>2. Cardinality(s) \in Nat \ {0} /\ Cardinality(s \ {Pick(s)}) = Cardinality(s) - 1
  BY <1>1, FS_RemoveElement, FS_EmptySet, FS_CardinalityType
<1> QED
  BY <1>1, <1>2

LEMMA FoldExists ==
    ASSUME NEW S, IsFiniteSet(S), NEW f, \A x \in S : f[x] \in Int
    PROVE  \E g : Folded(f, S, g)
<1> DEFINE N == Cardinality(S)
           V == [SUBSET S -> Int]
           b == [s \in SUBSET S |-> 0]
           Further(h) == [s \in SUBSET S |-> IF s = {} THEN 0 ELSE f[Pick(s)] + h[s \ {Pick(s)}]]
           Step == [n \in 1 .. N |-> [h \in V |-> Further(h)]]
<1>1. N \in Nat /\ \A s \in SUBSET S : IsFiniteSet(s) /\ Cardinality(s) \in 0 .. N
  BY FS_CardinalityType, FS_Subset
<1>2. b \in V
  OBVIOUS
<1>3. \A s \in SUBSET S : s # {} => Pick(s) \in S /\ s \ {Pick(s)} \in SUBSET S
  BY <1>1, PickIn
<1>4. \A h \in V : Further(h) \in V
  BY <1>3
<1>5. Step \in [1 .. N -> [V -> V]]
  BY <1>4
<1>6. PICK r : Runs(N, V, b, Step, r)
  <2> HIDE DEF N, V, b, Step
  <2> QED BY <1>1, <1>2, <1>5, RunExists
<1>7. r \in [0 .. N -> V] /\ r[0] = b /\ \A n \in 1 .. N : r[n] = Further(r[n - 1])
  <2>1. \A n \in 1 .. N : n - 1 \in 0 .. N /\ Step[n] = [h \in V |-> Further(h)]
    BY <1>1
  <2> HIDE DEF N, V, b, Step, Further
  <2> QED BY <1>6, <2>1 DEF Runs
<1> DEFINE g == [s \in SUBSET S |-> r[Cardinality(s)][s]]
<1>8. ASSUME NEW s \in SUBSET S
      PROVE  g[s] = IF s = {} THEN 0 ELSE f[Pick(s)] + g[s \ {Pick(s)}]
  <2>1. CASE s = {}
    BY <2>1, <1>7, FS_EmptySet
  <2>2. CASE s # {}
    <3>1. Cardinality(s) \in 1 .. N /\ Cardinality(s \ {Pick(s)}) = Cardinality(s) - 1
          /\ s \ {Pick(s)} \in SUBSET S
      BY <2>2, <1>1, PickIn
    <3>2. r[Cardinality(s)] = Further(r[Cardinality(s) - 1])
      BY <3>1, <1>7
    <3>3. r[Cardinality(s)][s] = f[Pick(s)] + r[Cardinality(s) - 1][s \ {Pick(s)}]
      BY <3>2, <2>2
    <3>4. g[s] = r[Cardinality(s)][s] /\ g[s \ {Pick(s)}] = r[Cardinality(s) - 1][s \ {Pick(s)}]
      BY <3>1
    <3> QED
      BY <2>2, <3>3, <3>4
  <2> QED
    BY <2>1, <2>2
<1>9. Folded(f, S, g)
  <2>1. g = [s \in SUBSET S |-> g[s]]
    OBVIOUS
  <2>2. g = [s \in SUBSET S |-> IF s = {} THEN 0 ELSE f[Pick(s)] + g[s \ {Pick(s)}]]
    <3> HIDE DEF g
    <3> QED BY <2>1, <1>8
  <2> QED
    BY <2>2 DEF Folded
<1> QED
  BY <1>9

LEMMA FoldsAgree ==
    ASSUME NEW T, IsFiniteSet(T),
           NEW f, NEW S, NEW g, Folded(f, S, g), T \subseteq S,
           NEW h, NEW U, NEW k, Folded(h, U, k), T \subseteq U,
           \A x \in T : f[x] = h[x]
    PROVE  g[T] = k[T]
<1> DEFINE B == {s \in SUBSET T : g[s] # k[s]}
<1>1. ASSUME NEW s \in B
      PROVE  s \ {Pick(s)} \in B /\ Cardinality(s \ {Pick(s)}) < Cardinality(s)
  <2>1. /\ g[s] = IF s = {} THEN 0 ELSE f[Pick(s)] + g[s \ {Pick(s)}]
        /\ k[s] = IF s = {} THEN 0 ELSE h[Pick(s)] + k[s \ {Pick(s)}]
    BY DEF Folded
  <2>2. s # {}
    BY <2>1
  <2>3. /\ Pick(s) \in s /\ Cardinality(s) \in Nat
        /\ Cardinality(s \ {Pick(s)}) = Cardinality(s) - 1
    BY <2>2, PickIn, FS_Subset
  <2> QED
    BY <2>1, <2>2, <2>3
<1>2. B = {}
  <2>1. B \subseteq SUBSET T
    OBVIOUS
  <2>2. \A s \in B : \E t \in B : Cardinality(t) < Cardinality(s)
    BY <1>1
  <2> HIDE DEF B
  <2> QED BY <2>1, <2>2, NoSmallerSubset
<1> QED
  BY <1>2

LEMMA SumFold ==
    ASSUME NEW S, IsFiniteSet(S), NEW f, \A x \in S : f[x] \in Int
    PROVE  \E g : Folded(f, S, g) /\ \A T \in SUBSET S : SumFunctionOnSet(f, T) = g[T]
<1>1. PICK g : Folded(f, S, g)
  BY FoldExists
<1>2. ASSUME NEW T \in SUBSET S
      PROVE  SumFunctionOnSet(f, T) = g[T]
  <2> DEFINE k == CHOOSE k : Folded(f, T, k)
  <2>1. IsFiniteSet(T) /\ \A x \in T : f[x] \in Int
    BY FS_Subset
  <2>2. Folded(f, T, k)
    <3>1. \E c : Folded(f, T, c)
      BY <2>1, FoldExists
    <3> QED
      BY <3>1
  <2>3. SumFunctionOnSet(f, T) = k[T]
    BY SumIsFolded
  <2> HIDE DEF k
  <2> QED
    BY <1>1, <2>1, <2>2, <2>3, FoldsAgree
<1> QED
  BY <1>1, <1>2

LEMMA SumSame ==
    ASSUME NEW S, IsFiniteSet(S), NEW f, NEW h,
           \A x \in S : f[x] \in Int /\ h[x] = f[x]
    PROVE  SumFunctionOnSet(h, S) = SumFunctionOnSet(f, S)
<1>1. PICK g : Folded(f, S, g) /\ SumFunctionOnSet(f, S) = g[S]
  BY SumFold
<1>2. PICK k : Folded(h, S, k) /\ SumFunctionOnSet(h, S) = k[S]
  BY SumFold
<1> QED
  BY <1>1, <1>2, FoldsAgree

LEMMA SumEmpty ==
    ASSUME NEW f
    PROVE  SumFunctionOnSet(f, {}) = 0
<1>1. PICK g : Folded(f, {}, g) /\ SumFunctionOnSet(f, {}) = g[{}]
  BY SumFold, FS_EmptySet
<1> QED
  BY <1>1 DEF Folded

LEMMA SumPick ==
    ASSUME NEW S, IsFiniteSet(S), S # {}, NEW f, \A x \in S : f[x] \in Int
    PROVE  SumFunctionOnSet(f, S) = f[Pick(S)] + SumFunctionOnSet(f, S \ {Pick(S)})
<1>1. PICK g : Folded(f, S, g) /\ \A T \in SUBSET S : SumFunctionOnSet(f, T) = g[T]
  BY SumFold
<1>2. g[S] = f[Pick(S)] + g[S \ {Pick(S)}]
  BY <1>1 DEF Folded
<1> QED
  BY <1>1, <1>2

LEMMA SumType ==
    ASSUME NEW S, IsFiniteSet(S), NEW f, \A x \in S : f[x] \in Int
    PROVE  SumFunctionOnSet(f, S) \in Int
<1> DEFINE Sum(s) == SumFunctionOnSet(f, s)
           B == {s \in SUBSET S : Sum(s) \notin Int}
<1>1. \A s \in SUBSET S : IsFiniteSet(s)
  BY FS_Subset
<1>2. ASSUME NEW s \in B
      PROVE  s \ {Pick(s)} \in B /\ Cardinality(s \ {Pick(s)}) < Cardinality(s)
  <2>1. s # {}
    BY SumEmpty
  <2>2. Sum(s) = f[Pick(s)] + Sum(s \ {Pick(s)})
    BY <1>1, <2>1, SumPick
  <2>3. Pick(s) \in s /\ Cardinality(s \ {Pick(s)}) < Cardinality(s)
    BY <1>1, <2>1, PickIn
  <2> HIDE DEF Sum
  <2> QED
    BY <2>2, <2>3
<1>3. B = {}
  <2>1. \A s \in B : \E t \in B : Cardinality(t) < Cardinality(s)
    BY <1>2
  <2>2. B \subseteq SUBSET S
    OBVIOUS
  <2> HIDE DEF B
  <2> QED BY <2>1, <2>2, NoSmallerSubset
<1> QED
  BY <1>3

LEMMA SmallerWithout ==
    ASSUME NEW s, IsFiniteSet(s), NEW x \in s
    PROVE  Cardinality(s \ {x}) < Cardinality(s)
<1>1. Cardinality(s) \in Nat /\ Cardinality(s \ {x}) = Cardinality(s) - 1
  BY FS_RemoveElement, FS_CardinalityType
<1> QED
  BY <1>1

LEMMA SumRemove ==
    ASSUME NEW S, IsFiniteSet(S), NEW f, \A x \in S : f[x] \in Int, NEW y \in S
    PROVE  SumFunctionOnSet(f, S) = f[y] + SumFunctionOnSet(f, S \ {y})
<1> DEFINE Sum(s) == SumFunctionOnSet(f, s)
           B == {s \in SUBSET S : \E x \in s : Sum(s) # f[x] + Sum(s \ {x})}
<1>1. \A s \in SUBSET S : IsFiniteSet(s) /\ Sum(s) \in Int
  BY FS_Subset, SumType
<1>2. \A s \in SUBSET S : s # {} => Sum(s) = f[Pick(s)] + Sum(s \ {Pick(s)})
  BY <1>1, SumPick
<1> HIDE DEF Sum
<1>3. ASSUME NEW s \in B
      PROVE  \E t \in B : Cardinality(t) < Cardinality(s)
  <2>1. PICK x \in s : Sum(s) # f[x] + Sum(s \ {x})
    OBVIOUS
  <2> DEFINE c == Pick(s)
  <2>2. c \in s /\ c # x /\ Sum(s) = f[c] + Sum(s \ {c})
    BY <1>1, <1>2, <2>1, PickIn
  <2>3. Cardinality(s \ {c}) < Cardinality(s) /\ Cardinality(s \ {x}) < Cardinality(s)
    BY <1>1, <2>2, SmallerWithout
  <2>4. (s \ {c}) \ {x} = (s \ {x}) \ {c}
    OBVIOUS
  <2> HIDE DEF c
  <2> DEFINE rest == Sum((s \ {x}) \ {c})
  <2>5. ~ (Sum(s \ {c}) = f[x] + rest /\ Sum(s \ {x}) = f[c] + rest)
    <3>1. f[x] \in Int /\ f[c] \in Int /\ rest \in Int
      BY <1>1, <2>2
    <3> HIDE DEF rest
    <3>2. f[c] + (f[x] + rest) = f[x] + (f[c] + rest)
      BY <3>1
    <3> QED
      BY <2>1, <2>2, <3>2
  <2>6. s \ {c} \in B \/ s \ {x} \in B
    BY <2>2, <2>4, <2>5
  <2> QED
    BY <2>3, <2>6
<1>4. B = {}
  <2>1. B \subseteq SUBSET S
    OBVIOUS
  <2> HIDE DEF B
  <2> QED BY <1>3, <2>1, NoSmallerSubset
<1> QED
  BY <1>4 DEF Sum

LEMMA SumMonotone ==
    ASSUME NEW S, IsFiniteSet(S), NEW f, NEW h,
           \A x \in S : f[x] \in Int /\ h[x] \in Int /\ f[x] <= h[x]
    PROVE  SumFunctionOnSet(f, S) <= SumFunctionOnSet(h, S)
<1> DEFINE F(s) == SumFunctionOnSet(f, s)
           H(s) == SumFunctionOnSet(h, s)
           B == {s \in SUBSET S : ~ (F(s) <= H(s))}
<1>1. \A s \in SUBSET S : IsFiniteSet(s) /\ F(s) \in Int /\ H(s) \in Int
  BY FS_Subset, SumType
<1>2. F({}) = 0 /\ H({}) = 0
  BY SumEmpty
<1>3. \A s \in SUBSET S : s # {} => /\ F(s) = f[Pick(s)] + F(s \ {Pick(s)})
                                    /\ H(s) = h[Pick(s)] + H(s \ {Pick(s)})
  BY <1>1, SumPick
<1> HIDE DEF F, H
<1>4. ASSUME NEW s \in B
      PROVE  \E t \in B : Cardinality(t) < Cardinality(s)
  <2>1. s # {}
    BY <1>2
  <2>2. Pick(s) \in s /\ Cardinality(s \ {Pick(s)}) < Cardinality(s)
    BY <1>1, <2>1, PickIn
  <2>3. s \ {Pick(s)} \in B
    <3> DEFINE c == Pick(s)
               r == s \ {c}
    <3>1. F(s) = f[c] + F(r) /\ H(s) = h[c] + H(r) /\ ~ (F(s) <= H(s))
      BY <1>3, <2>1
    <3>2. f[c] \in Int /\ h[c] \in Int /\ f[c] <= h[c] /\ F(r) \in Int /\ H(r) \in Int
      BY <1>1, <2>2
    <3> HIDE DEF c
    <3>3. ~ (F(r) <= H(r))
      <4> HIDE DEF r
      <4> QED BY <3>1, <3>2
    <3> QED
      BY <3>3 DEF c
  <2> QED
    BY <2>2, <2>3
<1>5. B = {}
  <2>1. B \subseteq SUBSET S
    OBVIOUS
  <2> HIDE DEF B
  <2> QED BY <1>4, <2>1, NoSmallerSubset
<1> QED
  BY <1>5 DEF F, H

LEMMA SumOfNothing ==
    ASSUME NEW S, IsFiniteSet(S), NEW f, \A x \in S : f[x] = 0
    PROVE  SumFunctionOnSet(f, S) = 0
<1> DEFINE F(s) == SumFunctionOnSet(f, s)
           B == {s \in SUBSET S : F(s) # 0}
<1>1. \A s \in SUBSET S : IsFiniteSet(s) /\ \A x \in s : f[x] \in Int
  BY FS_Subset
<1>2. F({}) = 0
  BY SumEmpty
<1>3. \A s \in SUBSET S : s # {} => F(s) = f[Pick(s)] + F(s \ {Pick(s)})
  BY <1>1, SumPick
<1> HIDE DEF F
<1>4. ASSUME NEW s \in B
      PROVE  \E t \in B : Cardinality(t) < Cardinality(s)
  <2>1. s # {}
    BY <1>2
  <2>2. Pick(s) \in s /\ Cardinality(s \ {Pick(s)}) < Cardinality(s)
    <3>1. IsFiniteSet(s)
      BY <1>1
    <3> QED
      BY <2>1, <3>1, PickIn
  <2>3. s \ {Pick(s)} \in B
    BY <1>3, <2>1, <2>2
  <2> QED
    BY <2>2, <2>3
<1>5. B = {}
  <2>1. B \subseteq SUBSET S
    OBVIOUS
  <2> HIDE DEF B
  <2> QED BY <1>4, <2>1, NoSmallerSubset
<1> QED
  BY <1>5 DEF F

LEMMA SumNat ==
    ASSUME NEW S, IsFiniteSet(S), NEW f, \A x \in S : f[x] \in Nat
    PROVE  SumFunctionOnSet(f, S) \in Nat
<1> DEFINE z == [x \in S |-> 0]
<1>1. SumFunctionOnSet(z, S) = 0
  BY SumOfNothing
<1>2. SumFunctionOnSet(z, S) <= SumFunctionOnSet(f, S)
  <2>1. \A x \in S : z[x] \in Int /\ f[x] \in Int /\ z[x] <= f[x]
    OBVIOUS
  <2> HIDE DEF z
  <2> QED BY <2>1, SumMonotone
<1>3. SumFunctionOnSet(f, S) \in Int
  BY SumType
<1> QED
  BY <1>1, <1>2, <1>3

LEMMA SumChange ==
    ASSUME NEW S, IsFiniteSet(S), NEW f, NEW h, NEW y \in S,
           \A x \in S : f[x] \in Int /\ h[x] \in Int /\ (x # y => h[x] = f[x])
    PROVE  SumFunctionOnSet(h, S) = SumFunctionOnSet(f, S) - f[y] + h[y]
<1> DEFINE r == S \ {y}
<1>1. IsFiniteSet(r)
  BY FS_Subset
<1>2. SumFunctionOnSet(h, r) = SumFunctionOnSet(f, r) /\ SumFunctionOnSet(f, r) \in Int
  BY <1>1, SumSame, SumType
<1>3. /\ SumFunctionOnSet(f, S) = f[y] + SumFunctionOnSet(f, r)
      /\ SumFunctionOnSet(h, S) = h[y] + SumFunctionOnSet(h, r)
  BY SumRemove
<1> HIDE DEF r
<1> QED
  BY <1>2, <1>3

LEMMA SumSplit ==
    ASSUME NEW S, IsFiniteSet(S), NEW f, \A x \in S : f[x] \in Int, NEW T \in SUBSET S
    PROVE  SumFunctionOnSet(f, S) = SumFunctionOnSet(f, T) + SumFunctionOnSet(f, S \ T)
<1> DEFINE F(s) == SumFunctionOnSet(f, s)
           B == {s \in SUBSET T : F(S) # F(s) + F(S \ s)}
<1>1. \A s \in SUBSET S : IsFiniteSet(s) /\ F(s) \in Int
  BY FS_Subset, SumType
<1>2. F({}) = 0
  BY SumEmpty
<1>3. \A s \in SUBSET S : \A x \in s : F(s) = f[x] + F(s \ {x})
  BY <1>1, SumRemove
<1> HIDE DEF F
<1>4. ASSUME NEW s \in B
      PROVE  \E t \in B : Cardinality(t) < Cardinality(s)
  <2>1. s # {}
    <3>1. S \ {} = S /\ F(S) \in Int
      BY <1>1
    <3>2. F(S) = F({}) + F(S \ {})
      BY <1>2, <3>1
    <3> QED
      BY <3>2
  <2>2. PICK x \in s : TRUE
    BY <2>1
  <2> DEFINE t == s \ {x}
  <2>3. F(s) = f[x] + F(t) /\ F(S \ t) = f[x] + F(S \ s)
    <3>1. S \ t \in SUBSET S /\ x \in S \ t /\ (S \ t) \ {x} = S \ s
      OBVIOUS
    <3> QED
      BY <1>3, <3>1
  <2>4. t \in SUBSET T /\ Cardinality(t) < Cardinality(s)
    BY <1>1, SmallerWithout
  <2>5. F(t) \in Int /\ F(S \ s) \in Int /\ f[x] \in Int /\ F(S) # F(s) + F(S \ s)
    BY <1>1
  <2> HIDE DEF t
  <2>6. F(S) # F(t) + F(S \ t)
    BY <2>3, <2>5
  <2> QED
    BY <2>4, <2>6
<1>5. B = {}
  <2>1. B \subseteq SUBSET T
    OBVIOUS
  <2>2. IsFiniteSet(T)
    BY <1>1
  <2> HIDE DEF B
  <2> QED BY <1>4, <2>1, <2>2, NoSmallerSubset
<1> QED
  BY <1>5 DEF F

LEMMA SumWithout ==
    ASSUME NEW S, IsFiniteSet(S), NEW f, NEW h, NEW T \in SUBSET S,
           \A x \in S : f[x] \in Int /\ h[x] = IF x \in T THEN 0 ELSE f[x]
    PROVE  SumFunctionOnSet(h, S) = SumFunctionOnSet(f, S) - SumFunctionOnSet(f, T)
<1>1. IsFiniteSet(T) /\ IsFiniteSet(S \ T)
  BY FS_Subset
<1>2. SumFunctionOnSet(h, T) = 0 /\ SumFunctionOnSet(h, S \ T) = SumFunctionOnSet(f, S \ T)
  BY <1>1, SumOfNothing, SumSame
<1>3. /\ SumFunctionOnSet(f, S) = SumFunctionOnSet(f, T) + SumFunctionOnSet(f, S \ T)
      /\ SumFunctionOnSet(h, S) = SumFunctionOnSet(h, T) + SumFunctionOnSet(h, S \ T)
  BY SumSplit
<1>4. SumFunctionOnSet(f, T) \in Int /\ SumFunctionOnSet(f, S \ T) \in Int
  BY <1>1, SumType
<1> QED
  BY <1>2, <1>3, <1>4

-----------------------------------------------------------------------------
(* The engine.  Its counts are exact when they are what a recount of the   *)
(* entries gives, and it is within the quotas when every rule of check_put *)
(* holds of it.                                                            *)

Entries == [Pid \X Key -> Value \cup {None}]

Engine == [entries : Entries, bytes : [Pid -> Int], total : Int]

Costs(e, p) == [k \in Key |-> CostOf(e, p, k)]

Exact(e) ==
    /\ \A p \in Pid : e.bytes[p] = SumFunctionOnSet(Costs(e, p), Key)
    /\ e.total = SumFunctionOnSet(e.bytes, Pid)

Within(e) ==
    /\ \A x \in Pid \X Key : e.entries[x] # None => e.entries[x] <= MAX_VALUE_BYTES
    /\ \A p \in Pid : Cardinality(KeysOf(e, p)) <= MAX_ENTRIES_PER_PARTITION
    /\ \A p \in Pid : e.bytes[p] <= PARTITION_QUOTA_BYTES
    /\ e.total <= GLOBAL_QUOTA_BYTES

Sound(e) == e \in Engine /\ Exact(e) /\ Within(e)

Weight(v) == IF v = None THEN 0 ELSE cost(v)

(* What put and delete do: the entry becomes v.                            *)
Changed(e, p, k, v) ==
    [entries |-> [e.entries EXCEPT ![<<p, k>>] = v],
     bytes   |-> [e.bytes EXCEPT ![p] = @ - CostOf(e, p, k) + Weight(v)],
     total   |-> e.total - CostOf(e, p, k) + Weight(v)]

LEMMA FiniteSets == IsFiniteSet(Pid) /\ IsFiniteSet(Key)
BY StoreAssumption

LEMMA WeightType ==
    ASSUME NEW v \in Value \cup {None}
    PROVE  Weight(v) \in Nat /\ (v \in Value => Weight(v) = cost(v))
BY StoreAssumption DEF Weight, cost

LEMMA CostType ==
    ASSUME NEW e \in Engine, NEW p \in Pid, NEW k \in Key
    PROVE  /\ CostOf(e, p, k) = Weight(e.entries[<<p, k>>])
           /\ CostOf(e, p, k) \in Nat
           /\ Costs(e, p)[k] = CostOf(e, p, k)
<1>1. e.entries[<<p, k>>] \in Value \cup {None}
  BY DEF Engine, Entries
<1>2. CostOf(e, p, k) = Weight(e.entries[<<p, k>>])
  BY DEF CostOf, Weight
<1> QED
  BY <1>1, <1>2, WeightType DEF Costs

LEMMA ExactCounts ==
    ASSUME NEW e \in Engine, Exact(e)
    PROVE  e.bytes \in [Pid -> Nat] /\ e.total \in Nat
<1>1. ASSUME NEW p \in Pid
      PROVE  e.bytes[p] \in Nat
  <2>1. \A k \in Key : Costs(e, p)[k] \in Nat
    BY CostType
  <2>2. SumFunctionOnSet(Costs(e, p), Key) \in Nat
    BY <2>1, SumNat, FiniteSets
  <2> QED
    BY <2>2 DEF Exact
<1>2. SumFunctionOnSet(e.bytes, Pid) \in Nat
  BY <1>1, SumNat, FiniteSets
<1> QED
  BY <1>1, <1>2 DEF Exact, Engine

LEMMA PutChanges ==
    ASSUME NEW e, NEW p, NEW k, NEW v \in Value
    PROVE  put(e, p, k, v) = Changed(e, p, k, v)
<1>1. Weight(v) = cost(v)
  BY WeightType
<1> QED
  BY <1>1 DEF put, Changed

LEMMA DeleteChanges ==
    ASSUME NEW e \in Engine, NEW p \in Pid, NEW k \in Key
    PROVE  delete(e, p, k) = Changed(e, p, k, None)
<1>1. Weight(None) = 0 /\ CostOf(e, p, k) \in Nat
  BY CostType DEF Weight
<1>2. e.bytes[p] \in Int /\ e.total \in Int
  BY DEF Engine
<1>3. /\ e.bytes[p] - CostOf(e, p, k) + Weight(None) = e.bytes[p] - CostOf(e, p, k)
      /\ e.total - CostOf(e, p, k) + Weight(None) = e.total - CostOf(e, p, k)
  BY <1>1, <1>2
<1> QED
  BY <1>3 DEF delete, Changed

LEMMA ChangedFields ==
    ASSUME NEW e \in Engine, NEW p \in Pid, NEW k \in Key, NEW v \in Value \cup {None}
    PROVE  /\ Changed(e, p, k, v) \in Engine
           /\ \A x \in Pid \X Key :
                 Changed(e, p, k, v).entries[x] = IF x = <<p, k>> THEN v ELSE e.entries[x]
           /\ \A q \in Pid :
                 Changed(e, p, k, v).bytes[q] =
                    IF q = p THEN e.bytes[p] - CostOf(e, p, k) + Weight(v) ELSE e.bytes[q]
           /\ Changed(e, p, k, v).total = e.total - CostOf(e, p, k) + Weight(v)
<1>1. Weight(v) \in Nat /\ CostOf(e, p, k) \in Nat
  BY WeightType, CostType
<1>2. e.entries \in Entries /\ e.bytes \in [Pid -> Int] /\ e.total \in Int
  BY DEF Engine
<1>3. [e.entries EXCEPT ![<<p, k>>] = v] \in Entries
  BY <1>2 DEF Entries
<1>4. [e.bytes EXCEPT ![p] = @ - CostOf(e, p, k) + Weight(v)] \in [Pid -> Int]
  BY <1>1, <1>2
<1>5. e.total - CostOf(e, p, k) + Weight(v) \in Int
  BY <1>1, <1>2
<1>6. Changed(e, p, k, v) \in Engine
  BY <1>3, <1>4, <1>5 DEF Changed, Engine
<1>7. \A x \in Pid \X Key :
         Changed(e, p, k, v).entries[x] = IF x = <<p, k>> THEN v ELSE e.entries[x]
  BY <1>2 DEF Changed, Entries
<1>8. \A q \in Pid :
         Changed(e, p, k, v).bytes[q] =
            IF q = p THEN e.bytes[p] - CostOf(e, p, k) + Weight(v) ELSE e.bytes[q]
  BY <1>2 DEF Changed
<1> QED
  BY <1>6, <1>7, <1>8 DEF Changed

LEMMA ChangedExact ==
    ASSUME NEW e \in Engine, Exact(e),
           NEW p \in Pid, NEW k \in Key, NEW v \in Value \cup {None}
    PROVE  Exact(Changed(e, p, k, v))
<1> DEFINE n == Changed(e, p, k, v)
<1>1. n \in Engine
  BY ChangedFields
<1>2. \A x \in Pid \X Key : n.entries[x] = IF x = <<p, k>> THEN v ELSE e.entries[x]
  BY ChangedFields
<1>3. /\ \A q \in Pid : n.bytes[q] = IF q = p THEN e.bytes[p] - CostOf(e, p, k) + Weight(v)
                                            ELSE e.bytes[q]
      /\ n.total = e.total - CostOf(e, p, k) + Weight(v)
  BY ChangedFields
<1> HIDE DEF n
<1>4. \A q \in Pid : \A j \in Key :
         /\ Costs(e, q)[j] \in Nat /\ Costs(n, q)[j] \in Nat
         /\ Costs(n, q)[j] = IF q = p /\ j = k THEN Weight(v) ELSE Costs(e, q)[j]
  <2>1. \A q \in Pid, j \in Key : <<q, j>> \in Pid \X Key /\ (<<q, j>> = <<p, k>> <=> q = p /\ j = k)
    OBVIOUS
  <2>2. \A q \in Pid, j \in Key :
           n.entries[<<q, j>>] = IF q = p /\ j = k THEN v ELSE e.entries[<<q, j>>]
    BY <1>2, <2>1
  <2> SUFFICES ASSUME NEW q \in Pid, NEW j \in Key
               PROVE  /\ Costs(e, q)[j] \in Nat /\ Costs(n, q)[j] \in Nat
                      /\ Costs(n, q)[j] = IF q = p /\ j = k THEN Weight(v) ELSE Costs(e, q)[j]
    OBVIOUS
  <2>3. Costs(e, q)[j] = Weight(e.entries[<<q, j>>]) /\ Costs(e, q)[j] \in Nat
    BY CostType
  <2>4. Costs(n, q)[j] = Weight(n.entries[<<q, j>>]) /\ Costs(n, q)[j] \in Nat
    BY <1>1, CostType
  <2> QED
    BY <2>2, <2>3, <2>4
<1>5. ASSUME NEW q \in Pid
      PROVE  n.bytes[q] = SumFunctionOnSet(Costs(n, q), Key)
  <2>1. e.bytes[q] = SumFunctionOnSet(Costs(e, q), Key)
    BY DEF Exact
  <2>2. CASE q = p
    <3>1. SumFunctionOnSet(Costs(n, q), Key)
             = SumFunctionOnSet(Costs(e, q), Key) - Costs(e, q)[k] + Costs(n, q)[k]
      <4>1. \A j \in Key : /\ Costs(e, q)[j] \in Int /\ Costs(n, q)[j] \in Int
                           /\ j # k => Costs(n, q)[j] = Costs(e, q)[j]
        BY <1>4
      <4> DEFINE f == Costs(e, q)
                 h == Costs(n, q)
      <4>2. \A j \in Key : f[j] \in Int /\ h[j] \in Int /\ (j # k => h[j] = f[j])
        BY <4>1
      <4> HIDE DEF f, h
      <4>3. SumFunctionOnSet(h, Key) = SumFunctionOnSet(f, Key) - f[k] + h[k]
        BY <4>2, SumChange, FiniteSets
      <4> QED
        BY <4>3 DEF f, h
    <3>2. Costs(n, q)[k] = Weight(v) /\ Costs(e, q)[k] = CostOf(e, p, k)
      BY <1>4, <2>2, CostType
    <3> QED
      BY <1>3, <2>1, <2>2, <3>1, <3>2
  <2>3. CASE q # p
    <3>1. \A j \in Key : Costs(e, q)[j] \in Int /\ Costs(n, q)[j] = Costs(e, q)[j]
      BY <1>4, <2>3
    <3>2. SumFunctionOnSet(Costs(n, q), Key) = SumFunctionOnSet(Costs(e, q), Key)
      BY <3>1, SumSame, FiniteSets
    <3> QED
      BY <1>3, <2>1, <2>3, <3>2
  <2> QED
    BY <2>2, <2>3
<1>6. n.total = SumFunctionOnSet(n.bytes, Pid)
  <2>1. \A q \in Pid : /\ e.bytes[q] \in Int /\ n.bytes[q] \in Int
                       /\ q # p => n.bytes[q] = e.bytes[q]
    BY <1>1, <1>3 DEF Engine
  <2>2. SumFunctionOnSet(n.bytes, Pid) = SumFunctionOnSet(e.bytes, Pid) - e.bytes[p] + n.bytes[p]
    <3> DEFINE f == e.bytes
               h == n.bytes
    <3>1. \A q \in Pid : f[q] \in Int /\ h[q] \in Int /\ (q # p => h[q] = f[q])
      BY <2>1
    <3> HIDE DEF f, h
    <3>2. SumFunctionOnSet(h, Pid) = SumFunctionOnSet(f, Pid) - f[p] + h[p]
      BY <3>1, SumChange, FiniteSets
    <3> QED
      BY <3>2 DEF f, h
  <2>3. e.total = SumFunctionOnSet(e.bytes, Pid) /\ e.total \in Int
    BY DEF Exact, Engine
  <2>4. Weight(v) \in Nat /\ CostOf(e, p, k) \in Nat
    BY WeightType, CostType
  <2>5. n.bytes[p] = e.bytes[p] - CostOf(e, p, k) + Weight(v)
    BY <1>3
  <2>6. e.bytes[p] \in Int
    BY <2>1
  <2> QED
    BY <1>3, <2>2, <2>3, <2>4, <2>5, <2>6
<1> QED
  BY <1>5, <1>6 DEF Exact, n

LEMMA KeysFinite ==
    ASSUME NEW e, NEW p
    PROVE  /\ IsFiniteSet(KeysOf(e, p)) /\ Cardinality(KeysOf(e, p)) \in Nat
           /\ \A s \in SUBSET KeysOf(e, p) : /\ IsFiniteSet(s) /\ Cardinality(s) \in Nat
                                             /\ Cardinality(s) <= Cardinality(KeysOf(e, p))
<1>1. IsFiniteSet(KeysOf(e, p))
  <2>1. KeysOf(e, p) \in SUBSET Key
    BY DEF KeysOf
  <2> QED
    BY <2>1, FS_Subset, FiniteSets
<1> QED
  BY <1>1, FS_Subset, FS_CardinalityType

LEMMA PutSound ==
    ASSUME NEW e, Sound(e), NEW p \in Pid, NEW k \in Key, NEW v \in Value,
           check_put(e, p, k, v)
    PROVE  Sound(put(e, p, k, v))
<1> DEFINE n == Changed(e, p, k, v)
<1>1. e \in Engine /\ Exact(e) /\ Within(e)
  BY DEF Sound
<1>2. n \in Engine /\ Exact(n)
  BY <1>1, ChangedFields, ChangedExact
<1>3. \A x \in Pid \X Key : n.entries[x] = IF x = <<p, k>> THEN v ELSE e.entries[x]
  BY <1>1, ChangedFields
<1>4. /\ \A q \in Pid : n.bytes[q] = IF q = p THEN e.bytes[p] - CostOf(e, p, k) + cost(v)
                                            ELSE e.bytes[q]
      /\ n.total = e.total - CostOf(e, p, k) + cost(v)
  BY <1>1, ChangedFields, WeightType
<1>5. put(e, p, k, v) = n
  BY PutChanges
<1> HIDE DEF n
<1>6. /\ v <= MAX_VALUE_BYTES
      /\ k \in KeysOf(e, p) \/ Cardinality(KeysOf(e, p)) < MAX_ENTRIES_PER_PARTITION
      /\ e.bytes[p] - CostOf(e, p, k) + cost(v) <= PARTITION_QUOTA_BYTES
      /\ e.total - CostOf(e, p, k) + cost(v) <= GLOBAL_QUOTA_BYTES
  BY DEF check_put
<1>7. ASSUME NEW q \in Pid
      PROVE  Cardinality(KeysOf(n, q)) <= MAX_ENTRIES_PER_PARTITION
  <2>1. Cardinality(KeysOf(e, q)) <= MAX_ENTRIES_PER_PARTITION
    BY <1>1 DEF Within
  <2>2. KeysOf(n, q) = IF q = p THEN KeysOf(e, q) \cup {k} ELSE KeysOf(e, q)
    <3>1. \A j \in Key : n.entries[<<q, j>>] = IF q = p /\ j = k THEN v ELSE e.entries[<<q, j>>]
      BY <1>3
    <3>2. v # None
      BY StoreAssumption
    <3> QED
      BY <3>1, <3>2 DEF KeysOf
  <2>3. CASE q = p
    <3>1. Cardinality(KeysOf(e, q) \cup {k})
             = IF k \in KeysOf(e, q) THEN Cardinality(KeysOf(e, q)) ELSE Cardinality(KeysOf(e, q)) + 1
      BY KeysFinite, FS_AddElement
    <3>2. Cardinality(KeysOf(e, q)) \in Nat /\ MAX_ENTRIES_PER_PARTITION \in Nat
      BY KeysFinite, StoreAssumption
    <3> QED
      BY <1>6, <2>1, <2>2, <2>3, <3>1, <3>2
  <2>4. CASE q # p
    BY <2>1, <2>2, <2>4
  <2> QED
    BY <2>3, <2>4
<1>8. /\ \A x \in Pid \X Key : n.entries[x] # None => n.entries[x] <= MAX_VALUE_BYTES
      /\ \A q \in Pid : n.bytes[q] <= PARTITION_QUOTA_BYTES
      /\ n.total <= GLOBAL_QUOTA_BYTES
  BY <1>1, <1>3, <1>4, <1>6 DEF Within
<1> QED
  BY <1>2, <1>5, <1>7, <1>8 DEF Sound, Within

LEMMA DeleteSound ==
    ASSUME NEW e, Sound(e), NEW p \in Pid, NEW k \in Key
    PROVE  Sound(delete(e, p, k))
<1> DEFINE n == Changed(e, p, k, None)
<1>1. e \in Engine /\ Exact(e) /\ Within(e)
  BY DEF Sound
<1>2. n \in Engine /\ Exact(n)
  BY <1>1, ChangedFields, ChangedExact
<1>3. \A x \in Pid \X Key : n.entries[x] = IF x = <<p, k>> THEN None ELSE e.entries[x]
  BY <1>1, ChangedFields
<1>4. /\ \A q \in Pid : n.bytes[q] = IF q = p THEN e.bytes[p] - CostOf(e, p, k) + Weight(None)
                                     ELSE e.bytes[q]
      /\ n.total = e.total - CostOf(e, p, k) + Weight(None)
  BY <1>1, ChangedFields
<1>5. delete(e, p, k) = n
  BY <1>1, DeleteChanges
<1> HIDE DEF n
<1>6. Weight(None) = 0 /\ CostOf(e, p, k) \in Nat
  BY <1>1, CostType DEF Weight
<1>7. ASSUME NEW q \in Pid
      PROVE  /\ Cardinality(KeysOf(n, q)) <= MAX_ENTRIES_PER_PARTITION
             /\ n.bytes[q] <= PARTITION_QUOTA_BYTES
  <2>1. Cardinality(KeysOf(e, q)) <= MAX_ENTRIES_PER_PARTITION
    BY <1>1 DEF Within
  <2>2. KeysOf(n, q) \in SUBSET KeysOf(e, q)
    <3>1. \A j \in Key : n.entries[<<q, j>>] # None => e.entries[<<q, j>>] # None
      BY <1>3
    <3> QED
      BY <3>1 DEF KeysOf
  <2>3. /\ Cardinality(KeysOf(n, q)) <= Cardinality(KeysOf(e, q))
        /\ Cardinality(KeysOf(n, q)) \in Nat /\ Cardinality(KeysOf(e, q)) \in Nat
    BY <2>2, KeysFinite
  <2>4. MAX_ENTRIES_PER_PARTITION \in Nat /\ PARTITION_QUOTA_BYTES \in Nat
    BY StoreAssumption
  <2>5. e.bytes[q] \in Int /\ e.bytes[q] <= PARTITION_QUOTA_BYTES
    BY <1>1 DEF Engine, Within
  <2> QED
    BY <1>4, <1>6, <2>1, <2>3, <2>4, <2>5
<1>8. \A x \in Pid \X Key : n.entries[x] # None => n.entries[x] <= MAX_VALUE_BYTES
  BY <1>1, <1>3 DEF Within
<1>9. n.total <= GLOBAL_QUOTA_BYTES
  <2>1. e.total \in Int /\ e.total <= GLOBAL_QUOTA_BYTES /\ GLOBAL_QUOTA_BYTES \in Nat
    BY <1>1, StoreAssumption DEF Engine, Within
  <2> QED
    BY <1>4, <1>6, <2>1
<1> QED
  BY <1>2, <1>5, <1>7, <1>8, <1>9 DEF Sound, Within

(* Two exact engines with the same entries are the same; one with fewer    *)
(* entries counts no more.                                                 *)
LEMMA FewerCount ==
    ASSUME NEW e \in Engine, Exact(e), NEW d \in Engine, Exact(d),
           \A x \in Pid \X Key : d.entries[x] \in {None, e.entries[x]}
    PROVE  /\ \A p \in Pid : d.bytes[p] <= e.bytes[p]
           /\ d.total <= e.total
<1>1. ASSUME NEW p \in Pid
      PROVE  d.bytes[p] <= e.bytes[p]
  <2> DEFINE f == Costs(d, p)
             h == Costs(e, p)
  <2>1. ASSUME NEW k \in Key
        PROVE  f[k] \in Int /\ h[k] \in Int /\ f[k] <= h[k]
    <3>1. f[k] = Weight(d.entries[<<p, k>>]) /\ f[k] \in Nat
      BY CostType
    <3>2. h[k] = Weight(e.entries[<<p, k>>]) /\ h[k] \in Nat
      BY CostType
    <3>3. d.entries[<<p, k>>] \in {None, e.entries[<<p, k>>]} /\ Weight(None) = 0
      BY DEF Weight
    <3> HIDE DEF f, h
    <3> QED
      BY <3>1, <3>2, <3>3
  <2>2. d.bytes[p] = SumFunctionOnSet(f, Key) /\ e.bytes[p] = SumFunctionOnSet(h, Key)
    BY DEF Exact
  <2> HIDE DEF f, h
  <2> QED
    BY <2>1, <2>2, SumMonotone, FiniteSets
<1>2. d.total <= e.total
  <2> DEFINE f == d.bytes
             h == e.bytes
  <2>1. \A p \in Pid : f[p] \in Int /\ h[p] \in Int /\ f[p] <= h[p]
    BY <1>1 DEF Engine
  <2>2. d.total = SumFunctionOnSet(f, Pid) /\ e.total = SumFunctionOnSet(h, Pid)
    BY DEF Exact
  <2> HIDE DEF f, h
  <2> QED
    BY <2>1, <2>2, SumMonotone, FiniteSets
<1> QED
  BY <1>1, <1>2

LEMMA SameEntries ==
    ASSUME NEW e \in Engine, Exact(e), NEW d \in Engine, Exact(d), d.entries = e.entries
    PROVE  d = e
<1>1. \A x \in Pid \X Key : d.entries[x] \in {None, e.entries[x]} /\ e.entries[x] \in {None, d.entries[x]}
  OBVIOUS
<1>2. \A p \in Pid : d.bytes[p] <= e.bytes[p] /\ e.bytes[p] <= d.bytes[p]
  BY <1>1, FewerCount
<1>3. d.total <= e.total /\ e.total <= d.total
  BY <1>1, FewerCount
<1>4. d.bytes = e.bytes
  BY <1>2 DEF Engine
<1>5. d.total = e.total
  BY <1>3 DEF Engine
<1> QED
  BY <1>4, <1>5 DEF Engine

LEMMA EmptySound ==
    /\ Sound(EmptyEngine)
    /\ \A x \in Pid \X Key : EmptyEngine.entries[x] = None
<1> DEFINE e == EmptyEngine
<1>1. e \in Engine
  BY DEF EmptyEngine, Engine, Entries
<1>2. /\ \A x \in Pid \X Key : e.entries[x] = None
      /\ \A p \in Pid : e.bytes[p] = 0
      /\ e.total = 0
  BY DEF EmptyEngine
<1> HIDE DEF e
<1>3. ASSUME NEW p \in Pid
      PROVE  SumFunctionOnSet(Costs(e, p), Key) = 0 /\ KeysOf(e, p) = {}
  <2>1. \A k \in Key : Costs(e, p)[k] = 0
    <3>1. \A k \in Key : e.entries[<<p, k>>] = None
      BY <1>2
    <3> QED
      BY <1>1, <3>1, CostType DEF Weight
  <2>2. KeysOf(e, p) = {}
    BY <1>2 DEF KeysOf
  <2> QED
    BY <2>1, <2>2, SumOfNothing, FiniteSets
<1>4. SumFunctionOnSet(e.bytes, Pid) = 0
  BY <1>2, SumOfNothing, FiniteSets
<1>5. Exact(e)
  BY <1>2, <1>3, <1>4 DEF Exact
<1>6. Within(e)
  <2>1. Cardinality({}) = 0
    BY FS_EmptySet
  <2>2. /\ 0 <= MAX_ENTRIES_PER_PARTITION /\ 0 <= PARTITION_QUOTA_BYTES
        /\ 0 <= GLOBAL_QUOTA_BYTES
    BY StoreAssumption
  <2> QED
    BY <1>2, <1>3, <2>1, <2>2 DEF Within
<1> QED
  BY <1>1, <1>2, <1>5, <1>6 DEF Sound, e

LEMMA RemoveFields ==
    ASSUME NEW e \in Engine, NEW gone \in SUBSET Pid
    PROVE  /\ remove(e, gone) \in Engine
           /\ \A x \in Pid \X Key :
                 remove(e, gone).entries[x] = IF x[1] \in gone THEN None ELSE e.entries[x]
           /\ \A p \in Pid : remove(e, gone).bytes[p] = IF p \in gone THEN 0 ELSE e.bytes[p]
           /\ remove(e, gone).total = e.total - SumFunctionOnSet(e.bytes, gone)
<1>1. e.entries \in Entries /\ e.bytes \in [Pid -> Int] /\ e.total \in Int
  BY DEF Engine
<1>2. SumFunctionOnSet(e.bytes, gone) \in Int
  <2>1. IsFiniteSet(gone)
    BY FiniteSets, FS_Subset
  <2>2. \A p \in gone : e.bytes[p] \in Int
    BY <1>1
  <2> QED
    BY <2>1, <2>2, SumType
<1>3. [x \in Pid \X Key |-> IF x[1] \in gone THEN None ELSE e.entries[x]] \in Entries
  BY <1>1 DEF Entries
<1>4. [p \in Pid |-> IF p \in gone THEN 0 ELSE e.bytes[p]] \in [Pid -> Int]
  BY <1>1
<1>5. e.total - SumFunctionOnSet(e.bytes, gone) \in Int
  BY <1>1, <1>2
<1> QED
  BY <1>3, <1>4, <1>5 DEF remove, Engine

LEMMA RemoveSound ==
    ASSUME NEW e, Sound(e), NEW gone \in SUBSET Pid
    PROVE  Sound(remove(e, gone))
<1> DEFINE n == remove(e, gone)
<1>1. e \in Engine /\ Exact(e) /\ Within(e)
  BY DEF Sound
<1>2. n \in Engine
  BY <1>1, RemoveFields
<1>3. /\ \A x \in Pid \X Key : n.entries[x] = IF x[1] \in gone THEN None ELSE e.entries[x]
      /\ \A p \in Pid : n.bytes[p] = IF p \in gone THEN 0 ELSE e.bytes[p]
      /\ n.total = e.total - SumFunctionOnSet(e.bytes, gone)
  BY <1>1, RemoveFields
<1> HIDE DEF n
<1>4. ASSUME NEW p \in Pid
      PROVE  n.bytes[p] = SumFunctionOnSet(Costs(n, p), Key)
  <2>0. \A k \in Key : n.entries[<<p, k>>] = IF p \in gone THEN None ELSE e.entries[<<p, k>>]
    BY <1>3
  <2>1. \A k \in Key : /\ Costs(e, p)[k] \in Nat
                       /\ Costs(n, p)[k] = IF p \in gone THEN 0 ELSE Costs(e, p)[k]
    <3> SUFFICES ASSUME NEW k \in Key
                 PROVE  /\ Costs(e, p)[k] \in Nat
                        /\ Costs(n, p)[k] = IF p \in gone THEN 0 ELSE Costs(e, p)[k]
      OBVIOUS
    <3>1. Costs(e, p)[k] = Weight(e.entries[<<p, k>>]) /\ Costs(e, p)[k] \in Nat
      BY <1>1, CostType
    <3>2. Costs(n, p)[k] = Weight(n.entries[<<p, k>>])
      BY <1>2, CostType
    <3>3. Weight(None) = 0
      BY DEF Weight
    <3> QED
      BY <2>0, <3>1, <3>2, <3>3
  <2>2. CASE p \in gone
    <3>1. \A k \in Key : Costs(n, p)[k] = 0
      BY <2>1, <2>2
    <3>2. SumFunctionOnSet(Costs(n, p), Key) = 0
      BY <3>1, SumOfNothing, FiniteSets
    <3> QED
      BY <1>3, <2>2, <3>2
  <2>3. CASE p \notin gone
    <3>1. \A k \in Key : Costs(e, p)[k] \in Int /\ Costs(n, p)[k] = Costs(e, p)[k]
      BY <2>1, <2>3
    <3>2. SumFunctionOnSet(Costs(n, p), Key) = SumFunctionOnSet(Costs(e, p), Key)
      BY <3>1, SumSame, FiniteSets
    <3> QED
      BY <1>1, <1>3, <2>3, <3>2 DEF Exact
  <2> QED
    BY <2>2, <2>3
<1>5. n.total = SumFunctionOnSet(n.bytes, Pid)
  <2> DEFINE f == e.bytes
             h == n.bytes
  <2>1. \A p \in Pid : f[p] \in Int /\ h[p] = IF p \in gone THEN 0 ELSE f[p]
    BY <1>1, <1>3 DEF Engine
  <2>2. e.total = SumFunctionOnSet(f, Pid) /\ n.total = e.total - SumFunctionOnSet(f, gone)
    BY <1>1, <1>3 DEF Exact
  <2> HIDE DEF f, h
  <2>3. SumFunctionOnSet(h, Pid) = SumFunctionOnSet(f, Pid) - SumFunctionOnSet(f, gone)
    BY <2>1, SumWithout, FiniteSets
  <2> QED
    BY <2>2, <2>3 DEF h
<1>6. Exact(n)
  BY <1>4, <1>5 DEF Exact
<1>7. (\A p \in Pid : n.bytes[p] <= e.bytes[p]) /\ n.total <= e.total
  <2>1. \A x \in Pid \X Key : n.entries[x] \in {None, e.entries[x]}
    BY <1>3
  <2> QED
    BY <1>1, <1>2, <1>6, <2>1, FewerCount
<1>8. ASSUME NEW p \in Pid
      PROVE  /\ Cardinality(KeysOf(n, p)) <= MAX_ENTRIES_PER_PARTITION
             /\ n.bytes[p] <= PARTITION_QUOTA_BYTES
  <2>1. Cardinality(KeysOf(e, p)) <= MAX_ENTRIES_PER_PARTITION
    BY <1>1 DEF Within
  <2>2. KeysOf(n, p) \in SUBSET KeysOf(e, p)
    <3>1. \A j \in Key : n.entries[<<p, j>>] # None => e.entries[<<p, j>>] # None
      BY <1>3
    <3> QED
      BY <3>1 DEF KeysOf
  <2>3. /\ Cardinality(KeysOf(n, p)) <= Cardinality(KeysOf(e, p))
        /\ Cardinality(KeysOf(n, p)) \in Nat /\ Cardinality(KeysOf(e, p)) \in Nat
    BY <2>2, KeysFinite
  <2>4. MAX_ENTRIES_PER_PARTITION \in Nat /\ PARTITION_QUOTA_BYTES \in Nat
    BY StoreAssumption
  <2>5. /\ e.bytes[p] \in Int /\ e.bytes[p] <= PARTITION_QUOTA_BYTES
        /\ n.bytes[p] \in Int /\ n.bytes[p] <= e.bytes[p]
    BY <1>1, <1>2, <1>7 DEF Engine, Within
  <2> QED
    BY <2>1, <2>3, <2>4, <2>5
<1>9. \A x \in Pid \X Key : n.entries[x] # None => n.entries[x] <= MAX_VALUE_BYTES
  BY <1>1, <1>3 DEF Within
<1>10. n.total <= GLOBAL_QUOTA_BYTES
  <2>1. /\ e.total \in Int /\ e.total <= GLOBAL_QUOTA_BYTES
        /\ n.total \in Int /\ GLOBAL_QUOTA_BYTES \in Nat
    BY <1>1, <1>2, StoreAssumption DEF Engine, Within
  <2> QED
    BY <1>7, <2>1
<1> QED
  BY <1>2, <1>6, <1>8, <1>9, <1>10 DEF Sound, Within, n

(* Whatever steps as a run does is that run.                               *)
LEMMA Determined ==
    ASSUME NEW N \in Nat, NEW V, NEW b, NEW Step, NEW h, Runs(N, V, b, Step, h),
           NEW g, g[0] = b,
           \A n \in 1 .. N : g[n - 1] \in V => g[n] = Step[n][g[n - 1]]
    PROVE  \A n \in 0 .. N : g[n] = h[n]
<1> DEFINE T == {n \in 0 .. N : g[n] # h[n]}
<1>0. h \in [0 .. N -> V] /\ h[0] = b /\ \A n \in 1 .. N : h[n] = Step[n][h[n - 1]]
  BY DEF Runs
<1>1. ASSUME NEW n \in T
      PROVE  n - 1 \in T /\ n - 1 < n
  <2>1. n \in 1 .. N
    BY <1>0, <1>1
  <2>2. n - 1 \in 0 .. N /\ n - 1 < n /\ h[n - 1] \in V
    BY <1>0, <2>1
  <2>3. CASE g[n - 1] = h[n - 1]
    <3>1. g[n] = h[n]
      BY <1>0, <2>1, <2>2, <2>3
    <3> QED
      BY <1>1, <3>1
  <2> QED
    BY <2>2, <2>3
<1>2. T = {}
  <2>1. T \subseteq Nat
    OBVIOUS
  <2>2. \A n \in T : \E m \in T : m < n
    BY <1>1
  <2> HIDE DEF T
  <2> QED BY <2>1, <2>2, NoDescent
<1> QED
  BY <1>2

LEMMA Prefix ==
    ASSUME NEW A, NEW s \in Seq(A), NEW n \in 0 .. Len(s)
    PROVE  /\ SubSeq(s, 1, n) \in Seq(A)
           /\ Len(SubSeq(s, 1, n)) = n
           /\ \A i \in 1 .. n : SubSeq(s, 1, n)[i] = s[i]
<1>1. n \in Nat /\ 1 \in Int /\ \A i \in 1 .. n : s[i] \in A
  OBVIOUS
<1> DEFINE t == SubSeq(s, 1, n)
<1>2. /\ t \in Seq(A)
      /\ Len(t) = IF 1 <= n THEN n - 1 + 1 ELSE 0
      /\ \A i \in 1 .. n - 1 + 1 : t[i] = s[1 + i - 1]
  BY <1>1, SubSeqProperties
<1> HIDE DEF t
<1>3. t \in Seq(A) /\ Len(t) = n /\ \A i \in 1 .. n : t[i] = s[i]
  BY <1>1, <1>2
<1> QED
  BY <1>3 DEF t

(* A set of sequences that is closed under dropping the last element and   *)
(* without the empty one is empty.                                         *)
LEMMA NoShorter ==
    ASSUME NEW A, NEW B, B \subseteq Seq(A), << >> \notin B,
           \A s \in Seq(A), r \in A : Append(s, r) \in B => s \in B
    PROVE  B = {}
<1> DEFINE T == {Len(s) : s \in B}
<1>1. T \subseteq Nat
  OBVIOUS
<1>2. ASSUME NEW n \in T
      PROVE  \E m \in T : m < n
  <2>1. PICK s \in B : n = Len(s)
    BY <1>2
  <2> DEFINE t == SubSeq(s, 1, Len(s) - 1)
  <2>2. s \in Seq(A) /\ s # << >> /\ Len(s) \in Nat \ {0}
    OBVIOUS
  <2>3. t \in Seq(A) /\ Len(t) = Len(s) - 1 /\ s[Len(s)] \in A
    <3>1. Len(s) - 1 \in 0 .. Len(s) /\ s[Len(s)] \in A
      BY <2>2
    <3> DEFINE m == Len(s) - 1
    <3>2. s \in Seq(A) /\ m \in 0 .. Len(s)
      BY <2>2, <3>1
    <3> HIDE DEF m
    <3>3. SubSeq(s, 1, m) \in Seq(A) /\ Len(SubSeq(s, 1, m)) = m
      BY <3>2, Prefix
    <3> QED
      BY <3>1, <3>3 DEF m
  <2>4. s = Append(t, s[Len(s)])
    BY <2>2, <2>3
  <2>5. t \in B
    BY <2>3, <2>4
  <2>6. Len(t) \in T
    BY <2>5
  <2> QED
    BY <2>1, <2>2, <2>3, <2>6
<1>3. T = {}
  <2> HIDE DEF T
  <2> QED BY <1>1, <1>2, NoDescent
<1>4. SUFFICES ASSUME NEW s \in B PROVE FALSE
  OBVIOUS
<1>5. Len(s) \in T
  BY <1>4
<1> QED
  BY <1>3, <1>5

-----------------------------------------------------------------------------
(* Recovery, one record at a time.                                         *)

Reading == [engine : Engine, valid : Nat]

NothingRead == [engine |-> EmptyEngine, valid |-> 0]

Read(before, n, r) ==
    IF before.valid = n - 1 /\ Accepts(before.engine, r)
    THEN [engine |-> apply_logged(before.engine, r), valid |-> n]
    ELSE before

IsReads(s, g) ==
    g = [n \in 0 .. Len(s) |-> IF n = 0 THEN NothingRead ELSE Read(g[n - 1], n, s[n])]

Reads(s) == CHOOSE g : IsReads(s, g)

LEMMA RecoverReads ==
    ASSUME NEW s
    PROVE  recover(s) = Reads(s)[Len(s)]
BY DEF recover, Reads, IsReads, Read, NothingRead

LEMMA RecordFields ==
    ASSUME NEW r \in Record
    PROVE  /\ r.kind \in {"Put", "Delete", "Torn"} /\ r.pid \in Pid /\ r.key \in Key
           /\ r.value \in Value \cup {0} /\ r.value \in Nat
           /\ r.kind = "Put" => r.value \in Value
           /\ r = [kind |-> r.kind, pid |-> r.pid, key |-> r.key, value |-> r.value]
<1>1. r \in [kind : {"Put", "Delete", "Torn"}, pid : Pid, key : Key, value : Value \cup {0}]
  BY DEF Record
<1>2. r.kind = "Put" => r.value \in Value
  BY DEF Record
<1>3. \A v \in Value : v \in Nat
  BY StoreAssumption
<1>4. r.kind \in {"Put", "Delete", "Torn"} /\ r.pid \in Pid /\ r.key \in Key /\ r.value \in Value \cup {0}
  BY <1>1
<1>5. r = [kind |-> r.kind, pid |-> r.pid, key |-> r.key, value |-> r.value]
  BY <1>1
<1>6. r.value \in Nat
  BY <1>3, <1>4
<1> QED
  BY <1>2, <1>4, <1>5, <1>6

LEMMA AppliedType ==
    ASSUME NEW e \in Engine, NEW r \in Record, r.kind # "Torn"
    PROVE  apply_logged(e, r) \in Engine
<1>1. /\ r.kind \in {"Put", "Delete"} /\ r.pid \in Pid /\ r.key \in Key
      /\ r.kind = "Put" => r.value \in Value
  BY RecordFields
<1>2. CASE r.kind = "Put"
  <2>1. put(e, r.pid, r.key, r.value) = Changed(e, r.pid, r.key, r.value)
    BY <1>1, <1>2, PutChanges
  <2>2. Changed(e, r.pid, r.key, r.value) \in Engine
    BY <1>1, <1>2, ChangedFields
  <2> QED
    BY <1>2, <2>1, <2>2 DEF apply_logged
<1>3. CASE r.kind = "Delete"
  <2>1. delete(e, r.pid, r.key) = Changed(e, r.pid, r.key, None)
    BY <1>1, DeleteChanges
  <2>2. Changed(e, r.pid, r.key, None) \in Engine
    BY <1>1, ChangedFields
  <2> QED
    BY <1>3, <2>1, <2>2 DEF apply_logged
<1> QED
  BY <1>1, <1>2, <1>3

LEMMA ReadType ==
    ASSUME NEW before \in Reading, NEW n \in Nat, NEW r \in Record
    PROVE  Read(before, n, r) \in Reading
<1>1. before.engine \in Engine
  BY DEF Reading
<1>2. CASE before.valid = n - 1 /\ Accepts(before.engine, r)
  <2>1. apply_logged(before.engine, r) \in Engine
    BY <1>1, <1>2, AppliedType DEF Accepts
  <2> QED
    BY <1>2, <2>1 DEF Read, Reading
<1>3. CASE ~ (before.valid = n - 1 /\ Accepts(before.engine, r))
  BY <1>3 DEF Read
<1> QED
  BY <1>2, <1>3

StepsOf(s) == [n \in 1 .. Len(s) |-> [before \in Reading |-> Read(before, n, s[n])]]

LEMMA StepsType ==
    ASSUME NEW s \in Seq(Record)
    PROVE  /\ StepsOf(s) \in [1 .. Len(s) -> [Reading -> Reading]]
           /\ NothingRead \in Reading
           /\ Len(s) \in Nat
           /\ \A n \in 1 .. Len(s), before \in Reading : StepsOf(s)[n][before] = Read(before, n, s[n])
<1>1. ASSUME NEW n \in 1 .. Len(s), NEW before \in Reading
      PROVE  Read(before, n, s[n]) \in Reading
  <2>1. n \in Nat /\ s[n] \in Record
    OBVIOUS
  <2> QED
    BY <2>1, ReadType
<1>2. NothingRead \in Reading
  BY EmptySound DEF Sound, NothingRead, Reading
<1> QED
  BY <1>1, <1>2 DEF StepsOf

LEMMA ReadsRun ==
    ASSUME NEW s \in Seq(Record)
    PROVE  Runs(Len(s), Reading, NothingRead, StepsOf(s), Reads(s))
<1> DEFINE N == Len(s)
           Step == StepsOf(s)
<1>1. /\ Step \in [1 .. N -> [Reading -> Reading]] /\ NothingRead \in Reading /\ N \in Nat
      /\ \A n \in 1 .. N, before \in Reading : Step[n][before] = Read(before, n, s[n])
  BY StepsType
<1> HIDE DEF N, Step
<1>2. PICK h : Runs(N, Reading, NothingRead, Step, h)
  BY <1>1, RunExists
<1>3. h \in [0 .. N -> Reading] /\ h[0] = NothingRead /\ \A n \in 1 .. N : h[n] = Step[n][h[n - 1]]
  BY <1>2 DEF Runs
<1>4. IsReads(s, h)
  <2>1. ASSUME NEW n \in 0 .. N
        PROVE  h[n] = IF n = 0 THEN NothingRead ELSE Read(h[n - 1], n, s[n])
    <3>1. CASE n = 0
      BY <1>3, <3>1
    <3>2. CASE n # 0
      <4>1. n \in 1 .. N /\ n - 1 \in 0 .. N
        BY <1>1, <3>2
      <4>2. h[n - 1] \in Reading
        BY <1>3, <4>1
      <4> QED
        BY <1>1, <1>3, <3>2, <4>1, <4>2
    <3> QED
      BY <3>1, <3>2
  <2>2. h = [n \in 0 .. N |-> h[n]]
    BY <1>3
  <2>3. h = [n \in 0 .. N |-> IF n = 0 THEN NothingRead ELSE Read(h[n - 1], n, s[n])]
    BY <2>1, <2>2
  <2> QED
    BY <2>3 DEF IsReads, N
<1> DEFINE g == Reads(s)
<1>5. IsReads(s, g)
  BY <1>4 DEF Reads
<1>6. /\ g = [n \in 0 .. N |-> IF n = 0 THEN NothingRead ELSE Read(g[n - 1], n, s[n])]
  BY <1>5 DEF IsReads, N
<1> HIDE DEF g
<1>7. g[0] = NothingRead /\ \A n \in 1 .. N : g[n - 1] \in Reading => g[n] = Step[n][g[n - 1]]
  <2>1. 0 \in 0 .. N /\ \A n \in 1 .. N : n \in 0 .. N /\ n # 0
    BY <1>1
  <2> QED
    BY <1>1, <1>6, <2>1
<1>8. \A n \in 0 .. N : g[n] = h[n]
  BY <1>1, <1>2, <1>7, Determined
<1>9. g = h
  <2>1. h = [n \in 0 .. N |-> h[n]] /\ g = [n \in 0 .. N |-> g[n]]
    BY <1>3, <1>6
  <2> QED
    BY <1>8, <2>1
<1> QED
  BY <1>2, <1>9 DEF g, N, Step

LEMMA RecoverEmpty == recover(<< >>) = NothingRead
<1>1. << >> \in Seq(Record) /\ Len(<< >>) = 0
  OBVIOUS
<1>2. Runs(Len(<< >>), Reading, NothingRead, StepsOf(<< >>), Reads(<< >>))
  BY <1>1, ReadsRun
<1>3. Reads(<< >>)[0] = NothingRead
  BY <1>2 DEF Runs
<1> QED
  BY <1>1, <1>3, RecoverReads

LEMMA RecoverAppend ==
    ASSUME NEW s \in Seq(Record), NEW r \in Record
    PROVE  /\ recover(s) \in Reading
           /\ recover(Append(s, r)) = Read(recover(s), Len(s) + 1, r)
<1> DEFINE t == Append(s, r)
           N == Len(s)
           g == Reads(s)
           h == Reads(t)
<1>1. t \in Seq(Record) /\ Len(t) = N + 1 /\ t[N + 1] = r /\ N \in Nat /\ \A n \in 1 .. N : t[n] = s[n]
  OBVIOUS
<1>2. Runs(N, Reading, NothingRead, StepsOf(s), g)
  BY ReadsRun
<1>3. Runs(N + 1, Reading, NothingRead, StepsOf(t), h)
  <2>1. Runs(Len(t), Reading, NothingRead, StepsOf(t), h)
    BY <1>1, ReadsRun
  <2> QED
    BY <1>1, <2>1
<1>4. recover(s) = g[N] /\ recover(t) = h[N + 1]
  BY <1>1, RecoverReads
<1>5. \A n \in 1 .. N, before \in Reading : StepsOf(s)[n][before] = Read(before, n, s[n])
  BY StepsType
<1>6. \A n \in 1 .. Len(t), before \in Reading : StepsOf(t)[n][before] = Read(before, n, t[n])
  BY <1>1, StepsType
<1> HIDE DEF t, N, g, h
<1>7. \A n \in 1 .. N : n \in 1 .. Len(t)
  BY <1>1
<1>8. g \in [0 .. N -> Reading] /\ h \in [0 .. N + 1 -> Reading] /\ h[0] = NothingRead
  BY <1>2, <1>3 DEF Runs
<1>9. \A n \in 1 .. N + 1 : h[n] = StepsOf(t)[n][h[n - 1]]
  BY <1>3 DEF Runs
<1>10. \A n \in 1 .. N : h[n - 1] \in Reading => h[n] = StepsOf(s)[n][h[n - 1]]
  <2>1. SUFFICES ASSUME NEW n \in 1 .. N, h[n - 1] \in Reading
                 PROVE  h[n] = StepsOf(s)[n][h[n - 1]]
    OBVIOUS
  <2>2. n \in 1 .. N + 1 /\ n \in 1 .. Len(t) /\ t[n] = s[n]
    BY <1>1, <1>7
  <2>3. h[n] = StepsOf(t)[n][h[n - 1]]
    BY <1>9, <2>2
  <2> QED
    BY <1>5, <1>6, <2>1, <2>2, <2>3
<1>11. \A n \in 0 .. N : h[n] = g[n]
  <2> DEFINE Step == StepsOf(s)
  <2>1. /\ N \in Nat /\ Runs(N, Reading, NothingRead, Step, g) /\ h[0] = NothingRead
        /\ \A n \in 1 .. N : h[n - 1] \in Reading => h[n] = Step[n][h[n - 1]]
    BY <1>1, <1>2, <1>8, <1>10
  <2> HIDE DEF Step
  <2> QED
    BY <2>1, Determined
<1>12. h[N] = g[N] /\ g[N] \in Reading
  BY <1>1, <1>8, <1>11
<1>13. h[N + 1] = Read(h[N], N + 1, r)
  <2>1. N + 1 \in 1 .. N + 1 /\ N + 1 \in 1 .. Len(t) /\ N + 1 - 1 = N
    BY <1>1
  <2>2. h[N + 1] = StepsOf(t)[N + 1][h[N]]
    <3> DEFINE M == N + 1
    <3>1. M \in 1 .. M /\ M - 1 = N /\ \A n \in 1 .. M : h[n] = StepsOf(t)[n][h[n - 1]]
      BY <1>1, <1>9
    <3> HIDE DEF M
    <3>2. h[M] = StepsOf(t)[M][h[M - 1]]
      BY <3>1
    <3>3. h[M] = StepsOf(t)[M][h[N]]
      BY <3>1, <3>2
    <3> QED
      BY <3>3 DEF M
  <2> QED
    BY <1>1, <1>6, <1>12, <2>1, <2>2
<1> QED
  BY <1>4, <1>12, <1>13 DEF t, N

LEMMA AppliedSound ==
    ASSUME NEW e, Sound(e), NEW r \in Record, Accepts(e, r)
    PROVE  Sound(apply_logged(e, r))
<1>1. /\ r.kind \in {"Put", "Delete"} /\ r.pid \in Pid /\ r.key \in Key
      /\ r.kind = "Put" => r.value \in Value /\ check_put(e, r.pid, r.key, r.value)
  BY RecordFields DEF Accepts
<1>2. CASE r.kind = "Put"
  <2>1. Sound(put(e, r.pid, r.key, r.value))
    BY <1>1, <1>2, PutSound
  <2> QED
    BY <1>2, <2>1 DEF apply_logged
<1>3. CASE r.kind = "Delete"
  <2>1. Sound(delete(e, r.pid, r.key))
    BY <1>1, DeleteSound
  <2> QED
    BY <1>3, <2>1 DEF apply_logged
<1> QED
  BY <1>1, <1>2, <1>3

LEMMA ReadTakesOrLeaves ==
    ASSUME NEW before, NEW m \in Nat, NEW r
    PROVE  /\ before.valid = m /\ Accepts(before.engine, r) =>
                 Read(before, m + 1, r) = [engine |-> apply_logged(before.engine, r), valid |-> m + 1]
           /\ ~ (before.valid = m /\ Accepts(before.engine, r)) => Read(before, m + 1, r) = before
<1>1. m + 1 - 1 = m
  OBVIOUS
<1>2. Read(before, m + 1, r) = IF before.valid = m /\ Accepts(before.engine, r)
                               THEN [engine |-> apply_logged(before.engine, r), valid |-> m + 1]
                               ELSE before
  BY <1>1 DEF Read
<1> QED
  BY <1>2

(* This log is read to its end and gives this engine.                      *)
Holds(s, e) == s \in Seq(Record) /\ recover(s) = [engine |-> e, valid |-> Len(s)]

LEMMA HoldsEmpty == Holds(<< >>, EmptyEngine)
BY RecoverEmpty DEF Holds, NothingRead

LEMMA HoldsAppend ==
    ASSUME NEW s, NEW e, Holds(s, e), NEW r \in Record, Accepts(e, r)
    PROVE  Holds(Append(s, r), apply_logged(e, r))
<1>1. s \in Seq(Record) /\ recover(s).valid = Len(s) /\ recover(s).engine = e /\ Len(s) \in Nat
  BY DEF Holds
<1>2. recover(Append(s, r)) = Read(recover(s), Len(s) + 1, r)
  BY <1>1, RecoverAppend
<1>3. Append(s, r) \in Seq(Record) /\ Len(Append(s, r)) = Len(s) + 1 /\ Len(s) + 1 - 1 = Len(s)
  BY <1>1
<1>4. recover(Append(s, r)) = [engine |-> apply_logged(e, r), valid |-> Len(s) + 1]
  BY <1>1, <1>2, ReadTakesOrLeaves
<1> QED
  BY <1>3, <1>4 DEF Holds

LEMMA TornIsLeft ==
    ASSUME NEW s, NEW e, Holds(s, e), NEW r \in Record, r.kind = "Torn"
    PROVE  recover(Append(s, r)) = [engine |-> e, valid |-> Len(s)]
<1>1. s \in Seq(Record) /\ recover(s) = [engine |-> e, valid |-> Len(s)]
  BY DEF Holds
<1>2. recover(Append(s, r)) = Read(recover(s), Len(s) + 1, r)
  BY <1>1, RecoverAppend
<1> QED
  BY <1>1, <1>2 DEF Read, Accepts

RecoversWell(s) ==
    /\ Sound(recover(s).engine)
    /\ recover(s).valid \in 0 .. Len(s)
    /\ Holds(SubSeq(s, 1, recover(s).valid), recover(s).engine)

LEMMA RecoverSound ==
    ASSUME NEW s \in Seq(Record)
    PROVE  RecoversWell(s)
<1> DEFINE B == {t \in Seq(Record) : ~ RecoversWell(t)}
<1>1. RecoversWell(<< >>)
  <2>1. recover(<< >>).engine = EmptyEngine /\ recover(<< >>).valid = 0 /\ Len(<< >>) = 0
    BY RecoverEmpty DEF NothingRead
  <2>2. SubSeq(<< >>, 1, 0) = << >>
    BY SubSeqEmpty
  <2>3. 0 \in 0 .. 0
    OBVIOUS
  <2> QED
    BY <2>1, <2>2, <2>3, EmptySound, HoldsEmpty DEF RecoversWell
<1>2. ASSUME NEW t \in Seq(Record), NEW r \in Record, RecoversWell(t)
      PROVE  RecoversWell(Append(t, r))
  <2> DEFINE u == Append(t, r)
             v == recover(t).valid
             e == recover(t).engine
  <2>1. u \in Seq(Record) /\ Len(u) = Len(t) + 1 /\ Len(t) \in Nat
    OBVIOUS
  <2>2. /\ recover(t) \in Reading
        /\ recover(u) = Read(recover(t), Len(t) + 1, r)
    BY RecoverAppend
  <2>3. Sound(e) /\ v \in 0 .. Len(t) /\ Holds(SubSeq(t, 1, v), e)
    BY <1>2 DEF RecoversWell
  <2>4. CASE v = Len(t) /\ Accepts(e, r)
    <3> DEFINE n == apply_logged(e, r)
    <3>1. recover(u) = [engine |-> n, valid |-> Len(t) + 1]
      BY <2>1, <2>2, <2>4, ReadTakesOrLeaves
    <3>2. Sound(n)
      BY <2>3, <2>4, AppliedSound
    <3> HIDE DEF n
    <3>3. recover(u).engine = n /\ recover(u).valid = Len(u)
      BY <2>1, <3>1
    <3>4. recover(u) = [engine |-> n, valid |-> Len(u)]
      BY <2>1, <3>1
    <3>5. SubSeq(u, 1, Len(u)) = u
      BY <2>1, SubSeqFull
    <3>6. Holds(u, n)
      BY <2>1, <3>4 DEF Holds
    <3>7. Len(u) \in 0 .. Len(u)
      BY <2>1
    <3> HIDE DEF u
    <3> QED
      BY <3>2, <3>3, <3>5, <3>6, <3>7 DEF RecoversWell, u
  <2>5. CASE ~ (v = Len(t) /\ Accepts(e, r))
    <3>1. recover(u) = recover(t)
      BY <2>1, <2>2, <2>5, ReadTakesOrLeaves
    <3>2. SubSeq(u, 1, v) = SubSeq(t, 1, v)
      <4> HIDE DEF v, u
      <4>1. v \in 0 .. Len(t) /\ v \in 0 .. Len(u) /\ \A i \in 1 .. v : u[i] = t[i]
        BY <2>1, <2>3 DEF u
      <4>2. /\ SubSeq(t, 1, v) \in Seq(Record) /\ Len(SubSeq(t, 1, v)) = v
            /\ \A i \in 1 .. v : SubSeq(t, 1, v)[i] = t[i]
        BY <1>2, <4>1, Prefix
      <4>3. /\ SubSeq(u, 1, v) \in Seq(Record) /\ Len(SubSeq(u, 1, v)) = v
            /\ \A i \in 1 .. v : SubSeq(u, 1, v)[i] = u[i]
        BY <2>1, <4>1, Prefix
      <4> DEFINE a == SubSeq(u, 1, v)
                 b == SubSeq(t, 1, v)
      <4>4. /\ a \in Seq(Record) /\ b \in Seq(Record) /\ Len(a) = Len(b)
            /\ \A i \in 1 .. Len(a) : a[i] = b[i]
        BY <4>1, <4>2, <4>3
      <4> HIDE DEF a, b
      <4>5. a = b
        BY <4>4, SeqEqual
      <4> QED
        BY <4>5 DEF a, b
    <3>3. v \in 0 .. Len(u)
      BY <2>1, <2>3
    <3> HIDE DEF u
    <3> QED
      BY <2>3, <3>1, <3>2, <3>3 DEF RecoversWell, u
  <2> QED
    BY <2>4, <2>5
<1>3. B \subseteq Seq(Record) /\ << >> \notin B
  BY <1>1
<1>4. \A t \in Seq(Record), r \in Record : Append(t, r) \in B => t \in B
  BY <1>2
<1>5. B = {}
  <2> HIDE DEF B
  <2> QED BY <1>3, <1>4, NoShorter
<1> QED
  BY <1>5

-----------------------------------------------------------------------------
(* The size of a log, one record at a time.                                *)

IsSizes(s, g) ==
    g = [n \in 0 .. Len(s) |-> IF n = 0 THEN HEADER_LEN ELSE g[n - 1] + RecordSize(s[n])]

Sizes(s) == CHOOSE g : IsSizes(s, g)

GrowthOf(s) == [n \in 1 .. Len(s) |-> [size \in Nat |-> size + RecordSize(s[n])]]

LEMMA LogSizes ==
    ASSUME NEW s
    PROVE  LogSize(s) = Sizes(s)[Len(s)]
BY DEF LogSize, Sizes, IsSizes

LEMMA RecordTakesRoom ==
    ASSUME NEW r \in Record
    PROVE  RecordSize(r) \in Nat \ {0}
<1>1. r.value \in Nat
  BY RecordFields
<1>2. FRAME_LEN \in Nat /\ PID_BYTES \in Nat /\ FRAME_LEN + PID_BYTES > 0
  BY StoreAssumption
<1> QED
  BY <1>1, <1>2 DEF RecordSize

LEMMA GrowthType ==
    ASSUME NEW s \in Seq(Record)
    PROVE  /\ GrowthOf(s) \in [1 .. Len(s) -> [Nat -> Nat]]
           /\ HEADER_LEN \in Nat
           /\ Len(s) \in Nat
           /\ \A n \in 1 .. Len(s), size \in Nat : GrowthOf(s)[n][size] = size + RecordSize(s[n])
<1>1. \A n \in 1 .. Len(s), size \in Nat : size + RecordSize(s[n]) \in Nat
  <2> SUFFICES ASSUME NEW n \in 1 .. Len(s), NEW size \in Nat
               PROVE  size + RecordSize(s[n]) \in Nat
    OBVIOUS
  <2>1. s[n] \in Record
    OBVIOUS
  <2>2. RecordSize(s[n]) \in Nat
    BY <2>1, RecordTakesRoom
  <2> QED
    BY <2>2
<1>2. HEADER_LEN \in Nat
  BY StoreAssumption
<1> QED
  BY <1>1, <1>2 DEF GrowthOf

LEMMA SizesRun ==
    ASSUME NEW s \in Seq(Record)
    PROVE  Runs(Len(s), Nat, HEADER_LEN, GrowthOf(s), Sizes(s))
<1> DEFINE N == Len(s)
           Step == GrowthOf(s)
<1>1. /\ Step \in [1 .. N -> [Nat -> Nat]] /\ HEADER_LEN \in Nat /\ N \in Nat
      /\ \A n \in 1 .. N, size \in Nat : Step[n][size] = size + RecordSize(s[n])
  BY GrowthType
<1> HIDE DEF N, Step
<1>2. PICK h : Runs(N, Nat, HEADER_LEN, Step, h)
  BY <1>1, RunExists
<1>3. h \in [0 .. N -> Nat] /\ h[0] = HEADER_LEN /\ \A n \in 1 .. N : h[n] = Step[n][h[n - 1]]
  BY <1>2 DEF Runs
<1>4. IsSizes(s, h)
  <2>1. ASSUME NEW n \in 0 .. N
        PROVE  h[n] = IF n = 0 THEN HEADER_LEN ELSE h[n - 1] + RecordSize(s[n])
    <3>1. CASE n = 0
      BY <1>3, <3>1
    <3>2. CASE n # 0
      <4>1. n \in 1 .. N /\ n - 1 \in 0 .. N
        BY <1>1, <3>2
      <4>2. h[n - 1] \in Nat
        BY <1>3, <4>1
      <4> QED
        BY <1>1, <1>3, <3>2, <4>1, <4>2
    <3> QED
      BY <3>1, <3>2
  <2>2. h = [n \in 0 .. N |-> h[n]]
    BY <1>3
  <2>3. h = [n \in 0 .. N |-> IF n = 0 THEN HEADER_LEN ELSE h[n - 1] + RecordSize(s[n])]
    BY <2>1, <2>2
  <2> QED
    BY <2>3 DEF IsSizes, N
<1> DEFINE g == Sizes(s)
<1>5. IsSizes(s, g)
  BY <1>4 DEF Sizes
<1>6. g = [n \in 0 .. N |-> IF n = 0 THEN HEADER_LEN ELSE g[n - 1] + RecordSize(s[n])]
  BY <1>5 DEF IsSizes, N
<1> HIDE DEF g
<1>7. g[0] = HEADER_LEN /\ \A n \in 1 .. N : g[n - 1] \in Nat => g[n] = Step[n][g[n - 1]]
  <2>1. 0 \in 0 .. N /\ \A n \in 1 .. N : n \in 0 .. N /\ n # 0
    BY <1>1
  <2> QED
    BY <1>1, <1>6, <2>1
<1>8. \A n \in 0 .. N : g[n] = h[n]
  <2> DEFINE V == Nat
             b == HEADER_LEN
  <2>1. /\ N \in Nat /\ Runs(N, V, b, Step, h) /\ g[0] = b
        /\ \A n \in 1 .. N : g[n - 1] \in V => g[n] = Step[n][g[n - 1]]
    BY <1>1, <1>2, <1>7
  <2> HIDE DEF V, b
  <2> QED
    BY <2>1, Determined
<1>9. g = h
  <2>1. h = [n \in 0 .. N |-> h[n]] /\ g = [n \in 0 .. N |-> g[n]]
    BY <1>3, <1>6
  <2> QED
    BY <1>8, <2>1
<1> QED
  BY <1>2, <1>9 DEF g, N, Step

LEMMA LogSizeType ==
    ASSUME NEW s \in Seq(Record)
    PROVE  LogSize(s) \in Nat
<1>1. Runs(Len(s), Nat, HEADER_LEN, GrowthOf(s), Sizes(s)) /\ Len(s) \in 0 .. Len(s)
  BY SizesRun
<1>2. Sizes(s)[Len(s)] \in Nat
  BY <1>1 DEF Runs
<1> QED
  BY <1>2, LogSizes

LEMMA LogSizeAppend ==
    ASSUME NEW s \in Seq(Record), NEW r \in Record
    PROVE  LogSize(Append(s, r)) = LogSize(s) + RecordSize(r)
<1> DEFINE t == Append(s, r)
           N == Len(s)
           g == Sizes(s)
           h == Sizes(t)
<1>1. t \in Seq(Record) /\ Len(t) = N + 1 /\ t[N + 1] = r /\ N \in Nat /\ \A n \in 1 .. N : t[n] = s[n]
  OBVIOUS
<1>2. Runs(N, Nat, HEADER_LEN, GrowthOf(s), g)
  BY SizesRun
<1>3. Runs(N + 1, Nat, HEADER_LEN, GrowthOf(t), h)
  <2>1. Runs(Len(t), Nat, HEADER_LEN, GrowthOf(t), h)
    BY <1>1, SizesRun
  <2> QED
    BY <1>1, <2>1
<1>4. LogSize(s) = g[N] /\ LogSize(t) = h[N + 1]
  BY <1>1, LogSizes
<1>5. \A n \in 1 .. N, size \in Nat : GrowthOf(s)[n][size] = size + RecordSize(s[n])
  BY GrowthType
<1>6. \A n \in 1 .. Len(t), size \in Nat : GrowthOf(t)[n][size] = size + RecordSize(t[n])
  BY <1>1, GrowthType
<1> HIDE DEF t, N, g, h
<1>7. \A n \in 1 .. N : n \in 1 .. Len(t)
  BY <1>1
<1>8. g \in [0 .. N -> Nat] /\ h \in [0 .. N + 1 -> Nat] /\ h[0] = HEADER_LEN
  BY <1>2, <1>3 DEF Runs
<1>9. \A n \in 1 .. N + 1 : h[n] = GrowthOf(t)[n][h[n - 1]]
  BY <1>3 DEF Runs
<1>10. \A n \in 1 .. N : h[n - 1] \in Nat => h[n] = GrowthOf(s)[n][h[n - 1]]
  <2>1. SUFFICES ASSUME NEW n \in 1 .. N, h[n - 1] \in Nat
                 PROVE  h[n] = GrowthOf(s)[n][h[n - 1]]
    OBVIOUS
  <2>2. n \in 1 .. N + 1 /\ n \in 1 .. Len(t) /\ t[n] = s[n]
    BY <1>1, <1>7
  <2>3. h[n] = GrowthOf(t)[n][h[n - 1]]
    BY <1>9, <2>2
  <2> QED
    BY <1>5, <1>6, <2>1, <2>2, <2>3
<1>11. \A n \in 0 .. N : h[n] = g[n]
  <2> DEFINE V == Nat
             b == HEADER_LEN
             Step == GrowthOf(s)
  <2>1. /\ N \in Nat /\ Runs(N, V, b, Step, g) /\ h[0] = b
        /\ \A n \in 1 .. N : h[n - 1] \in V => h[n] = Step[n][h[n - 1]]
    BY <1>1, <1>2, <1>8, <1>10
  <2> HIDE DEF V, b, Step
  <2> QED
    BY <2>1, Determined
<1>12. h[N] = g[N] /\ g[N] \in Nat
  BY <1>1, <1>8, <1>11
<1>13. h[N + 1] = h[N] + RecordSize(r)
  <2>1. N + 1 \in 1 .. N + 1 /\ N + 1 \in 1 .. Len(t) /\ N + 1 - 1 = N
    BY <1>1
  <2>2. h[N + 1] = GrowthOf(t)[N + 1][h[N]]
    <3> DEFINE M == N + 1
    <3>1. M \in 1 .. M /\ M - 1 = N /\ \A n \in 1 .. M : h[n] = GrowthOf(t)[n][h[n - 1]]
      BY <1>1, <1>9
    <3> HIDE DEF M
    <3>2. h[M] = GrowthOf(t)[M][h[M - 1]]
      BY <3>1
    <3>3. h[M] = GrowthOf(t)[M][h[N]]
      BY <3>1, <3>2
    <3> QED
      BY <3>3 DEF M
  <2> QED
    BY <1>1, <1>6, <1>12, <2>1, <2>2
<1> QED
  BY <1>4, <1>12, <1>13 DEF t, N

-----------------------------------------------------------------------------
(* What a log that was cut back to log_len holds.                          *)

LEMMA MaxIs ==
    ASSUME NEW S, S \subseteq Int, NEW m \in S, \A k \in S : k <= m
    PROVE  Max(S) = m
<1>1. \A y \in S : m >= y
  OBVIOUS
<1>2. \A x \in S : (\A y \in S : x >= y) => x = m
  OBVIOUS
<1> QED
  BY <1>1, <1>2 DEF Max

LEMMA MaxExists ==
    ASSUME NEW n \in Nat, NEW S, S \subseteq 0 .. n, S # {}
    PROVE  Max(S) \in S
<1> DEFINE T == {n - k : k \in S}
<1>1. SUFFICES ASSUME \A x \in S : \E y \in S : ~ (x >= y) PROVE FALSE
  <2>1. SUFFICES \E x \in S : \A y \in S : x >= y
    BY <2>1 DEF Max
  <2> QED
    BY <1>1
<1>2. T \subseteq Nat
  OBVIOUS
<1>3. ASSUME NEW i \in T
      PROVE  \E j \in T : j < i
  <2>1. PICK x \in S : i = n - x
    BY <1>3
  <2>2. PICK y \in S : ~ (x >= y)
    BY <1>1
  <2>3. n - y \in T /\ n - y < i
    BY <2>1, <2>2
  <2> QED
    BY <2>3
<1>4. T = {}
  <2> HIDE DEF T
  <2> QED BY <1>2, <1>3, NoDescent
<1> QED
  BY <1>4

LEMMA TornRecord ==
    ASSUME NEW r \in Record
    PROVE  /\ Torn(r) \in Record /\ Torn(r).kind = "Torn"
           /\ Torn(r).pid = r.pid /\ Torn(r).key = r.key
<1>1. r \in [kind : {"Put", "Delete", "Torn"}, pid : Pid, key : Key, value : Value \cup {0}]
  BY DEF Record
<1>2. /\ Torn(r) \in [kind : {"Put", "Delete", "Torn"}, pid : Pid, key : Key, value : Value \cup {0}]
      /\ Torn(r).kind = "Torn" /\ Torn(r).pid = r.pid /\ Torn(r).key = r.key
  BY <1>1 DEF Torn
<1> QED
  BY <1>2 DEF Record

LEMMA PrefixOfAppend ==
    ASSUME NEW A, NEW s \in Seq(A), NEW q \in A
    PROVE  SubSeq(Append(s, q), 1, Len(s)) = s
<1> DEFINE t == Append(s, q)
           N == Len(s)
           u == SubSeq(t, 1, N)
<1>1. t \in Seq(A) /\ N \in 0 .. Len(t) /\ N \in Nat /\ \A i \in 1 .. N : t[i] = s[i]
  OBVIOUS
<1> HIDE DEF t
<1>2. u \in Seq(A) /\ Len(u) = N /\ \A i \in 1 .. N : u[i] = t[i]
  <2> HIDE DEF N
  <2> QED BY <1>1, Prefix
<1> HIDE DEF u
<1>3. Len(u) = Len(s) /\ \A i \in 1 .. Len(u) : u[i] = s[i]
  BY <1>1, <1>2
<1>4. u = s
  BY <1>2, <1>3, SeqEqual
<1> QED
  BY <1>4 DEF u, t, N

FirstBytes(s, size) ==
    SubSeq(s, 1, Max({n \in 0 .. Len(s) : LogSize(SubSeq(s, 1, n)) <= size}))

LEMMA FirstBytesAreVouched ==
    ASSUME NEW w \in Seq(Record), NEW r \in Record, NEW s \in Unsynced(w, r)
    PROVE  FirstBytes(s, LogSize(w)) = w
<1> DEFINE N == Len(w)
           S == {n \in 0 .. Len(s) : LogSize(SubSeq(s, 1, n)) <= LogSize(w)}
<1>1. s = w \/ \E q \in Record : s = Append(w, q)
  BY TornRecord DEF Unsynced
<1>2. LogSize(w) \in Nat /\ N \in Nat
  BY LogSizeType
<1>3. SubSeq(s, 1, N) = w /\ N \in 0 .. Len(s)
  <2>1. CASE s = w
    BY <2>1, SubSeqFull
  <2>2. ASSUME NEW q \in Record, s = Append(w, q)
        PROVE  SubSeq(s, 1, N) = w /\ N \in 0 .. Len(s)
    <3>1. Len(s) = N + 1
      BY <2>2
    <3> QED
      BY <1>2, <2>2, <3>1, PrefixOfAppend
  <2> QED
    BY <1>1, <2>1, <2>2
<1>4. N \in S
  <2> HIDE DEF N
  <2>1. LogSize(SubSeq(s, 1, N)) = LogSize(w)
    BY <1>3
  <2>2. LogSize(w) <= LogSize(w)
    BY <1>2
  <2>3. LogSize(SubSeq(s, 1, N)) <= LogSize(w)
    BY <2>1, <2>2
  <2> QED
    BY <1>3, <2>3
<1>5. ASSUME NEW n \in S
      PROVE  n <= N
  <2>1. CASE s = w
    BY <2>1
  <2>2. ASSUME NEW q \in Record, s = Append(w, q)
        PROVE  n <= N
    <3>1. Len(s) = N + 1 /\ s \in Seq(Record)
      BY <2>2
    <3>2. SubSeq(s, 1, Len(s)) = s
      BY <3>1, SubSeqFull
    <3>3. LogSize(s) = LogSize(w) + RecordSize(q)
      BY <2>2, LogSizeAppend
    <3>4. RecordSize(q) \in Nat \ {0}
      BY RecordTakesRoom
    <3>5. ~ (LogSize(s) <= LogSize(w))
      BY <1>2, <3>3, <3>4
    <3>6. n # Len(s)
      BY <1>5, <3>2, <3>5
    <3> QED
      BY <1>2, <1>5, <3>1, <3>6
  <2> QED
    BY <1>1, <2>1, <2>2
<1>6. S \subseteq Int
  OBVIOUS
<1> HIDE DEF N, S
<1>7. Max(S) = N
  BY <1>4, <1>5, <1>6, MaxIs
<1> QED
  BY <1>3, <1>7 DEF FirstBytes, S

-----------------------------------------------------------------------------
(* The last write of a key.                                                *)

LEMMA LastWriteEmpty ==
    ASSUME NEW x
    PROVE  LastWrite(x, << >>) = None
<1>1. WritesOf(x, << >>) = {}
  BY DEF WritesOf
<1> QED
  BY <1>1 DEF LastWrite

LEMMA LastWriteAppend ==
    ASSUME NEW s \in Seq(Record), NEW r \in Record, NEW x
    PROVE  LastWrite(x, Append(s, r)) =
              IF r.kind = "Torn" \/ x # <<r.pid, r.key>> THEN LastWrite(x, s)
              ELSE IF r.kind = "Delete" THEN None ELSE r.value
<1> DEFINE t == Append(s, r)
           N == Len(s)
           W == WritesOf(x, s)
<1>1. /\ t \in Seq(Record) /\ Len(t) = N + 1 /\ t[N + 1] = r /\ N \in Nat
      /\ \A i \in 1 .. N : t[i] = s[i]
      /\ DOMAIN t = 1 .. N + 1 /\ DOMAIN s = 1 .. N
  OBVIOUS
<1> HIDE DEF t, N
<1>2. W \subseteq 1 .. N
  BY <1>1 DEF WritesOf
<1>3. WritesOf(x, t) = IF r.kind = "Torn" \/ x # <<r.pid, r.key>> THEN W ELSE W \cup {N + 1}
  <2>1. \A i \in 1 .. N + 1 : i \in 1 .. N \/ i = N + 1
    BY <1>1
  <2>2. \A i \in 1 .. N : i \in 1 .. N + 1 /\ i # N + 1
    BY <1>1
  <2>3. N + 1 \in 1 .. N + 1
    BY <1>1
  <2>4. \A i : i \in WritesOf(x, t) <=> /\ i \in 1 .. N + 1
                                        /\ t[i].kind # "Torn" /\ x = <<t[i].pid, t[i].key>>
    BY <1>1 DEF WritesOf
  <2>5. \A i : i \in W <=> /\ i \in 1 .. N
                           /\ s[i].kind # "Torn" /\ x = <<s[i].pid, s[i].key>>
    BY <1>1 DEF WritesOf
  <2> HIDE DEF W
  <2>6. \A i : i \in WritesOf(x, t) <=>
                  i \in W \/ (i = N + 1 /\ r.kind # "Torn" /\ x = <<r.pid, r.key>>)
    BY <1>1, <2>1, <2>2, <2>3, <2>4, <2>5
  <2> QED
    BY <2>6
<1>4. CASE r.kind = "Torn" \/ x # <<r.pid, r.key>>
  <2>1. WritesOf(x, t) = W
    BY <1>3, <1>4
  <2>2. CASE W = {}
    BY <1>4, <2>1, <2>2 DEF LastWrite, t
  <2>3. CASE W # {}
    <3>1. W \subseteq 0 .. N
      BY <1>2
    <3>2. Max(W) \in W
      <4> HIDE DEF W
      <4> QED BY <1>1, <2>3, <3>1, MaxExists
    <3>3. t[Max(W)] = s[Max(W)]
      BY <1>1, <1>2, <3>2
    <3>4. LastWrite(x, t) = LastWrite(x, s)
      BY <2>1, <3>3 DEF LastWrite
    <3> QED
      BY <1>4, <3>4 DEF t
  <2> QED
    BY <2>2, <2>3
<1>5. CASE ~ (r.kind = "Torn" \/ x # <<r.pid, r.key>>)
  <2> DEFINE S == W \cup {N + 1}
  <2>1. WritesOf(x, t) = S
    BY <1>3, <1>5
  <2>2. S \subseteq Int /\ N + 1 \in S /\ \A k \in S : k <= N + 1
    BY <1>1, <1>2
  <2>3. S # {}
    BY <2>2
  <2> HIDE DEF S, W
  <2>4. Max(S) = N + 1
    BY <2>2, MaxIs
  <2>5. LastWrite(x, t) = IF r.kind = "Delete" THEN None ELSE r.value
    BY <1>1, <2>1, <2>3, <2>4 DEF LastWrite
  <2> QED
    BY <1>5, <2>5 DEF t
<1> QED
  BY <1>4, <1>5

LEMMA AppliedEntries ==
    ASSUME NEW e \in Engine, NEW r \in Record, r.kind # "Torn", NEW x \in Pid \X Key
    PROVE  apply_logged(e, r).entries[x] =
              IF x # <<r.pid, r.key>> THEN e.entries[x]
              ELSE IF r.kind = "Delete" THEN None ELSE r.value
<1>1. /\ r.kind \in {"Put", "Delete"} /\ r.pid \in Pid /\ r.key \in Key
      /\ r.kind = "Put" => r.value \in Value
  BY RecordFields
<1>2. CASE r.kind = "Put"
  <2>1. put(e, r.pid, r.key, r.value) = Changed(e, r.pid, r.key, r.value)
    BY <1>1, <1>2, PutChanges
  <2>2. Changed(e, r.pid, r.key, r.value).entries[x] =
           IF x = <<r.pid, r.key>> THEN r.value ELSE e.entries[x]
    BY <1>1, <1>2, ChangedFields
  <2> QED
    BY <1>2, <2>1, <2>2 DEF apply_logged
<1>3. CASE r.kind = "Delete"
  <2>1. delete(e, r.pid, r.key) = Changed(e, r.pid, r.key, None)
    BY <1>1, DeleteChanges
  <2>2. Changed(e, r.pid, r.key, None).entries[x] =
           IF x = <<r.pid, r.key>> THEN None ELSE e.entries[x]
    BY <1>1, ChangedFields
  <2> QED
    BY <1>3, <2>1, <2>2 DEF apply_logged
<1> QED
  BY <1>1, <1>2, <1>3

(* A log that is read to its end gives every key its last write, and a     *)
(* reading holds nothing the log does not.                                 *)
ReadsLastWrites(s) ==
    /\ recover(s).valid = Len(s) =>
          \A x \in Pid \X Key : recover(s).engine.entries[x] = LastWrite(x, s)
    /\ \A x \in Pid \X Key : recover(s).engine.entries[x] # None =>
          \E i \in 1 .. Len(s) : s[i].pid = x[1]

LEMMA RecoverLastWrites ==
    ASSUME NEW s \in Seq(Record)
    PROVE  ReadsLastWrites(s)
<1> DEFINE B == {t \in Seq(Record) : ~ ReadsLastWrites(t)}
<1>1. ReadsLastWrites(<< >>)
  <2>1. recover(<< >>).engine = EmptyEngine
    BY RecoverEmpty DEF NothingRead
  <2> QED
    BY <2>1, EmptySound, LastWriteEmpty DEF ReadsLastWrites
<1>2. ASSUME NEW t \in Seq(Record), NEW r \in Record, ReadsLastWrites(t)
      PROVE  ReadsLastWrites(Append(t, r))
  <2> DEFINE u == Append(t, r)
             N == Len(t)
             e == recover(t).engine
  <2>1. u \in Seq(Record) /\ Len(u) = N + 1 /\ N \in Nat /\ u[N + 1] = r /\ \A i \in 1 .. N : u[i] = t[i]
    OBVIOUS
  <2>2. /\ recover(t) \in Reading
        /\ recover(u) = Read(recover(t), N + 1, r)
    BY RecoverAppend
  <2>3. recover(t).valid \in 0 .. N
    BY RecoverSound DEF RecoversWell
  <2>4. e \in Engine
    BY <2>2 DEF Reading
  <2>5. /\ recover(t).valid = N => \A x \in Pid \X Key : e.entries[x] = LastWrite(x, t)
        /\ \A x \in Pid \X Key : e.entries[x] # None => \E i \in 1 .. N : t[i].pid = x[1]
    BY <1>2 DEF ReadsLastWrites
  <2>6. \A x : LastWrite(x, u) = IF r.kind = "Torn" \/ x # <<r.pid, r.key>> THEN LastWrite(x, t)
                                 ELSE IF r.kind = "Delete" THEN None ELSE r.value
    BY LastWriteAppend
  <2> HIDE DEF u, N, e
  <2>7. \A i \in 1 .. N : i \in 1 .. N + 1
    BY <2>1
  <2>8. CASE recover(t).valid = N /\ Accepts(e, r)
    <3> DEFINE n == apply_logged(e, r)
    <3>1. recover(u) = [engine |-> n, valid |-> N + 1]
      BY <2>1, <2>2, <2>8, ReadTakesOrLeaves DEF e
    <3>2. r.kind # "Torn"
      BY <2>8 DEF Accepts
    <3>3. \A x \in Pid \X Key :
             n.entries[x] = IF x # <<r.pid, r.key>> THEN e.entries[x]
                            ELSE IF r.kind = "Delete" THEN None ELSE r.value
      BY <2>4, <3>2, AppliedEntries
    <3> HIDE DEF n
    <3>4. recover(u).engine = n
      BY <3>1
    <3>5. \A x \in Pid \X Key : n.entries[x] = LastWrite(x, u)
      BY <2>5, <2>6, <2>8, <3>2, <3>3
    <3>6. ASSUME NEW x \in Pid \X Key, n.entries[x] # None
          PROVE  \E i \in 1 .. N + 1 : u[i].pid = x[1]
      <4>1. CASE x = <<r.pid, r.key>>
        <5>1. N + 1 \in 1 .. N + 1 /\ u[N + 1].pid = x[1]
          BY <2>1, <4>1
        <5> QED
          BY <5>1
      <4>2. CASE x # <<r.pid, r.key>>
        <5>1. e.entries[x] # None
          BY <3>3, <3>6, <4>2
        <5>2. PICK i \in 1 .. N : t[i].pid = x[1]
          BY <2>5, <5>1
        <5> QED
          BY <2>1, <2>7, <5>2
      <4> QED
        BY <4>1, <4>2
    <3> QED
      BY <2>1, <3>4, <3>5, <3>6 DEF ReadsLastWrites, u
  <2>9. CASE ~ (recover(t).valid = N /\ Accepts(e, r))
    <3>1. recover(u) = recover(t)
      <4>1. ~ (recover(t).valid = N /\ Accepts(recover(t).engine, r)) /\ N \in Nat
        BY <2>1, <2>9 DEF e
      <4>2. Read(recover(t), N + 1, r) = recover(t)
        BY <4>1, ReadTakesOrLeaves
      <4> QED
        BY <2>2, <4>2
    <3>2. recover(u).valid # Len(u)
      BY <2>1, <2>3, <3>1
    <3>3. ASSUME NEW x \in Pid \X Key, e.entries[x] # None
          PROVE  \E i \in 1 .. Len(u) : u[i].pid = x[1]
      <4>1. PICK i \in 1 .. N : t[i].pid = x[1]
        BY <2>5, <3>3
      <4> QED
        BY <2>1, <2>7, <4>1
    <3> QED
      BY <3>1, <3>2, <3>3 DEF ReadsLastWrites, u, e
  <2> QED
    BY <2>8, <2>9
<1>3. B \subseteq Seq(Record) /\ << >> \notin B
  BY <1>1
<1>4. \A t \in Seq(Record), r \in Record : Append(t, r) \in B => t \in B
  BY <1>2
<1>5. B = {}
  <2> HIDE DEF B
  <2> QED BY <1>3, <1>4, NoShorter
<1> QED
  BY <1>5

-----------------------------------------------------------------------------
(* A snapshot: every entry that is kept is written once, in order.         *)

Rank(kept, x) == Cardinality({y \in kept : Before(y, x)})

Nth(kept, i) == CHOOSE x \in kept : Rank(kept, x) = i - 1

Line(e, x) == [kind |-> "Put", pid |-> x[1], key |-> x[2], value |-> e.entries[x]]

LEMMA WrittenLines ==
    ASSUME NEW e, NEW kept
    PROVE  Written(e, kept) = [i \in 1 .. Cardinality(kept) |-> Line(e, Nth(kept, i))]
BY DEF Written, Nth, Rank, Line

LEMMA RankGrows ==
    ASSUME NEW kept \in SUBSET (Pid \X Key), NEW x \in kept, NEW y \in kept
    PROVE  /\ Rank(kept, x) \in 0 .. Cardinality(kept) - 1
           /\ Before(x, y) => Rank(kept, x) < Rank(kept, y)
<1> DEFINE below(z) == {u \in kept : Before(u, z)}
<1>1. IsFiniteSet(Pid \X Key)
  BY FiniteSets, FS_Product
<1>2. IsFiniteSet(kept)
  BY <1>1, FS_Subset
<1>3. \A z \in Pid \X Key : z[1] \in Int /\ z[2] \in Int
  BY StoreAssumption
<1>4. ~ Before(x, x) /\ ~ Before(y, y)
  BY <1>3 DEF Before
<1>5. ASSUME NEW z \in kept, ~ Before(z, z)
      PROVE  /\ IsFiniteSet(below(z)) /\ Cardinality(below(z)) \in 0 .. Cardinality(kept) - 1
  <2> DEFINE b == below(z)
  <2>1. b \in SUBSET kept /\ z \notin b
    BY <1>5
  <2> HIDE DEF b
  <2>2. IsFiniteSet(b) /\ Cardinality(b) <= Cardinality(kept) /\ (Cardinality(kept) = Cardinality(b) => kept = b)
    BY <1>2, <2>1, FS_Subset
  <2>3. kept # b
    BY <1>5, <2>1
  <2>4. Cardinality(b) \in Nat /\ Cardinality(kept) \in Nat
    BY <1>2, <2>2, FS_CardinalityType
  <2>5. Cardinality(b) \in 0 .. Cardinality(kept) - 1
    BY <2>2, <2>3, <2>4
  <2> QED
    BY <2>2, <2>5 DEF b
<1>6. ASSUME Before(x, y)
      PROVE  Rank(kept, x) < Rank(kept, y)
  <2> DEFINE a == below(x)
             b == below(y)
  <2>1. \A z \in kept : Before(z, x) => Before(z, y)
    BY <1>3, <1>6 DEF Before
  <2>2. a \in SUBSET b /\ x \in b /\ x \notin a
    BY <1>4, <1>6, <2>1
  <2>3. IsFiniteSet(b) /\ IsFiniteSet(a)
    BY <1>4, <1>5
  <2> HIDE DEF a, b
  <2>4. Cardinality(a) <= Cardinality(b) /\ (Cardinality(b) = Cardinality(a) => b = a)
    BY <2>2, <2>3, FS_Subset
  <2>5. Cardinality(a) \in Nat /\ Cardinality(b) \in Nat
    BY <2>3, FS_CardinalityType
  <2>6. b # a
    BY <2>2
  <2>7. Cardinality(a) < Cardinality(b)
    BY <2>4, <2>5, <2>6
  <2> QED
    BY <2>7 DEF Rank, a, b
<1>7. Rank(kept, x) \in 0 .. Cardinality(kept) - 1
  BY <1>4, <1>5 DEF Rank
<1> QED
  BY <1>6, <1>7

LEMMA NthEnumerates ==
    ASSUME NEW kept \in SUBSET (Pid \X Key)
    PROVE  /\ IsFiniteSet(kept) /\ Cardinality(kept) \in Nat
           /\ \A i \in 1 .. Cardinality(kept) :
                 Nth(kept, i) \in kept /\ Rank(kept, Nth(kept, i)) = i - 1
           /\ \A x \in kept : \E i \in 1 .. Cardinality(kept) : Nth(kept, i) = x
<1> DEFINE n == Cardinality(kept)
           R == [x \in kept |-> Rank(kept, x)]
<1>1. IsFiniteSet(kept) /\ n \in Nat
  <2>1. IsFiniteSet(Pid \X Key)
    BY FiniteSets, FS_Product
  <2> QED
    BY <2>1, FS_Subset, FS_CardinalityType
<1>2. \A x, y \in kept : Rank(kept, x) = Rank(kept, y) => x = y
  <2> SUFFICES ASSUME NEW x \in kept, NEW y \in kept, Rank(kept, x) = Rank(kept, y)
               PROVE  x = y
    OBVIOUS
  <2>1. Rank(kept, x) \in Int /\ Rank(kept, y) \in Int
    BY <1>1, RankGrows
  <2>2. ~ Before(x, y) /\ ~ Before(y, x)
    BY <2>1, RankGrows
  <2>3. x \in Pid \X Key /\ y \in Pid \X Key
    OBVIOUS
  <2>4. x[1] \in Int /\ x[2] \in Int /\ y[1] \in Int /\ y[2] \in Int
    BY <2>3, StoreAssumption
  <2>5. x[1] = y[1] /\ x[2] = y[2]
    BY <2>2, <2>4 DEF Before
  <2> QED
    BY <2>3, <2>5
<1>3. R \in [kept -> 0 .. n - 1] /\ \A x \in kept : R[x] = Rank(kept, x)
  BY <1>1, RankGrows
<1> HIDE DEF R, n
<1>4. R \in Injection(kept, 0 .. n - 1)
  BY <1>2, <1>3 DEF Injection, IsInjective
<1>5. IsFiniteSet(0 .. n - 1) /\ Cardinality(0 .. n - 1) = n
  <2>1. 0 \in Int /\ n - 1 \in Int
    BY <1>1
  <2>2. IsFiniteSet(0 .. n - 1) /\ Cardinality(0 .. n - 1) = IF 0 > n - 1 THEN 0 ELSE n - 1 - 0 + 1
    BY <2>1, FS_Interval
  <2> QED
    BY <1>1, <2>2
<1>6. R \in Surjection(kept, 0 .. n - 1)
  <2>1. Cardinality(kept) = Cardinality(0 .. n - 1) <=> R \in Surjection(kept, 0 .. n - 1)
    BY <1>4, <1>5, FS_Injection
  <2> QED
    BY <1>5, <2>1 DEF n
<1>7. ASSUME NEW i \in 1 .. n
      PROVE  Nth(kept, i) \in kept /\ Rank(kept, Nth(kept, i)) = i - 1
  <2>1. i - 1 \in 0 .. n - 1
    BY <1>1
  <2>2. PICK x \in kept : R[x] = i - 1
    BY <1>6, <2>1 DEF Surjection
  <2>3. Rank(kept, x) = i - 1
    BY <1>3, <2>2
  <2> QED
    BY <2>3 DEF Nth
<1>8. ASSUME NEW x \in kept
      PROVE  \E i \in 1 .. n : Nth(kept, i) = x
  <2> DEFINE i == Rank(kept, x) + 1
  <2>1. Rank(kept, x) \in 0 .. n - 1
    BY <1>3
  <2>2. i \in 1 .. n /\ i - 1 = Rank(kept, x)
    BY <1>1, <2>1
  <2> HIDE DEF i
  <2>3. Nth(kept, i) \in kept /\ Rank(kept, Nth(kept, i)) = i - 1
    BY <1>7, <2>2
  <2>4. Nth(kept, i) = x
    BY <1>2, <2>2, <2>3
  <2> QED
    BY <2>2, <2>4
<1> QED
  BY <1>1, <1>7, <1>8 DEF n

LEMMA WrittenRecords ==
    ASSUME NEW e \in Engine, NEW kept \in SUBSET (Pid \X Key),
           \A x \in kept : e.entries[x] # None
    PROVE  /\ Written(e, kept) \in Seq(Record)
           /\ Len(Written(e, kept)) = Cardinality(kept)
           /\ \A i \in 1 .. Cardinality(kept) :
                 /\ Nth(kept, i) \in kept
                 /\ Written(e, kept)[i] = Line(e, Nth(kept, i))
                 /\ Line(e, Nth(kept, i)) \in Record
<1> DEFINE n == Cardinality(kept)
           s == Written(e, kept)
<1>1. n \in Nat /\ \A i \in 1 .. n : Nth(kept, i) \in kept
  BY NthEnumerates
<1>2. ASSUME NEW x \in kept
      PROVE  Line(e, x) \in Record
  <2>1. x[1] \in Pid /\ x[2] \in Key
    OBVIOUS
  <2>2. e.entries[x] \in Value
    BY <1>2 DEF Engine, Entries
  <2> QED
    BY <2>1, <2>2 DEF Line, Record
<1>3. s = [i \in 1 .. n |-> Line(e, Nth(kept, i))]
  BY WrittenLines
<1> HIDE DEF n, s
<1>4. \A i \in 1 .. n : Line(e, Nth(kept, i)) \in Record
  BY <1>1, <1>2
<1>5. s \in [1 .. n -> Record] /\ \A i \in 1 .. n : s[i] = Line(e, Nth(kept, i))
  BY <1>3, <1>4
<1>6. s \in Seq(Record) /\ Len(s) = n
  BY <1>1, <1>5
<1> QED
  BY <1>1, <1>4, <1>5, <1>6 DEF n, s

LEMMA HoldsSound ==
    ASSUME NEW s, NEW e, Holds(s, e)
    PROVE  Sound(e) /\ e \in Engine /\ Exact(e) /\ s \in Seq(Record)
<1>1. s \in Seq(Record) /\ recover(s).engine = e
  BY DEF Holds
<1>2. Sound(recover(s).engine)
  BY <1>1, RecoverSound DEF RecoversWell
<1> QED
  BY <1>1, <1>2 DEF Sound

(* What is part of an engine within its limits may be put, one by one.     *)
LEMMA PartIsAccepted ==
    ASSUME NEW d, Sound(d), NEW a, Sound(a),
           \A x \in Pid \X Key : a.entries[x] \in {None, d.entries[x]},
           NEW p \in Pid, NEW k \in Key, NEW v \in Value,
           a.entries[<<p, k>>] = None, d.entries[<<p, k>>] = v
    PROVE  check_put(a, p, k, v)
<1> DEFINE n == Changed(a, p, k, v)
<1>1. a \in Engine /\ d \in Engine /\ Exact(a) /\ Exact(d) /\ Within(d)
  BY DEF Sound
<1>2. v \in Value \cup {None} /\ v # None
  BY StoreAssumption
<1>3. /\ n \in Engine
      /\ \A x \in Pid \X Key : n.entries[x] = IF x = <<p, k>> THEN v ELSE a.entries[x]
      /\ n.bytes[p] = a.bytes[p] - CostOf(a, p, k) + Weight(v)
      /\ n.total = a.total - CostOf(a, p, k) + Weight(v)
  BY <1>1, <1>2, ChangedFields
<1>4. Exact(n)
  BY <1>1, <1>2, ChangedExact
<1> HIDE DEF n
<1>5. \A x \in Pid \X Key : n.entries[x] \in {None, d.entries[x]}
  BY <1>3
<1>6. (\A q \in Pid : n.bytes[q] <= d.bytes[q]) /\ n.total <= d.total
  BY <1>1, <1>3, <1>4, <1>5, FewerCount
<1>7. Weight(v) = cost(v)
  BY <1>2, WeightType
<1>8. n.bytes[p] <= PARTITION_QUOTA_BYTES /\ n.total <= GLOBAL_QUOTA_BYTES
  <2>1. /\ n.bytes[p] \in Int /\ d.bytes[p] \in Int /\ n.total \in Int /\ d.total \in Int
    BY <1>1, <1>3 DEF Engine
  <2>2. d.bytes[p] <= PARTITION_QUOTA_BYTES /\ d.total <= GLOBAL_QUOTA_BYTES
    BY <1>1 DEF Within
  <2>3. PARTITION_QUOTA_BYTES \in Int /\ GLOBAL_QUOTA_BYTES \in Int
    BY StoreAssumption
  <2> QED
    BY <1>6, <2>1, <2>2, <2>3
<1>9. v <= MAX_VALUE_BYTES
  <2>1. <<p, k>> \in Pid \X Key
    OBVIOUS
  <2> QED
    BY <1>1, <1>2, <2>1 DEF Within
<1>10. Cardinality(KeysOf(a, p)) < MAX_ENTRIES_PER_PARTITION
  <2> DEFINE A == KeysOf(a, p)
             D == KeysOf(d, p)
  <2>1. A \in SUBSET D
    <3>1. \A j \in Key : a.entries[<<p, j>>] # None => d.entries[<<p, j>>] # None
      OBVIOUS
    <3> QED
      BY <3>1 DEF KeysOf
  <2>2. k \in D /\ k \notin A
    BY <1>2 DEF KeysOf
  <2>3. IsFiniteSet(D) /\ Cardinality(D) \in Nat /\ Cardinality(A) \in Nat
    BY KeysFinite
  <2>4. Cardinality(D) <= MAX_ENTRIES_PER_PARTITION /\ MAX_ENTRIES_PER_PARTITION \in Nat
    BY <1>1, StoreAssumption DEF Within
  <2> HIDE DEF A, D
  <2>5. Cardinality(A) <= Cardinality(D) /\ (Cardinality(D) = Cardinality(A) => D = A)
    BY <2>1, <2>3, FS_Subset
  <2>6. D # A
    BY <2>2
  <2>7. Cardinality(A) < MAX_ENTRIES_PER_PARTITION
    BY <2>3, <2>4, <2>5, <2>6
  <2> QED
    BY <2>7 DEF A
<1> QED
  BY <1>3, <1>7, <1>8, <1>9, <1>10 DEF check_put

LEMMA PrefixGrows ==
    ASSUME NEW A, NEW s \in Seq(A), NEW n \in 1 .. Len(s)
    PROVE  SubSeq(s, 1, n) = Append(SubSeq(s, 1, n - 1), s[n])
<1> DEFINE m == n - 1
           a == SubSeq(s, 1, n)
           b == SubSeq(s, 1, m)
<1>1. n \in Nat /\ n \in 0 .. Len(s) /\ m \in 0 .. Len(s) /\ n = m + 1 /\ m \in Nat /\ s[n] \in A
  OBVIOUS
<1> HIDE DEF m
<1>2. a \in Seq(A) /\ Len(a) = n /\ \A i \in 1 .. n : a[i] = s[i]
  BY <1>1, Prefix
<1>3. b \in Seq(A) /\ Len(b) = m /\ \A i \in 1 .. m : b[i] = s[i]
  BY <1>1, Prefix
<1> HIDE DEF a, b
<1> DEFINE c == Append(b, s[n])
<1>4. c \in Seq(A) /\ Len(c) = m + 1 /\ c[m + 1] = s[n] /\ \A i \in 1 .. m : c[i] = b[i]
  BY <1>1, <1>3
<1> HIDE DEF c
<1>5. \A i \in 1 .. n : a[i] = c[i]
  <2>1. \A i \in 1 .. n : i \in 1 .. m \/ i = m + 1
    BY <1>1
  <2> QED
    BY <1>1, <1>2, <1>3, <1>4, <2>1
<1>6. a = c
  BY <1>1, <1>2, <1>4, <1>5, SeqEqual
<1> QED
  BY <1>6 DEF a, b, c, m

(* What has been read back after n of the records.                         *)
ReadBack(s, kept, d, n) ==
    \E e : /\ Holds(SubSeq(s, 1, n), e)
           /\ \A x \in kept : Rank(kept, x) < n => e.entries[x] = d.entries[x]
           /\ \A x \in kept : ~ (Rank(kept, x) < n) => e.entries[x] = None
           /\ \A x \in (Pid \X Key) \ kept : e.entries[x] = None

LEMMA OneMoreReadBack ==
    ASSUME NEW d, Sound(d), NEW kept, kept = {x \in Pid \X Key : d.entries[x] # None},
           NEW s \in Seq(Record), Len(s) = Cardinality(kept),
           \A i \in 1 .. Cardinality(kept) : s[i] = Line(d, Nth(kept, i)),
           NEW n \in 1 .. Cardinality(kept), ReadBack(s, kept, d, n - 1)
    PROVE  ReadBack(s, kept, d, n)
<1>1. PICK e : /\ Holds(SubSeq(s, 1, n - 1), e)
               /\ \A x \in kept : Rank(kept, x) < n - 1 => e.entries[x] = d.entries[x]
               /\ \A x \in kept : ~ (Rank(kept, x) < n - 1) => e.entries[x] = None
               /\ \A x \in (Pid \X Key) \ kept : e.entries[x] = None
  BY DEF ReadBack
<1>2. Sound(e) /\ e \in Engine /\ d \in Engine
  BY <1>1, HoldsSound DEF Sound
<1> DEFINE x == Nth(kept, n)
           r == Line(d, x)
           p == x[1]
           k == x[2]
           v == d.entries[x]
<1>3. kept \in SUBSET (Pid \X Key)
  OBVIOUS
<1>4. x \in kept /\ Rank(kept, x) = n - 1 /\ Cardinality(kept) \in Nat
  BY <1>3, NthEnumerates
<1>5. x \in Pid \X Key /\ x = <<p, k>> /\ p \in Pid /\ k \in Key /\ v # None
  BY <1>3, <1>4
<1>6. v \in Value
  BY <1>2, <1>5 DEF Engine, Entries
<1>7. \A y \in Pid \X Key : e.entries[y] \in {None, d.entries[y]}
  BY <1>1
<1>8. e.entries[x] = None
  <2>1. ~ (n - 1 < n - 1)
    OBVIOUS
  <2> QED
    BY <1>1, <1>4, <2>1
<1>9. r = [kind |-> "Put", pid |-> p, key |-> k, value |-> v]
  BY DEF Line
<1>10. r \in Record
  BY <1>5, <1>6, <1>9 DEF Record
<1>11. r.kind = "Put" /\ r.pid = p /\ r.key = k /\ r.value = v
  <2> HIDE DEF r, p, k, v
  <2> QED BY <1>9
<1>12. s[n] = r
  OBVIOUS
<1> HIDE DEF x, r, p, k, v
<1>13. d.entries[<<p, k>>] = v /\ e.entries[<<p, k>>] = None
  BY <1>5, <1>8 DEF v
<1>14. check_put(e, p, k, v)
  BY <1>2, <1>5, <1>6, <1>7, <1>13, PartIsAccepted
<1>15. Accepts(e, r)
  BY <1>11, <1>14 DEF Accepts
<1> DEFINE f == apply_logged(e, r)
<1>16. SubSeq(s, 1, n) = Append(SubSeq(s, 1, n - 1), r)
  <2>1. n \in 1 .. Len(s)
    OBVIOUS
  <2> QED
    BY <1>12, <2>1, PrefixGrows
<1>17. Holds(SubSeq(s, 1, n), f)
  BY <1>1, <1>10, <1>15, <1>16, HoldsAppend
<1>18. \A y \in Pid \X Key : f.entries[y] = IF y # x THEN e.entries[y] ELSE v
  <2>1. \A y \in Pid \X Key :
           f.entries[y] = IF y # <<r.pid, r.key>> THEN e.entries[y]
                          ELSE IF r.kind = "Delete" THEN None ELSE r.value
    BY <1>2, <1>10, <1>11, AppliedEntries
  <2> HIDE DEF f
  <2> QED
    BY <1>5, <1>11, <2>1
<1> HIDE DEF f
<1>19. \A y \in kept : Rank(kept, y) \in Int /\ (Rank(kept, y) = n - 1 => y = x)
  <2> SUFFICES ASSUME NEW y \in kept
               PROVE  Rank(kept, y) \in Int /\ (Rank(kept, y) = n - 1 => y = x)
    OBVIOUS
  <2>1. Rank(kept, y) \in Int
    BY <1>3, <1>4, RankGrows
  <2>2. PICK i \in 1 .. Cardinality(kept) : Nth(kept, i) = y
    BY <1>3, NthEnumerates
  <2>3. Rank(kept, y) = i - 1
    BY <1>3, <2>2, NthEnumerates
  <2>4. Rank(kept, y) = n - 1 => i = n
    BY <2>3
  <2> QED
    BY <2>1, <2>2, <2>4 DEF x
<1>20. \A y \in kept : Rank(kept, y) < n <=> Rank(kept, y) < n - 1 \/ y = x
  <2>1. \A j \in Int : j < n <=> j < n - 1 \/ j = n - 1
    OBVIOUS
  <2> QED
    BY <1>4, <1>19, <2>1
<1>21. \A y \in kept : Rank(kept, y) < n => f.entries[y] = d.entries[y]
  BY <1>1, <1>3, <1>18, <1>20 DEF v
<1>22. \A y \in kept : ~ (Rank(kept, y) < n) => f.entries[y] = None
  BY <1>1, <1>3, <1>18, <1>20
<1>23. \A y \in (Pid \X Key) \ kept : f.entries[y] = None
  BY <1>1, <1>4, <1>18
<1> QED
  BY <1>17, <1>21, <1>22, <1>23 DEF ReadBack

LEMMA WrittenHolds ==
    ASSUME NEW d, Sound(d), NEW kept, kept = {x \in Pid \X Key : d.entries[x] # None},
           NEW s \in Seq(Record), Len(s) = Cardinality(kept),
           \A i \in 1 .. Cardinality(kept) : s[i] = Line(d, Nth(kept, i))
    PROVE  Holds(s, d)
<1> DEFINE N == Cardinality(kept)
           T == {n \in 0 .. N : ~ ReadBack(s, kept, d, n)}
<1>1. kept \in SUBSET (Pid \X Key)
  OBVIOUS
<1>2. N \in Nat
  BY <1>1, NthEnumerates
<1>3. \A x \in kept : Rank(kept, x) \in 0 .. N - 1
  BY <1>1, RankGrows
<1>4. ReadBack(s, kept, d, 0)
  <2>1. SubSeq(s, 1, 0) = << >>
    BY SubSeqEmpty
  <2>2. Holds(SubSeq(s, 1, 0), EmptyEngine)
    BY <2>1, HoldsEmpty
  <2>3. \A x \in kept : ~ (Rank(kept, x) < 0)
    BY <1>2, <1>3
  <2>4. \A x \in Pid \X Key : EmptyEngine.entries[x] = None
    BY EmptySound
  <2> QED
    BY <1>1, <2>2, <2>3, <2>4 DEF ReadBack
<1>5. ASSUME NEW n \in T
      PROVE  n - 1 \in T /\ n - 1 < n
  <2>1. n \in 1 .. N /\ n - 1 \in 0 .. N /\ n - 1 < n
    <3>1. n \in 0 .. N /\ n # 0
      BY <1>4, <1>5
    <3> QED
      BY <1>2, <3>1
  <2>2. ~ ReadBack(s, kept, d, n)
    BY <1>5
  <2>3. ~ ReadBack(s, kept, d, n - 1)
    BY <2>1, <2>2, OneMoreReadBack
  <2> QED
    BY <2>1, <2>3
<1>6. T = {}
  <2>1. T \subseteq Nat
    BY <1>2
  <2>2. \A n \in T : \E m \in T : m < n
    BY <1>5
  <2> HIDE DEF T
  <2> QED BY <2>1, <2>2, NoDescent
<1>7. ReadBack(s, kept, d, N)
  <2>1. N \in 0 .. N
    BY <1>2
  <2> QED
    BY <1>6, <2>1
<1>8. SubSeq(s, 1, N) = s
  BY SubSeqFull
<1>9. PICK e : /\ Holds(SubSeq(s, 1, N), e)
               /\ \A x \in kept : Rank(kept, x) < N => e.entries[x] = d.entries[x]
               /\ \A x \in (Pid \X Key) \ kept : e.entries[x] = None
  BY <1>7 DEF ReadBack
<1>10. Holds(s, e)
  BY <1>8, <1>9
<1>11. e \in Engine /\ Exact(e) /\ d \in Engine /\ Exact(d)
  BY <1>10, HoldsSound DEF Sound
<1>12. \A x \in kept : Rank(kept, x) < N
  BY <1>2, <1>3
<1>13. \A x \in Pid \X Key : e.entries[x] = d.entries[x]
  BY <1>9, <1>12
<1>14. e.entries = d.entries
  BY <1>11, <1>13 DEF Engine, Entries
<1>15. d = e
  BY <1>11, <1>14, SameEntries
<1> QED
  BY <1>10, <1>15

(* A snapshot holds what it does not leave out.                            *)
LEMMA SnapshotHolds ==
    ASSUME NEW e, Sound(e), NEW gone \in SUBSET Pid
    PROVE  /\ Holds(snapshot_excluding(e, gone), remove(e, gone))
           /\ \A i \in DOMAIN snapshot_excluding(e, gone) :
                 LET p == snapshot_excluding(e, gone)[i].pid
                 IN  p \notin gone /\ \E k \in Key : e.entries[<<p, k>>] # None
<1> DEFINE d == remove(e, gone)
           kept == {x \in Pid \X Key : e.entries[x] # None /\ x[1] \notin gone}
           s == Written(e, kept)
<1>1. e \in Engine
  BY DEF Sound
<1>2. Sound(d)
  BY RemoveSound
<1>3. \A x \in Pid \X Key : d.entries[x] = IF x[1] \in gone THEN None ELSE e.entries[x]
  BY <1>1, RemoveFields
<1>4. snapshot_excluding(e, gone) = s
  BY DEF snapshot_excluding
<1>5. kept \in SUBSET (Pid \X Key) /\ \A x \in kept : e.entries[x] # None
  OBVIOUS
<1>6. kept = {x \in Pid \X Key : d.entries[x] # None}
  BY <1>3
<1>7. \A x \in kept : d.entries[x] = e.entries[x] /\ x[1] \notin gone
  BY <1>3
<1> HIDE DEF d, kept
<1>8. /\ s \in Seq(Record) /\ Len(s) = Cardinality(kept)
      /\ \A i \in 1 .. Cardinality(kept) : Nth(kept, i) \in kept /\ s[i] = Line(e, Nth(kept, i))
  BY <1>1, <1>5, WrittenRecords
<1> HIDE DEF s
<1>9. \A i \in 1 .. Cardinality(kept) : s[i] = Line(d, Nth(kept, i))
  BY <1>7, <1>8 DEF Line
<1>10. Holds(s, d)
  BY <1>2, <1>6, <1>8, <1>9, WrittenHolds
<1>11. ASSUME NEW i \in DOMAIN s
       PROVE  s[i].pid \notin gone /\ \E k \in Key : e.entries[<<s[i].pid, k>>] # None
  <2> DEFINE x == Nth(kept, i)
  <2>1. i \in 1 .. Cardinality(kept)
    BY <1>8
  <2>2. x \in kept /\ s[i].pid = x[1]
    BY <1>8, <2>1 DEF Line
  <2> HIDE DEF x
  <2>3. x \in Pid \X Key /\ e.entries[x] # None /\ x[1] \notin gone
    BY <1>5, <1>7, <2>2
  <2>4. x[2] \in Key /\ x = <<x[1], x[2]>>
    BY <2>3
  <2>5. e.entries[<<s[i].pid, x[2]>>] # None
    BY <2>2, <2>3, <2>4
  <2> QED
    BY <2>2, <2>3, <2>4, <2>5
<1> QED
  BY <1>4, <1>10, <1>11 DEF d
=============================================================================
