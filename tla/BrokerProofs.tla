---------------------------- MODULE BrokerProofs ----------------------------
(***************************************************************************)
(* Proofs about the broker and its frame tree, for every number of slots,  *)
(* generations, channels, groups, ordinals, origins and pool entries.      *)
(* The tree comes first; what the proofs about the broker need of it is    *)
(* how each operation changes who owns which handle and which resolve.     *)
(***************************************************************************)
EXTENDS Broker, FiniteSetTheorems, WellFoundedInduction, TLAPS

(* A leaf that names no prover is tried with these, in turn.              *)
USE ZenonT(2), SMTT(30), Z3T(30), ZenonT(30)

-----------------------------------------------------------------------------
(* Ancestors.  A walk along parent links is a recursive function; what it  *)
(* computes is found by induction, through a least counterexample.         *)

(* A set of numbers that is not empty has a least one. *)
LEMMA Least ==
    ASSUME NEW T, T \subseteq Nat, T # {}
    PROVE  \E x \in T : \A y \in T : x <= y
<1> DEFINE R == OpToRel(<, Nat)
<1>1. IsWellFoundedOn(R, Nat)
  BY NatLessThanWellFounded
<1>2. \A x, y \in Nat : <<y, x>> \in R <=> y < x
  BY DEF OpToRel
<1> HIDE DEF R
<1>3. PICK x \in T : \A y \in T : ~ (<<y, x>> \in R)
  BY <1>1, WFMin
<1>4. \A y \in T : x \in Nat /\ y \in Nat /\ ~ (y < x)
  BY <1>2, <1>3
<1>5. \A y \in T : x <= y
  BY <1>4
<1> QED
  BY <1>5


(* h is what one gets by iterating Step from b; there is such a function.  *)
Iterates(S, b, Step, h) ==
    h \in [Nat -> S] /\ h[0] = b /\ \A n \in Nat : h[n + 1] = Step[h[n]]

LEMMA RecursionWorks ==
    ASSUME NEW S, NEW b, b \in S, NEW Step, Step \in [S -> S]
    PROVE  \E h : Iterates(S, b, Step, h)
<1> DEFINE Approx(n, g) == /\ g \in [0 .. n -> S] /\ g[0] = b
                           /\ \A i \in 0 .. n - 1 : g[i + 1] = Step[g[i]]
<1>1. \A n \in Nat : \E g : Approx(n, g)
  <2> DEFINE T == {n \in Nat : ~ \E g : Approx(n, g)}
  <2> SUFFICES ASSUME T # {} PROVE FALSE
    OBVIOUS
  <2>1. PICK m \in T : \A y \in T : m <= y
    <3> T \subseteq Nat
      OBVIOUS
    <3> HIDE DEF T
    <3> QED BY Least
  <2>2. Approx(0, [i \in 0 .. 0 |-> b])
    OBVIOUS
  <2>3. m \in Nat \ {0}
    BY <2>2
  <2>4. PICK g : Approx(m - 1, g)
    <3>1. m - 1 \in Nat /\ ~ (m <= m - 1)
      BY <2>3
    <3>2. m - 1 \notin T
      <4> HIDE DEF T
      <4> QED BY <2>1, <3>1
    <3> QED
      BY <3>1, <3>2
  <2> DEFINE h == [i \in 0 .. m |-> IF i = m THEN Step[g[m - 1]] ELSE g[i]]
  <2>5. Approx(m, h)
    BY <2>3, <2>4
  <2> QED
    BY <2>1, <2>5
<1>2. ASSUME NEW n \in Nat, NEW m \in Nat, NEW g, NEW h, Approx(n, g), Approx(m, h)
      PROVE  \A i \in Nat : i <= n /\ i <= m => g[i] = h[i]
  <2> DEFINE T == {i \in Nat : i <= n /\ i <= m /\ g[i] # h[i]}
  <2> SUFFICES ASSUME T # {} PROVE FALSE
    OBVIOUS
  <2>1. PICK i \in T : \A y \in T : i <= y
    <3> T \subseteq Nat
      OBVIOUS
    <3> HIDE DEF T
    <3> QED BY Least
  <2>2. i # 0
    BY <1>2
  <2>3. g[i - 1] = h[i - 1]
    BY <2>1, <2>2
  <2>4. g[i] = Step[g[i - 1]] /\ h[i] = Step[h[i - 1]]
    <3>1. i - 1 \in 0 .. n - 1 /\ i - 1 \in 0 .. m - 1 /\ (i - 1) + 1 = i
      BY <2>2
    <3> QED
      BY <1>2, <3>1
  <2> QED
    BY <2>1, <2>3, <2>4
<1> DEFINE G(n) == CHOOSE g : Approx(n, g)
           H == [n \in Nat |-> G(n)[n]]
<1>3. \A n \in Nat : Approx(n, G(n))
  BY <1>1
<1> HIDE DEF G
<1>4. H \in [Nat -> S] /\ H[0] = b
  BY <1>3
<1>5. ASSUME NEW n \in Nat
      PROVE  H[n + 1] = Step[H[n]]
  <2>1. G(n + 1)[n + 1] = Step[G(n + 1)[n]]
    BY <1>3
  <2>2. G(n + 1)[n] = G(n)[n]
    <3>1. n \in Nat /\ n + 1 \in Nat /\ Approx(n, G(n)) /\ Approx(n + 1, G(n + 1))
      BY <1>3
    <3> HIDE DEF Approx
    <3>2. \A i \in Nat : i <= n /\ i <= n + 1 => G(n)[i] = G(n + 1)[i]
      BY <3>1, <1>2
    <3> QED
      BY <3>2
  <2> QED
    BY <2>1, <2>2
<1>6. Iterates(S, b, Step, H)
  BY <1>4, <1>5 DEF Iterates
<1> QED
  BY <1>6

(* The body of AncestorAt for the parent links par, and a walk along them. *)
Links(par, w) == [n \in Nat |-> [f \in FrameId |->
                     IF n = 0 \/ par[f] = None THEN f ELSE w[n - 1][par[f]]]]

Follows(par, w) == w = Links(par, w)

Parents == [f \in FrameId |-> ParentOf(f)]

(* There is such a walk, and AncestorAt is one, before and after a step.   *)
LEMMA WalkExists ==
    ASSUME NEW par \in [FrameId -> FrameId \cup {None}]
    PROVE  \E h : Follows(par, h)
<1> DEFINE S == [FrameId -> FrameId]
           b == [f \in FrameId |-> f]
           Step == [w \in S |-> [f \in FrameId |-> IF par[f] = None THEN f ELSE w[par[f]]]]
<1>1. b \in S /\ Step \in [S -> S]
  OBVIOUS
<1>2. PICK h \in [Nat -> S] : h[0] = b /\ \A n \in Nat : h[n + 1] = Step[h[n]]
  <2>1. \E h : Iterates(S, b, Step, h)
    <3> HIDE DEF S, b, Step
    <3> QED BY <1>1, RecursionWorks
  <2> HIDE DEF S, b, Step
  <2> QED BY <2>1 DEF Iterates
<1>3. ASSUME NEW n \in Nat
      PROVE  h[n] = [f \in FrameId |-> IF n = 0 \/ par[f] = None THEN f ELSE h[n - 1][par[f]]]
  <2>1. CASE n = 0
    BY <1>2, <2>1
  <2>2. CASE n # 0
    <3>1. n - 1 \in Nat /\ (n - 1) + 1 = n
      BY <2>2
    <3>2. h[n] = Step[h[n - 1]] /\ h[n - 1] \in S
      BY <1>2, <3>1
    <3> QED
      BY <2>2, <3>2
  <2> QED
    BY <2>1, <2>2
<1>4. \A n \in Nat : h[n] = Links(par, h)[n]
  BY <1>3 DEF Links
<1>5. h = Links(par, h)
  <2>1. h = [n \in Nat |-> h[n]] /\ Links(par, h) = [n \in Nat |-> Links(par, h)[n]]
    BY <1>2 DEF Links
  <2> QED
    BY <1>4, <2>1
<1> QED
  BY <1>5 DEF Follows

LEMMA AncestorWalk ==
    ASSUME TreeTypeOK
    PROVE  Parents \in [FrameId -> FrameId \cup {None}] /\ Follows(Parents, AncestorAt)
<1> DEFINE P(h) == h = [n \in Nat |-> [f \in FrameId |->
                IF n = 0 \/ ParentOf(f) = None THEN f ELSE h[n - 1][ParentOf(f)]]]
           C == CHOOSE h : P(h)
<1>1. Parents \in [FrameId -> FrameId \cup {None}]
  BY DEF TreeTypeOK, FrameSlot, Parents, ParentOf, FrameId
<1>2. \A h : Links(Parents, h) = [n \in Nat |-> [f \in FrameId |->
                IF n = 0 \/ ParentOf(f) = None THEN f ELSE h[n - 1][ParentOf(f)]]]
  BY DEF Links, Parents
<1>3. \A h : P(h) <=> Follows(Parents, h)
  BY <1>2 DEF Follows
<1>4. AncestorAt = C
  BY DEF AncestorAt
<1>5. P(C)
  <2>1. \E h : Follows(Parents, h)
    BY <1>1, WalkExists
  <2>2. \E h : P(h)
    BY <1>3, <2>1
  <2> HIDE DEF P
  <2> QED
    BY <2>2
<1> HIDE DEF P, C
<1> QED
  BY <1>1, <1>3, <1>4, <1>5

LEMMA AncestorWalkNext ==
    ASSUME TreeTypeOK'
    PROVE  Parents' \in [FrameId -> FrameId \cup {None}] /\ Follows(Parents', AncestorAt')
<1> DEFINE P(h) == h = [n \in Nat |-> [f \in FrameId |->
                IF n = 0 \/ ParentOf(f)' = None THEN f ELSE h[n - 1][ParentOf(f)']]]
           C == CHOOSE h : P(h)
<1>1. Parents' \in [FrameId -> FrameId \cup {None}]
  BY DEF TreeTypeOK, FrameSlot, Parents, ParentOf, FrameId
<1>2. \A h : Links(Parents', h) = [n \in Nat |-> [f \in FrameId |->
                IF n = 0 \/ ParentOf(f)' = None THEN f ELSE h[n - 1][ParentOf(f)']]]
  BY DEF Links, Parents
<1>3. \A h : P(h) <=> Follows(Parents', h)
  BY <1>2 DEF Follows
<1>4. AncestorAt' = C
  BY DEF AncestorAt
<1>5. P(C)
  <2>1. \E h : Follows(Parents', h)
    BY <1>1, WalkExists
  <2>2. \E h : P(h)
    BY <1>3, <2>1
  <2> HIDE DEF P
  <2> QED
    BY <2>2
<1> HIDE DEF P, C
<1> QED
  BY <1>1, <1>3, <1>4, <1>5


(* The walk, one link at a time.                                           *)
Walks(par, w) ==
    \A n \in Nat, f \in FrameId :
        /\ w[0][f] = f
        /\ w[n + 1][f] = IF par[f] = None THEN f ELSE w[n][par[f]]

LEMMA WalkStep ==
    ASSUME NEW par \in [FrameId -> FrameId \cup {None}], NEW w, Follows(par, w)
    PROVE  Walks(par, w)
<1> SUFFICES ASSUME NEW n \in Nat, NEW f \in FrameId
             PROVE  /\ w[0][f] = f
                    /\ w[n + 1][f] = IF par[f] = None THEN f ELSE w[n][par[f]]
  BY DEF Walks
<1>1. ASSUME NEW v
      PROVE  /\ Links(par, v)[0][f] = f
             /\ Links(par, v)[n + 1][f] = IF par[f] = None THEN f ELSE v[n][par[f]]
  BY DEF Links
<1>2. w = Links(par, w)
  BY DEF Follows
<1> QED
  BY <1>1, <1>2

(* The links determine the walk; a step that changes none of them changes  *)
(* no ancestor.                                                            *)
LEMMA WalkIsUnique ==
    ASSUME NEW p \in [FrameId -> FrameId \cup {None}], NEW A, NEW B, Follows(p, A), Follows(p, B),
           NEW n \in Nat, NEW f \in FrameId
    PROVE  B[n][f] = A[n][f]
<1> DEFINE T == {m \in Nat : \E g \in FrameId : B[m][g] # A[m][g]}
<1>1. \A m \in Nat, g \in FrameId :
         /\ A[0][g] = g /\ B[0][g] = g
         /\ A[m + 1][g] = IF p[g] = None THEN g ELSE A[m][p[g]]
         /\ B[m + 1][g] = IF p[g] = None THEN g ELSE B[m][p[g]]
  <2>1. Walks(p, A) /\ Walks(p, B)
    BY WalkStep
  <2> QED
    BY <2>1, Z3T(30) DEF Walks
<1>2. T = {}
  <2> SUFFICES ASSUME T # {} PROVE FALSE
    OBVIOUS
  <2>1. PICK m \in T : \A y \in T : m <= y
    <3>1. T \subseteq Nat
      OBVIOUS
    <3> HIDE DEF T
    <3> QED BY <3>1, Least
  <2>2. PICK g \in FrameId : B[m][g] # A[m][g]
    BY <2>1
  <2>3. m \in Nat /\ m # 0
    BY <1>1, <2>1, <2>2
  <2>4. m - 1 \in Nat /\ (m - 1) + 1 = m /\ ~ (m <= m - 1)
    BY <2>3
  <2>5. \A h \in FrameId : B[m - 1][h] = A[m - 1][h]
    BY <2>1, <2>4
  <2>6. /\ A[m][g] = IF p[g] = None THEN g ELSE A[m - 1][p[g]]
        /\ B[m][g] = IF p[g] = None THEN g ELSE B[m - 1][p[g]]
    <3>1. /\ A[(m - 1) + 1][g] = IF p[g] = None THEN g ELSE A[m - 1][p[g]]
          /\ B[(m - 1) + 1][g] = IF p[g] = None THEN g ELSE B[m - 1][p[g]]
      BY <1>1, <2>4
    <3> QED
      BY <2>4, <3>1
  <2> QED
    BY <2>2, <2>5, <2>6
<1> QED
  BY <1>2

(* What is inductive: the types, owners exactly on live slots, the forest. *)
TreeInv == TreeTypeOK /\ OwnedIffLive /\ Forest

LEMMA OwnerType ==
    ASSUME TreeTypeOK, NEW f \in FrameId
    PROVE  /\ f[1] \in Index /\ f[2] \in 0 .. MaxGeneration
           /\ slots[f[1]] \in FrameSlot
           /\ OwnerOf(f) \in ChannelId \cup {None}
           /\ OwnerOf(f) # None => Resolves(f)
  BY DEF TreeTypeOK, FrameId, FrameSlot, OwnerOf

LEMMA AncestorSteps ==
    ASSUME TreeTypeOK
    PROVE  Walks(Parents, AncestorAt)
  BY AncestorWalk, WalkStep

(* Every ancestor of a frame that resolves is a frame that resolves.       *)
LEMMA AncestorsResolve ==
    ASSUME TreeInv, NEW n \in Nat, NEW f \in FrameId, Resolves(f)
    PROVE  AncestorAt[n][f] \in FrameId /\ Resolves(AncestorAt[n][f])
<1> DEFINE Good(m) == \A g \in FrameId : Resolves(g) =>
                         AncestorAt[m][g] \in FrameId /\ Resolves(AncestorAt[m][g])
           T == {m \in Nat : ~ Good(m)}
<1>0. \A m \in Nat, g \in FrameId :
         /\ AncestorAt[0][g] = g
         /\ AncestorAt[m + 1][g] =
               IF Parents[g] = None THEN g ELSE AncestorAt[m][Parents[g]]
  BY AncestorSteps DEF TreeInv, Walks
<1>1. \A g \in FrameId : Resolves(g) /\ Parents[g] # None =>
         Parents[g] \in FrameId /\ Resolves(Parents[g])
  BY OwnerType DEF TreeInv, Forest, Parents, ParentOf, Resolves, LiveFrame, FrameSlot
<1>2. T = {}
  <2> SUFFICES ASSUME T # {} PROVE FALSE
    OBVIOUS
  <2>1. PICK m \in T : \A y \in T : m <= y
    <3>1. T \subseteq Nat
      OBVIOUS
    <3> HIDE DEF T
    <3> QED BY <3>1, Least
  <2>2. Good(0)
    BY <1>0
  <2>3. m \in Nat /\ m # 0 /\ ~ Good(m)
    BY <2>2
  <2>4. m - 1 \in Nat /\ (m - 1) + 1 = m /\ ~ (m <= m - 1)
    BY <2>3
  <2>5. Good(m - 1)
    BY <2>1, <2>4
  <2>6. Good(m)
    <3> SUFFICES ASSUME NEW g \in FrameId, Resolves(g)
                 PROVE  AncestorAt[m][g] \in FrameId /\ Resolves(AncestorAt[m][g])
      OBVIOUS
    <3>1. AncestorAt[m][g] =
             IF Parents[g] = None THEN g ELSE AncestorAt[m - 1][Parents[g]]
      <4>1. AncestorAt[(m - 1) + 1][g] =
               IF Parents[g] = None THEN g ELSE AncestorAt[m - 1][Parents[g]]
        BY <1>0, <2>4
      <4> QED
        BY <2>4, <4>1
    <3> QED
      BY <1>1, <2>5, <3>1
  <2> QED
    BY <2>3, <2>6
<1>3. Good(n)
  BY <1>2
<1> QED
  BY <1>3

LEMMA SameAncestors ==
    ASSUME TreeTypeOK, TreeTypeOK', Parents' = Parents,
           NEW n \in Nat, NEW f \in FrameId
    PROVE  AncestorAt'[n][f] = AncestorAt[n][f]
<1>1. /\ Parents \in [FrameId -> FrameId \cup {None}]
      /\ Follows(Parents, AncestorAt) /\ Follows(Parents, AncestorAt')
  BY AncestorWalk, AncestorWalkNext
<1> QED
  BY <1>1, WalkIsUnique

(* A frame below one that c hosts has a frame of c among its ancestors.    *)
LEMMA BelowOwned ==
    ASSUME TreeInv, NEW c \in ChannelId, NEW f \in FrameId, Resolves(f),
           f[1] \in Descendants(OwnedBy(c))
    PROVE  \E n \in 1 .. MAX_FRAME_DEPTH + 1 :
              AncestorAt[n][f] \in FrameId /\ OwnerOf(AncestorAt[n][f]) = c
<1> DEFINE Of(g, n) == AncestorAt[n][g] \in FrameId /\ OwnerOf(AncestorAt[n][g]) = c
           T == {j \in Index : \A g \in FrameId : g[1] = j /\ Resolves(g) =>
                                  \E n \in 1 .. slots[j].depth : Of(g, n)}
<1>0. \A m \in Nat, g \in FrameId :
         /\ AncestorAt[0][g] = g
         /\ AncestorAt[m + 1][g] =
               IF Parents[g] = None THEN g ELSE AncestorAt[m][Parents[g]]
  BY AncestorSteps DEF TreeInv, Walks
<1>1. ClosedUnderChildren(OwnedBy(c), T)
  <2> SUFFICES ASSUME NEW j \in Index, slots[j].lifecycle # "Free", slots[j].parent # None,
                      Resolves(slots[j].parent), slots[j].parent[1] \in OwnedBy(c) \cup T
               PROVE  j \in T
    BY DEF ClosedUnderChildren
  <2> DEFINE p == slots[j].parent
  <2>1. /\ p \in FrameId /\ slots[p[1]].depth \in Nat
        /\ slots[j].depth = slots[p[1]].depth + 1
    <3>1. slots[j] \in FrameSlot /\ p \in FrameId
      BY DEF TreeInv, TreeTypeOK, FrameSlot
    <3>2. slots[p[1]] \in FrameSlot
      BY <3>1, OwnerType DEF TreeInv
    <3>3. slots[j].depth = slots[p[1]].depth + 1
      BY DEF TreeInv, Forest
    <3>4. slots[p[1]].depth \in Nat
      BY <3>2, TreeAssumption DEF FrameSlot
    <3> QED
      BY <3>1, <3>3, <3>4
  <2>2. ASSUME NEW g \in FrameId, g[1] = j, Resolves(g)
        PROVE  \E n \in 1 .. slots[j].depth : Of(g, n)
    <3>1. Parents[g] = p
      BY <2>2 DEF Parents, ParentOf
    <3>2. \A m \in Nat : AncestorAt[m + 1][g] = AncestorAt[m][p]
      BY <1>0, <3>1
    <3>3. CASE p[1] \in OwnedBy(c)
      <4>1. OwnerOf(p) = c
        BY <3>3 DEF OwnedBy, OwnerOf
      <4>2. AncestorAt[1][g] = p
        <5>1. AncestorAt[0 + 1][g] = AncestorAt[0][p]
          BY <3>2
        <5>2. AncestorAt[0][p] = p
          BY <1>0, <2>1
        <5> QED
          BY <5>1, <5>2
      <4>3. Of(g, 1) /\ 1 \in 1 .. slots[j].depth
        BY <2>1, <4>1, <4>2
      <4> QED
        BY <4>3
    <3>4. CASE p[1] \in T
      <4>1. PICK n \in 1 .. slots[p[1]].depth : Of(p, n)
        BY <2>1, <3>4
      <4>2. n \in Nat /\ n + 1 \in 1 .. slots[j].depth
        BY <2>1
      <4>3. Of(g, n + 1)
        BY <3>2, <4>1, <4>2
      <4> QED
        BY <4>2, <4>3
    <3> QED
      BY <3>3, <3>4
  <2> QED
    BY <2>2
<1>2. f[1] \in T
  <2>1. T \in SUBSET Index
    OBVIOUS
  <2> HIDE DEF T
  <2> QED
    BY <1>1, <2>1 DEF Descendants
<1>3. PICK n \in 1 .. slots[f[1]].depth : Of(f, n)
  BY <1>2
<1>4. n \in 1 .. MAX_FRAME_DEPTH + 1
  <2>1. slots[f[1]].depth \in 0 .. MAX_FRAME_DEPTH
    BY OwnerType DEF TreeInv, FrameSlot
  <2> QED
    BY <2>1, TreeAssumption
<1> QED
  BY <1>3, <1>4

(* A step that changes neither handles nor links changes no parent.        *)
LEMMA SameParents ==
    ASSUME \A i \in Index : /\ slots'[i].parent = slots[i].parent
                            /\ slots'[i].lifecycle = slots[i].lifecycle
                            /\ slots'[i].generation = slots[i].generation
    PROVE  Parents' = Parents /\ \A g \in FrameId : ParentOf(g)' = ParentOf(g)
<1>1. ASSUME NEW g \in FrameId
      PROVE  ParentOf(g)' = ParentOf(g)
  <2>1. g[1] \in Index
    BY DEF FrameId
  <2> QED
    BY <2>1 DEF ParentOf, Resolves
<1> QED
  BY <1>1 DEF Parents

-----------------------------------------------------------------------------
(* The tree. *)

USE IdentifierAssumption, TreeAssumption, FrameAssumption

(* The slots a step of the tree may produce, and no others: an operation   *)
(* takes a free slot, or changes a used one without touching its place.    *)
LEMMA NewSlotType ==
    ASSUME TreeTypeOK,
           NEW i \in Reusable, NEW c \in ChannelId,
           NEW p \in FrameId \cup {None}, NEW d \in 0 .. MAX_FRAME_DEPTH,
           NEW o \in Ordinal \cup {None}, NEW g \in GroupId
    PROVE  NewSlot(i, c, p, d, o, g) \in FrameSlot
  BY DEF TreeTypeOK, Reusable, NewSlot, FrameSlot, Index

LEMMA UpdatedSlotType ==
    ASSUME NEW s \in FrameSlot
    PROVE  /\ Freed(s) \in FrameSlot
           /\ Crashed(s) \in FrameSlot
           /\ Retired(s) \in FrameSlot
           /\ \A o \in Origin : [s EXCEPT !.origin = o] \in FrameSlot
           /\ \A c \in ChannelId : [s EXCEPT !.owner = c] \in FrameSlot
  BY DEF FrameSlot, Freed, Crashed, Retired

LEMMA AllocType ==
    ASSUME TreeTypeOK, NEW i \in Index, NEW s \in FrameSlot, Alloc(i, s)
    PROVE  slots' \in [Index -> FrameSlot]
  BY UpdatedSlotType DEF TreeTypeOK, Alloc

LEMMA AllocFailsType ==
    ASSUME TreeTypeOK, AllocFails
    PROVE  slots' \in [Index -> FrameSlot]
  BY UpdatedSlotType DEF TreeTypeOK, AllocFails

LEMMA FreeType ==
    ASSUME TreeTypeOK, NEW R, FreeWithDescendants(R)
    PROVE  TreeTypeOK'
  BY UpdatedSlotType DEF TreeTypeOK, FreeWithDescendants

LEMMA TreeTypeStep ==
    ASSUME TreeTypeOK, [TreeNext]_treeVars
    PROVE  TreeTypeOK'
<1>1. ASSUME NEW c \in ChannelId, NEW i \in Index, Create(c, i)
      PROVE  TreeTypeOK'
  <2>1. next_group \in GroupId
    BY <1>1 DEF Create, TreeTypeOK, GroupId
  <2>2. NewSlot(i, c, None, 0, None, next_group) \in FrameSlot
    BY <1>1, <2>1, NewSlotType DEF Create, Alloc, FirstReusable
  <2> QED
    BY <1>1, <2>2, AllocType DEF Create, TreeTypeOK
<1>2. ASSUME CreateFull PROVE TreeTypeOK'
  BY <1>2, AllocFailsType DEF CreateFull, TreeTypeOK
<1>3. ASSUME NEW c \in ChannelId, NEW p \in FrameId, NEW o \in Ordinal,
             NEW i \in Index, CreateChild(c, p, o, i)
      PROVE  TreeTypeOK'
  <2>1. slots[p[1]] \in FrameSlot
    BY DEF TreeTypeOK, FrameId
  <2>2. slots[p[1]].depth + 1 \in 0 .. MAX_FRAME_DEPTH
    BY <1>3, <2>1 DEF CreateChild, MayCreateChild, TooDeep, FrameSlot
  <2>3. slots[p[1]].group \in GroupId
    BY <2>1 DEF FrameSlot
  <2>4. NewSlot(i, c, p, slots[p[1]].depth + 1, o, slots[p[1]].group)
            \in FrameSlot
    BY <1>3, <2>2, <2>3, NewSlotType DEF CreateChild, Alloc, FirstReusable
  <2> QED
    BY <1>3, <2>4, AllocType DEF CreateChild, TreeTypeOK
<1>4. ASSUME NEW c \in ChannelId, NEW p \in FrameId, NEW o \in Ordinal,
             CreateChildFull(c, p, o)
      PROVE  TreeTypeOK'
  BY <1>4, AllocFailsType DEF CreateChildFull, TreeTypeOK
<1>5. ASSUME NEW c \in ChannelId, NEW f \in FrameId, Destroy(c, f)
      PROVE  TreeTypeOK'
  BY <1>5, FreeType DEF Destroy
<1>6. ASSUME NEW f \in FrameId, NEW o \in Origin, CommitOrigin(f, o)
      PROVE  TreeTypeOK'
  BY <1>6, UpdatedSlotType DEF CommitOrigin, TreeTypeOK, FrameId
<1>7. ASSUME NEW f \in FrameId, NEW c \in ChannelId, NEW d \in ChannelId,
             TransferOwner(f, c, d)
      PROVE  TreeTypeOK'
  BY <1>7, UpdatedSlotType DEF TransferOwner, TreeTypeOK, FrameId
<1>8. ASSUME NEW c \in ChannelId, ReleaseAll(c) PROVE TreeTypeOK'
  BY <1>8, FreeType DEF ReleaseAll
<1>9. ASSUME NEW c \in ChannelId, CrashChannel(c) PROVE TreeTypeOK'
  BY <1>9, UpdatedSlotType DEF CrashChannel, TreeTypeOK
<1>10. ASSUME UNCHANGED treeVars PROVE TreeTypeOK'
  BY <1>10 DEF treeVars, TreeTypeOK
<1> QED
  BY <1>1, <1>2, <1>3, <1>4, <1>5, <1>6, <1>7, <1>8, <1>9, <1>10 DEF TreeNext

(* Every slot keeps its type: no generation, depth or group ever leaves    *)
(* the range of its integer type in alloc and create_child.                *)
THEOREM TreeTypeCorrect == TreeSpec => []TreeTypeOK
<1>1. TreeInit => TreeTypeOK
  BY DEF TreeInit, TreeTypeOK, Ungrown, FrameSlot, GroupId
<1>2. TreeTypeOK /\ [TreeNext]_treeVars => TreeTypeOK'
  BY TreeTypeStep
<1> QED
  BY <1>1, <1>2, PTL DEF TreeSpec
-----------------------------------------------------------------------------
(* Descendants is closed under children: the loop of descendants() stops   *)
(* only when nothing is left to add.                                       *)
LEMMA DescendantsClosed ==
    ASSUME NEW seed
    PROVE  ClosedUnderChildren(seed, Descendants(seed))
<1> SUFFICES ASSUME NEW i \in Index,
                    slots[i].lifecycle # "Free",
                    slots[i].parent # None,
                    Resolves(slots[i].parent),
                    slots[i].parent[1] \in seed \cup Descendants(seed),
                    NEW S \in SUBSET Index, ClosedUnderChildren(seed, S)
             PROVE  i \in S
  BY DEF ClosedUnderChildren, Descendants
<1>1. slots[i].parent[1] \in seed \cup S
  BY DEF Descendants
<1> QED
  BY <1>1 DEF ClosedUnderChildren

(* A step that leaves the place and the lifecycle of every slot alone      *)
(* leaves the forest alone.                                                *)
LEMMA SamePlaces ==
    ASSUME TreeInv, slots' \in [Index -> FrameSlot],
           \A i \in Index :
              /\ slots'[i].generation = slots[i].generation
              /\ slots'[i].lifecycle = slots[i].lifecycle
              /\ slots'[i].parent = slots[i].parent
              /\ slots'[i].depth = slots[i].depth
              /\ slots'[i].group = slots[i].group
    PROVE  Forest'
  BY DEF TreeInv, TreeTypeOK, Forest, LiveFrame, Resolves, FrameSlot, FrameId

(* Taking a free slot keeps the forest if the new frame fits into it.      *)
LEMMA AllocForest ==
    ASSUME TreeInv, NEW i \in Index, NEW s \in FrameSlot, Alloc(i, s),
           s.lifecycle = "Live", s.owner # None,
           IF s.parent = None THEN s.depth = 0
           ELSE /\ LiveFrame(s.parent)
                /\ s.depth = slots[s.parent[1]].depth + 1
                /\ s.group = slots[s.parent[1]].group
    PROVE  OwnedIffLive' /\ Forest'
<1>1. slots[i].lifecycle = "Free" /\ slots'[i] = s
  BY DEF Alloc, FirstReusable, Reusable
<1>2. \A j \in Index \ {i} :
         /\ slots'[j].generation = slots[j].generation
         /\ slots'[j].lifecycle = slots[j].lifecycle
         /\ slots'[j].owner = slots[j].owner
         /\ slots'[j].parent = slots[j].parent
         /\ slots'[j].depth = slots[j].depth
         /\ slots'[j].group = slots[j].group
  BY DEF Alloc, Retired, TreeInv, TreeTypeOK, FrameSlot
<1>3. \A p \in FrameId : LiveFrame(p) =>
         /\ p[1] # i /\ p[1] \in Index
         /\ slots'[p[1]].generation = p[2]
         /\ slots'[p[1]].lifecycle = "Live"
         /\ slots'[p[1]].depth = slots[p[1]].depth
         /\ slots'[p[1]].group = slots[p[1]].group
  BY <1>1, <1>2 DEF LiveFrame, Resolves, FrameId
<1>4. OwnedIffLive'
  BY <1>1, <1>2 DEF OwnedIffLive, TreeInv
<1>5. ASSUME NEW j \in Index, slots'[j].lifecycle # "Free",
             NEW p, p = slots'[j].parent, p # None
      PROVE  /\ slots'[p[1]].generation = p[2]
             /\ slots'[p[1]].lifecycle = "Live"
             /\ slots'[j].depth = slots'[p[1]].depth + 1
             /\ slots'[j].group = slots'[p[1]].group
  <2>1. CASE j = i
    <3>1. p \in FrameId /\ LiveFrame(p)
      BY <1>1, <1>5, <2>1 DEF FrameSlot
    <3> QED
      BY <1>1, <1>3, <1>5, <2>1, <3>1
  <2>2. CASE j # i
    <3>1. p = slots[j].parent /\ slots[j].lifecycle # "Free"
      BY <1>2, <1>5, <2>2
    <3>2. p \in FrameId
      BY <1>5, <3>1 DEF TreeInv, TreeTypeOK, FrameSlot
    <3>3. /\ LiveFrame(p)
          /\ slots[j].depth = slots[p[1]].depth + 1
          /\ slots[j].group = slots[p[1]].group
      BY <1>5, <3>1 DEF TreeInv, Forest
    <3> QED
      BY <1>2, <1>3, <2>2, <3>2, <3>3
  <2> QED
    BY <2>1, <2>2
<1>6. ASSUME NEW j \in Index, slots'[j].lifecycle # "Free",
             slots'[j].parent = None
      PROVE  slots'[j].depth = 0
  BY <1>1, <1>2, <1>6 DEF TreeInv, Forest
<1>7. Forest'
  BY <1>5, <1>6 DEF Forest, LiveFrame, Resolves
<1> QED
  BY <1>4, <1>7

LEMMA AllocFailsForest ==
    ASSUME TreeInv, AllocFails
    PROVE  OwnedIffLive' /\ Forest'
<1>1. slots' \in [Index -> FrameSlot]
  BY AllocFailsType DEF TreeInv
<1>2. \A j \in Index :
         /\ slots'[j].generation = slots[j].generation
         /\ slots'[j].lifecycle = slots[j].lifecycle
         /\ slots'[j].owner = slots[j].owner
         /\ slots'[j].parent = slots[j].parent
         /\ slots'[j].depth = slots[j].depth
         /\ slots'[j].group = slots[j].group
  BY DEF AllocFails, Retired, TreeInv, TreeTypeOK, FrameSlot
<1> QED
  BY <1>1, <1>2, SamePlaces DEF OwnedIffLive, TreeInv

LEMMA RemovedFields ==
    ASSUME NEW s \in FrameSlot
    PROVE  /\ Freed(s).lifecycle = "Free"
           /\ Crashed(s).parent = s.parent
           /\ Crashed(s).depth = s.depth
           /\ Crashed(s).group = s.group
  BY DEF FrameSlot, Freed, Crashed

(* Changing a set of slots that holds the children of all its members, by  *)
(* freeing some and crashing others, keeps the forest.                     *)
LEMMA RemovalForest ==
    ASSUME TreeInv, NEW D \in SUBSET Index, NEW C \in SUBSET Index,
           \A i \in C : slots[i].lifecycle = "Live",
           \A i \in Index : slots'[i] = IF i \in D THEN Freed(slots[i])
                                        ELSE IF i \in C THEN Crashed(slots[i])
                                        ELSE slots[i],
           \A i \in Index \ D :
              /\ slots[i].lifecycle # "Free"
              /\ slots[i].parent # None
              => slots[i].parent[1] \notin D \cup C
    PROVE  OwnedIffLive' /\ Forest'
<1>1. ASSUME NEW i \in Index
      PROVE  (slots'[i].lifecycle = "Live") <=> (slots'[i].owner # None)
  <2>1. /\ slots[i] \in FrameSlot
        /\ (slots[i].lifecycle = "Live") <=> (slots[i].owner # None)
    BY DEF TreeInv, TreeTypeOK, OwnedIffLive
  <2>2. /\ Freed(slots[i]).lifecycle = "Free" /\ Freed(slots[i]).owner = None
        /\ Crashed(slots[i]).lifecycle = "Crashed" /\ Crashed(slots[i]).owner = None
    BY <2>1 DEF FrameSlot, Freed, Crashed
  <2>3. CASE i \in D
    BY <2>2, <2>3
  <2>4. CASE i \notin D /\ i \in C
    BY <2>2, <2>4
  <2>5. CASE i \notin D /\ i \notin C
    BY <2>1, <2>5
  <2> QED
    BY <2>3, <2>4, <2>5
<1>6. OwnedIffLive'
  BY <1>1 DEF OwnedIffLive
<1>2. ASSUME NEW i \in Index, slots'[i].lifecycle # "Free"
      PROVE  /\ i \notin D /\ slots[i].lifecycle # "Free"
             /\ slots'[i].parent = slots[i].parent
             /\ slots'[i].depth = slots[i].depth
             /\ slots'[i].group = slots[i].group
  <2>1. /\ Freed(slots[i]).lifecycle = "Free"
        /\ Crashed(slots[i]).parent = slots[i].parent
        /\ Crashed(slots[i]).depth = slots[i].depth
        /\ Crashed(slots[i]).group = slots[i].group
    BY RemovedFields DEF TreeInv, TreeTypeOK
  <2>2. i \notin D
    BY <1>2, <2>1
  <2>3. CASE i \in C
    BY <2>1, <2>2, <2>3
  <2>4. CASE i \notin C
    BY <1>2, <2>2, <2>4
  <2> QED
    BY <2>3, <2>4
<1>3. ASSUME NEW i \in Index, slots'[i].lifecycle # "Free",
             NEW p, p = slots'[i].parent, p # None
      PROVE  /\ slots'[p[1]].generation = p[2]
             /\ slots'[p[1]].lifecycle = "Live"
             /\ slots'[i].depth = slots'[p[1]].depth + 1
             /\ slots'[i].group = slots'[p[1]].group
  <2>1. p = slots[i].parent /\ slots[i].lifecycle # "Free" /\ i \notin D
    BY <1>2, <1>3
  <2>2. p[1] \in Index /\ p[1] \notin D \cup C
    BY <1>3, <2>1 DEF TreeInv, TreeTypeOK, FrameSlot, FrameId
  <2>3. slots'[p[1]] = slots[p[1]]
    BY <2>2
  <2>4. /\ LiveFrame(p)
        /\ slots[i].depth = slots[p[1]].depth + 1
        /\ slots[i].group = slots[p[1]].group
    BY <1>3, <2>1 DEF TreeInv, Forest
  <2> QED
    BY <1>2, <1>3, <2>3, <2>4 DEF LiveFrame, Resolves
<1>4. ASSUME NEW i \in Index, slots'[i].lifecycle # "Free",
             slots'[i].parent = None
      PROVE  slots'[i].depth = 0
  BY <1>2, <1>4 DEF TreeInv, Forest
<1>5. Forest'
  BY <1>3, <1>4 DEF Forest, LiveFrame, Resolves
<1> QED
  BY <1>5, <1>6

LEMMA FreeForest ==
    ASSUME TreeInv, NEW R \in SUBSET Index, FreeWithDescendants(R)
    PROVE  OwnedIffLive' /\ Forest'
<1> DEFINE D == R \cup Descendants(R)
<1>1. D \in SUBSET Index
  BY DEF Descendants
<1>2. \A i \in Index : slots'[i] = IF i \in D THEN Freed(slots[i])
                                   ELSE IF i \in {} THEN Crashed(slots[i])
                                   ELSE slots[i]
  BY DEF FreeWithDescendants
<1>3. \A i \in Index \ D :
         slots[i].lifecycle # "Free" /\ slots[i].parent # None
         => slots[i].parent[1] \notin D \cup {}
  BY DescendantsClosed DEF ClosedUnderChildren, TreeInv, Forest, LiveFrame
<1> HIDE DEF D
<1>4. {} \in SUBSET Index /\ \A i \in {} : slots[i].lifecycle = "Live"
  OBVIOUS
<1> QED
  BY <1>1, <1>2, <1>3, <1>4, RemovalForest

LEMMA CrashForest ==
    ASSUME TreeInv, NEW c \in ChannelId, CrashChannel(c)
    PROVE  OwnedIffLive' /\ Forest'
<1> DEFINE R == OwnedBy(c)
           D == Descendants(R)
<1>1. /\ D \in SUBSET Index /\ R \in SUBSET Index
      /\ \A i \in R : slots[i].lifecycle = "Live"
  BY DEF Descendants, OwnedBy
<1>2. \A i \in Index : slots'[i] = IF i \in D THEN Freed(slots[i])
                                   ELSE IF i \in R THEN Crashed(slots[i])
                                   ELSE slots[i]
  BY DEF CrashChannel
<1>3. \A i \in Index \ D :
         slots[i].lifecycle # "Free" /\ slots[i].parent # None
         => slots[i].parent[1] \notin D \cup R
  BY DescendantsClosed DEF ClosedUnderChildren, TreeInv, Forest, LiveFrame
<1> QED
  BY <1>1, <1>2, <1>3, RemovalForest

LEMMA TreeInvStep ==
    ASSUME TreeInv, [TreeNext]_treeVars
    PROVE  TreeInv'
<1> USE DEF TreeInv
<1>0. TreeTypeOK'
  BY TreeTypeStep
<1>1. ASSUME NEW c \in ChannelId, NEW i \in Index, Create(c, i)
      PROVE  TreeInv'
  <2> DEFINE s == NewSlot(i, c, None, 0, None, next_group)
  <2>1. s \in FrameSlot
    BY <1>1, NewSlotType DEF Create, Alloc, FirstReusable, TreeTypeOK, GroupId
  <2>2. s.lifecycle = "Live" /\ s.owner # None /\ s.parent = None /\ s.depth = 0
    BY DEF NewSlot, ChannelId
  <2>3. Alloc(i, s)
    BY <1>1 DEF Create
  <2> HIDE DEF s
  <2> QED
    BY <1>0, <2>1, <2>2, <2>3, AllocForest
<1>2. ASSUME CreateFull PROVE TreeInv'
  BY <1>0, <1>2, AllocFailsForest DEF CreateFull
<1>3. ASSUME NEW c \in ChannelId, NEW p \in FrameId, NEW o \in Ordinal,
             NEW i \in Index, CreateChild(c, p, o, i)
      PROVE  TreeInv'
  <2> DEFINE q == slots[p[1]]
             s == NewSlot(i, c, p, q.depth + 1, o, q.group)
  <2>1. q \in FrameSlot
    BY DEF TreeTypeOK, FrameId
  <2>2. q.depth + 1 \in 0 .. MAX_FRAME_DEPTH /\ q.group \in GroupId
    BY <1>3, <2>1 DEF CreateChild, MayCreateChild, TooDeep, FrameSlot
  <2>3. s \in FrameSlot
    BY <1>3, <2>2, NewSlotType DEF CreateChild, Alloc, FirstReusable
  <2>4. /\ s.lifecycle = "Live" /\ s.owner # None /\ s.parent = p /\ p # None
        /\ s.depth = q.depth + 1 /\ s.group = q.group
    BY DEF NewSlot, ChannelId
  <2>5. Alloc(i, s) /\ LiveFrame(p)
    BY <1>3 DEF CreateChild, MayCreateChild, NoParent
  <2> HIDE DEF s
  <2> QED
    BY <1>0, <2>3, <2>4, <2>5, AllocForest
<1>4. ASSUME NEW c \in ChannelId, NEW p \in FrameId, NEW o \in Ordinal,
             CreateChildFull(c, p, o)
      PROVE  TreeInv'
  BY <1>0, <1>4, AllocFailsForest DEF CreateChildFull
<1>5. ASSUME NEW c \in ChannelId, NEW f \in FrameId, Destroy(c, f)
      PROVE  TreeInv'
  BY <1>0, <1>5, FreeForest DEF Destroy, FrameId
<1>6. ASSUME NEW f \in FrameId, NEW o \in Origin, CommitOrigin(f, o)
      PROVE  TreeInv'
  <2>1. \A j \in Index :
           /\ slots'[j].generation = slots[j].generation
           /\ slots'[j].lifecycle = slots[j].lifecycle
           /\ slots'[j].owner = slots[j].owner
           /\ slots'[j].parent = slots[j].parent
           /\ slots'[j].depth = slots[j].depth
           /\ slots'[j].group = slots[j].group
    BY <1>6 DEF CommitOrigin, TreeTypeOK, FrameSlot, FrameId
  <2> QED
    BY <1>0, <2>1, SamePlaces DEF OwnedIffLive, TreeTypeOK
<1>7. ASSUME NEW f \in FrameId, NEW c \in ChannelId, NEW d \in ChannelId,
             TransferOwner(f, c, d)
      PROVE  TreeInv'
  <2>1. \A j \in Index :
           /\ slots'[j].generation = slots[j].generation
           /\ slots'[j].lifecycle = slots[j].lifecycle
           /\ slots'[j].parent = slots[j].parent
           /\ slots'[j].depth = slots[j].depth
           /\ slots'[j].group = slots[j].group
    BY <1>7 DEF TransferOwner, TreeTypeOK, FrameSlot, FrameId
  <2>2. \A j \in Index : IF j = f[1] THEN slots'[j].owner = d
                         ELSE slots'[j].owner = slots[j].owner
    BY <1>7 DEF TransferOwner, TreeTypeOK, FrameSlot, FrameId
  <2>3. OwnedIffLive'
    BY <1>7, <2>1, <2>2 DEF OwnedIffLive, TransferOwner, LiveFrame, ChannelId,
       FrameId
  <2> QED
    BY <1>0, <2>1, <2>3, SamePlaces DEF TreeTypeOK
<1>8. ASSUME NEW c \in ChannelId, ReleaseAll(c) PROVE TreeInv'
  <2>1. OwnedBy(c) \in SUBSET Index
    BY DEF OwnedBy
  <2> QED
    BY <1>0, <1>8, <2>1, FreeForest DEF ReleaseAll
<1>9. ASSUME NEW c \in ChannelId, CrashChannel(c) PROVE TreeInv'
  BY <1>0, <1>9, CrashForest
<1>10. ASSUME UNCHANGED treeVars PROVE TreeInv'
  BY <1>0, <1>10, SamePlaces DEF treeVars, OwnedIffLive, TreeTypeOK
<1> QED
  BY <1>1, <1>2, <1>3, <1>4, <1>5, <1>6, <1>7, <1>8, <1>9, <1>10 DEF TreeNext

LEMMA TreeInvCorrect == TreeSpec => []TreeInv
<1>1. TreeInit => TreeInv
  BY DEF TreeInit, TreeInv, TreeTypeOK, Ungrown, FrameSlot, GroupId,
     OwnedIffLive, Forest
<1>2. TreeInv /\ [TreeNext]_treeVars => TreeInv'
  BY TreeInvStep
<1> QED
  BY <1>1, <1>2, PTL DEF TreeSpec

(* The parent links form a forest of live inner nodes in every run of the  *)
(* tree: no create, destroy, release, crash or transfer orphans a frame.   *)
THEOREM ForestCorrect == TreeSpec => []Forest
  BY TreeInvCorrect, PTL DEF TreeInv

(* An owner is recorded exactly while a frame is live.                     *)
THEOREM OwnedIffLiveCorrect == TreeSpec => []OwnedIffLive
  BY TreeInvCorrect, PTL DEF TreeInv
-----------------------------------------------------------------------------
(* What a step may do to one slot: take it while it is free, at the next   *)
(* generation; or keep its generation, not bring it back, and not move it  *)
(* unless it is freed.                                                     *)
SlotStep(old, new) ==
    \/ old.lifecycle = "Free" /\ new.generation = old.generation + 1
    \/ /\ new.generation = old.generation
       /\ old.lifecycle = "Free" => new.lifecycle = "Free"
       /\ new.lifecycle # "Free" => Place(new) = Place(old)

LEMMA SlotUpdates ==
    ASSUME NEW s \in FrameSlot
    PROVE  /\ SlotStep(s, s)
           /\ SlotStep(s, Retired(s))
           /\ SlotStep(s, Freed(s))
           /\ s.lifecycle = "Live" => SlotStep(s, Crashed(s))
  BY DEF FrameSlot, SlotStep, Place, Retired, Freed, Crashed

LEMMA AllocSlots ==
    ASSUME TreeTypeOK, NEW i \in Index, NEW s, Alloc(i, s),
           s.generation = slots[i].generation + 1
    PROVE  \A j \in Index : SlotStep(slots[j], slots'[j])
<1>1. slots[i].lifecycle = "Free" /\ slots'[i] = s
  BY DEF Alloc, FirstReusable, Reusable
<1>2. \A j \in Index \ {i} : slots'[j] \in {slots[j], Retired(slots[j])}
  BY DEF Alloc
<1>3. SlotStep(slots[i], slots'[i])
  BY <1>1 DEF SlotStep
<1> QED
  BY <1>2, <1>3, SlotUpdates DEF TreeTypeOK

LEMMA EverySlotSteps ==
    ASSUME TreeTypeOK, [TreeNext]_treeVars
    PROVE  \A j \in Index : SlotStep(slots[j], slots'[j])
<1> DEFINE Goal == \A j \in Index : SlotStep(slots[j], slots'[j])
<1> \A j \in Index : slots[j] \in FrameSlot
  BY DEF TreeTypeOK
<1>1. ASSUME NEW c \in ChannelId, NEW i \in Index, Create(c, i) PROVE Goal
  BY <1>1, AllocSlots DEF Create, NewSlot
<1>2. ASSUME AllocFails PROVE Goal
  BY <1>2, SlotUpdates DEF AllocFails
<1>3. ASSUME NEW c \in ChannelId, NEW p \in FrameId, NEW o \in Ordinal,
             NEW i \in Index, CreateChild(c, p, o, i)
      PROVE  Goal
  BY <1>3, AllocSlots DEF CreateChild, NewSlot
<1>4. ASSUME NEW R, FreeWithDescendants(R) PROVE Goal
  BY <1>4, SlotUpdates DEF FreeWithDescendants
<1>5. ASSUME NEW f \in FrameId, NEW o \in Origin, CommitOrigin(f, o) PROVE Goal
  <2>1. \A j \in Index :
           \/ slots'[j] = slots[j]
           \/ /\ slots'[j].generation = slots[j].generation
              /\ slots'[j].lifecycle = slots[j].lifecycle
              /\ Place(slots'[j]) = Place(slots[j])
    BY <1>5 DEF CommitOrigin, TreeTypeOK, FrameSlot, Place
  <2> QED
    BY <2>1 DEF SlotStep
<1>6. ASSUME NEW f \in FrameId, NEW c \in ChannelId, NEW d \in ChannelId,
             TransferOwner(f, c, d)
      PROVE  Goal
  <2>1. \A j \in Index :
           \/ slots'[j] = slots[j]
           \/ /\ slots'[j].generation = slots[j].generation
              /\ slots'[j].lifecycle = slots[j].lifecycle
              /\ Place(slots'[j]) = Place(slots[j])
    BY <1>6 DEF TransferOwner, TreeTypeOK, FrameSlot, Place
  <2> QED
    BY <2>1 DEF SlotStep
<1>7. ASSUME NEW c \in ChannelId, CrashChannel(c) PROVE Goal
  BY <1>7, SlotUpdates DEF CrashChannel, OwnedBy
<1>8. ASSUME UNCHANGED treeVars PROVE Goal
  BY <1>8, SlotUpdates DEF treeVars
<1> QED
  BY <1>1, <1>2, <1>3, <1>4, <1>5, <1>6, <1>7, <1>8
     DEF TreeNext, CreateFull, CreateChildFull, Destroy, ReleaseAll

(* A handle whose frame is gone never resolves again, for every number of  *)
(* reuses of its slot: reuse takes a new generation and the last           *)
(* generation is never reused.                                             *)
THEOREM DeadHandlesStayDeadCorrect == TreeSpec => DeadHandlesStayDead
<1>1. ASSUME TreeTypeOK, [TreeNext]_treeVars, NEW f \in FrameId, Dead(f)
      PROVE  Dead(f)'
  <2>1. /\ f[1] \in Index /\ f[2] \in Int
        /\ slots[f[1]] \in FrameSlot
        /\ slots[f[1]].generation \in Int
    BY <1>1 DEF FrameId, TreeTypeOK, FrameSlot
  <2>2. SlotStep(slots[f[1]], slots'[f[1]])
    BY <1>1, <2>1, EverySlotSteps
  <2> QED
    BY <1>1, <2>1, <2>2 DEF Dead, Minted, Resolves, SlotStep
<1>2. TreeTypeOK /\ [TreeNext]_treeVars
      => [\A f \in FrameId : Dead(f) => Dead(f)']_treeVars
  BY <1>1
<1> QED
  BY <1>2, TreeTypeCorrect, PTL DEF TreeSpec, DeadHandlesStayDead

(* A frame never moves: its parent, depth, ordinal and group are fixed     *)
(* from create to free, through crash, commit and owner transfer.          *)
THEOREM PlaceIsStableCorrect == TreeSpec => PlaceIsStable
<1>1. ASSUME TreeTypeOK, [TreeNext]_treeVars, NEW f \in FrameId,
             Resolves(f), Resolves(f)'
      PROVE  Place(slots'[f[1]]) = Place(slots[f[1]])
  <2>1. f[1] \in Index /\ slots[f[1]].generation \in Int
    BY <1>1 DEF FrameId, TreeTypeOK, FrameSlot
  <2>2. SlotStep(slots[f[1]], slots'[f[1]])
    BY <1>1, <2>1, EverySlotSteps
  <2> QED
    BY <1>1, <2>1, <2>2 DEF Resolves, SlotStep
<1>2. TreeTypeOK /\ [TreeNext]_treeVars
      => [\A f \in FrameId : Resolves(f) /\ Resolves(f)' =>
             Place(slots'[f[1]]) = Place(slots[f[1]])]_treeVars
  BY <1>1
<1> QED
  BY <1>2, TreeTypeCorrect, PTL DEF TreeSpec, PlaceIsStable

-----------------------------------------------------------------------------
(* The broker.                                                             *)

USE PoolAssumption, BrokerAssumption

LEMMA NoneIsNoChannel == None \notin ChannelId
  BY DEF ChannelId

(* Every handle outside S keeps its owner and its state.                   *)
HandlesKept(S) ==
    \A g \in FrameId \ S :
        /\ OwnerOf(g)' = OwnerOf(g)
        /\ Resolves(g)' <=> Resolves(g)
        /\ Minted(g)' <=> Minted(g)

(* alloc: the new handle is owned, every other handle is as it was.        *)
LEMMA AllocOwners ==
    ASSUME TreeInv, NEW i \in Index, NEW s \in FrameSlot, Alloc(i, s),
           s.lifecycle = "Live", s.generation = slots[i].generation + 1
    PROVE  /\ <<i, s.generation>> \in FrameId
           /\ slots'[i] = s
           /\ OwnerOf(<<i, s.generation>>)' = s.owner
           /\ Resolves(<<i, s.generation>>)'
           /\ ~ Minted(<<i, s.generation>>) /\ Minted(<<i, s.generation>>)'
           /\ HandlesKept({<<i, s.generation>>})
<1>1. /\ slots[i].lifecycle = "Free" /\ slots'[i] = s
      /\ slots[i].generation < MaxGeneration
  BY DEF Alloc, FirstReusable, Reusable
<1>2. /\ slots[i].generation \in -1 .. MaxGeneration
      /\ <<i, s.generation>> \in FrameId
  BY <1>1 DEF TreeInv, TreeTypeOK, FrameSlot, FrameId
<1>3. \A j \in Index \ {i} :
         /\ slots'[j].generation = slots[j].generation
         /\ slots'[j].lifecycle = slots[j].lifecycle
         /\ slots'[j].owner = slots[j].owner
  BY DEF Alloc, Retired, TreeInv, TreeTypeOK, FrameSlot
<1>4. ASSUME NEW f \in FrameId, f # <<i, s.generation>>
      PROVE  /\ OwnerOf(f)' = OwnerOf(f)
             /\ Resolves(f)' <=> Resolves(f)
             /\ Minted(f)' <=> Minted(f)
  <2>1. f = <<f[1], f[2]>> /\ f[1] \in Index /\ f[2] \in Nat
    BY DEF FrameId
  <2>2. CASE f[1] = i
    BY <1>1, <1>2, <1>4, <2>1, <2>2 DEF OwnerOf, Resolves, Minted
  <2>3. CASE f[1] # i
    BY <1>3, <2>1, <2>3 DEF OwnerOf, Resolves, Minted
  <2> QED
    BY <2>2, <2>3
<1>5. HandlesKept({<<i, s.generation>>})
  BY <1>4 DEF HandlesKept
<1> QED
  BY <1>1, <1>2, <1>5 DEF OwnerOf, Resolves, Minted

LEMMA AllocFailsOwners ==
    ASSUME TreeInv, AllocFails
    PROVE  HandlesKept({})
<1>1. \A j \in Index :
         /\ slots'[j].generation = slots[j].generation
         /\ slots'[j].lifecycle = slots[j].lifecycle
         /\ slots'[j].owner = slots[j].owner
  BY DEF AllocFails, Retired, TreeInv, TreeTypeOK, FrameSlot
<1> QED
  BY <1>1 DEF HandlesKept, OwnerOf, Resolves, Minted, FrameId

(* release_all and crash_channel: every handle of c loses its owner; other *)
(* handles keep theirs or lose it; nothing comes back.                     *)
LEMMA RemovalOwners ==
    ASSUME TreeInv, NEW c \in ChannelId, ReleaseAll(c) \/ CrashChannel(c)
    PROVE  \A f \in FrameId :
              /\ OwnerOf(f)' \in {OwnerOf(f), None} \ {c}
              /\ Resolves(f)' => Resolves(f)
              /\ Minted(f)' <=> Minted(f)
<1> SUFFICES ASSUME NEW f \in FrameId
             PROVE  /\ OwnerOf(f)' \in {OwnerOf(f), None} \ {c}
                    /\ Resolves(f)' => Resolves(f)
                    /\ Minted(f)' <=> Minted(f)
  OBVIOUS
<1> DEFINE s == slots[f[1]]
<1>0. c # None
  BY NoneIsNoChannel
<1>1. f[1] \in Index /\ s \in FrameSlot
  BY OwnerType DEF TreeInv
<1>2. f[1] \in OwnedBy(c) <=> s.lifecycle = "Live" /\ s.owner = c
  BY <1>1 DEF OwnedBy
<1>3. \/ slots'[f[1]] = s /\ f[1] \notin OwnedBy(c)
      \/ slots'[f[1]] = Freed(s)
      \/ slots'[f[1]] = Crashed(s) /\ f[1] \in OwnedBy(c)
  BY <1>1 DEF ReleaseAll, FreeWithDescendants, CrashChannel
<1>4. /\ Freed(s).lifecycle = "Free"
      /\ Freed(s).generation = s.generation
      /\ Crashed(s).generation = s.generation
      /\ Crashed(s).owner = None
  BY <1>1 DEF Freed, Crashed, FrameSlot
<1>5. s.owner = c => s.lifecycle = "Live"
  BY <1>0, <1>1 DEF TreeInv, OwnedIffLive
<1> QED
  BY <1>0, <1>1, <1>2, <1>3, <1>4, <1>5 DEF OwnerOf, Resolves, Minted

(* transfer, with or without a commit of an origin in the same step.       *)
LEMMA MoveOwners ==
    ASSUME TreeInv, NEW f \in FrameId, LiveFrame(f), NEW to \in ChannelId,
           slots' \in [Index -> FrameSlot],
           slots'[f[1]].owner = to,
           slots'[f[1]].lifecycle = slots[f[1]].lifecycle,
           slots'[f[1]].generation = slots[f[1]].generation,
           \A i \in Index \ {f[1]} : slots'[i] = slots[i]
    PROVE  /\ OwnerOf(f)' = to
           /\ Resolves(f)' /\ (Minted(f)' <=> Minted(f))
           /\ HandlesKept({f})
<1>1. ASSUME NEW g \in FrameId
      PROVE  /\ Resolves(g)' <=> Resolves(g)
             /\ Minted(g)' <=> Minted(g)
             /\ g # f => OwnerOf(g)' = OwnerOf(g)
  <2>1. g = <<g[1], g[2]>> /\ g[1] \in Index /\ f = <<f[1], f[2]>>
    BY DEF FrameId
  <2>2. CASE g[1] = f[1]
    BY <2>1, <2>2 DEF OwnerOf, Resolves, LiveFrame, Minted
  <2>3. CASE g[1] # f[1]
    BY <2>1, <2>3 DEF OwnerOf, Resolves, Minted
  <2> QED
    BY <2>2, <2>3
<1> QED
  BY <1>1 DEF HandlesKept, OwnerOf, Resolves, LiveFrame

LEMMA CommitOwners ==
    ASSUME TreeInv, NEW f \in FrameId, NEW o \in Origin, CommitOrigin(f, o)
    PROVE  HandlesKept({})
<1>1. \A j \in Index :
         /\ slots'[j].generation = slots[j].generation
         /\ slots'[j].lifecycle = slots[j].lifecycle
         /\ slots'[j].owner = slots[j].owner
  BY DEF CommitOrigin, TreeInv, TreeTypeOK, FrameSlot, FrameId
<1> QED
  BY <1>1 DEF HandlesKept, OwnerOf, Resolves, Minted, FrameId

-----------------------------------------------------------------------------
(* The kinds of step, as the capability sets and the handles see them.     *)

Keeps == HandlesKept({}) /\ UNCHANGED <<capVars, next_channel>>

Opens ==
    /\ HandlesKept({})
    /\ next_channel < MaxChannel
    /\ open' = open \cup {next_channel}
    /\ next_channel' = next_channel + 1
    /\ UNCHANGED <<hosts, visible>>

Loses(c) ==
    /\ RevokeAndPurge(c)
    /\ \A f \in FrameId :
          /\ OwnerOf(f)' \in {OwnerOf(f), None} \ {c}
          /\ Resolves(f)' => Resolves(f)
          /\ Minted(f)' <=> Minted(f)
    /\ UNCHANGED next_channel

Mints(c, f) ==
    /\ c \in open
    /\ ~ Minted(f) /\ Minted(f)' /\ Resolves(f)'
    /\ OwnerOf(f)' = c
    /\ HandlesKept({f})
    /\ hosts' = [hosts EXCEPT ![c] = @ \cup {f}]
    /\ visible' = [visible EXCEPT ![c] = @ \cup {f}]
    /\ UNCHANGED <<open, next_channel>>

Grants(c, f) ==
    /\ HandlesKept({})
    /\ c \in open
    /\ Resolves(f)
    /\ visible' = [visible EXCEPT ![c] = @ \cup {f}]
    /\ UNCHANGED <<open, hosts, next_channel>>

Transfers(f, to) ==
    /\ to \in open
    /\ OwnerOf(f) \notin {None, to}
    /\ OwnerOf(f)' = to
    /\ Resolves(f)' /\ (Minted(f)' <=> Minted(f))
    /\ HandlesKept({f})
    /\ TransferCaps(f, to)
    /\ UNCHANGED next_channel

Kinds ==
    \/ Keeps
    \/ Opens
    \/ \E c \in ChannelId : Loses(c) /\ (ReleaseAll(c) \/ CrashChannel(c))
    \/ \E c \in ChannelId, f \in FrameId : Mints(c, f)
    \/ \E c \in ChannelId, f \in FrameId : Grants(c, f)
    \/ \E c \in ChannelId, f \in FrameId : Transfers(f, c)

(* A handle just allocated is granted to its channel.                      *)
LEMMA NewHandleMints ==
    ASSUME TypeOK, TreeInv, NEW c \in open, NEW i \in Index,
           NEW s \in FrameSlot, Alloc(i, s), GrantNew(c, i),
           s.lifecycle = "Live", s.generation = slots[i].generation + 1,
           s.owner = c, UNCHANGED next_channel
    PROVE  \E d \in ChannelId, f \in FrameId : Mints(d, f)
<1> DEFINE f == <<i, s.generation>>
<1>1. /\ f \in FrameId /\ slots'[i] = s
      /\ OwnerOf(f)' = c /\ Resolves(f)' /\ ~ Minted(f) /\ Minted(f)'
      /\ HandlesKept({f})
  BY AllocOwners
<1>2. Handle(i)' = f
  BY <1>1 DEF Handle
<1>3. /\ hosts' = [hosts EXCEPT ![c] = @ \cup {f}]
      /\ visible' = [visible EXCEPT ![c] = @ \cup {f}]
      /\ UNCHANGED open
  BY <1>2 DEF GrantNew
<1> HIDE DEF f
<1>4. Mints(c, f)
  BY <1>1, <1>3 DEF Mints
<1> QED
  BY <1>1, <1>4 DEF TypeOK

(* An owner moves, and perhaps an origin is committed in the same step.    *)
LEMMA MoveTransfers ==
    ASSUME TypeOK, TreeInv, NEW f \in FrameId, LiveFrame(f), NEW to \in open,
           OwnerOf(f) # to, TransferCaps(f, to), UNCHANGED next_channel,
           \/ TransferOwner(f, OwnerOf(f), to)
           \/ \E o \in Origin :
                 /\ slots' = [slots EXCEPT ![f[1]].origin = o,
                                           ![f[1]].owner = to]
                 /\ UNCHANGED next_group
    PROVE  TreeInv' /\ Transfers(f, to)
<1>1. to \in ChannelId
  BY DEF TypeOK
<1>2. f[1] \in Index /\ slots[f[1]] \in FrameSlot
  BY OwnerType DEF TreeInv
<1> DEFINE Goal ==
      /\ TreeTypeOK'
      /\ slots'[f[1]].owner = to
      /\ slots'[f[1]].lifecycle = slots[f[1]].lifecycle
      /\ slots'[f[1]].generation = slots[f[1]].generation
      /\ slots'[f[1]].parent = slots[f[1]].parent
      /\ slots'[f[1]].depth = slots[f[1]].depth
      /\ slots'[f[1]].group = slots[f[1]].group
      /\ \A i \in Index \ {f[1]} : slots'[i] = slots[i]
<1>3. Goal
  <2>1. CASE TransferOwner(f, OwnerOf(f), to)
    BY <1>1, <1>2, <2>1 DEF TransferOwner, TreeInv, TreeTypeOK, FrameSlot
  <2>2. ASSUME NEW o \in Origin, UNCHANGED next_group,
               slots' = [slots EXCEPT ![f[1]].origin = o, ![f[1]].owner = to]
        PROVE  Goal
    <3>1. slots' = [slots EXCEPT ![f[1]] =
                       [slots[f[1]] EXCEPT !.origin = o, !.owner = to]]
      BY <1>2, <2>2 DEF TreeInv, TreeTypeOK, FrameSlot
    <3> DEFINE r == [slots[f[1]] EXCEPT !.origin = o, !.owner = to]
    <3>2. /\ r \in FrameSlot
          /\ r.owner = to
          /\ r.lifecycle = slots[f[1]].lifecycle
          /\ r.generation = slots[f[1]].generation
          /\ r.parent = slots[f[1]].parent
          /\ r.depth = slots[f[1]].depth
          /\ r.group = slots[f[1]].group
      BY <1>1, <1>2, <2>2 DEF FrameSlot
    <3>3. slots' = [slots EXCEPT ![f[1]] = r]
      BY <3>1
    <3>4. slots \in [Index -> FrameSlot]
      BY DEF TreeInv, TreeTypeOK
    <3>5. next_group' \in 0 .. MaxGroup
      BY <2>2 DEF TreeInv, TreeTypeOK
    <3> HIDE DEF r
    <3>6. /\ slots' \in [Index -> FrameSlot]
          /\ slots'[f[1]] = r
          /\ \A i \in Index \ {f[1]} : slots'[i] = slots[i]
      BY <1>2, <3>2, <3>3, <3>4
    <3> QED
      BY <3>2, <3>5, <3>6 DEF TreeTypeOK
  <2> QED
    BY <2>1, <2>2
<1>5. Forest'
  BY <1>3, SamePlaces DEF TreeTypeOK
<1>6. OwnedIffLive'
  BY <1>1, <1>2, <1>3, NoneIsNoChannel DEF OwnedIffLive, TreeInv, LiveFrame
<1>7. OwnerOf(f) # None
  BY <1>2, NoneIsNoChannel DEF LiveFrame, OwnerOf, TreeInv, OwnedIffLive
<1>8. /\ OwnerOf(f)' = to /\ Resolves(f)' /\ (Minted(f)' <=> Minted(f))
      /\ HandlesKept({f})
  BY <1>1, <1>3, MoveOwners DEF TreeTypeOK
<1> QED
  BY <1>3, <1>5, <1>6, <1>7, <1>8 DEF TreeInv, Transfers

LEMMA OwnedIsLive ==
    ASSUME TreeInv, NEW f \in FrameId, OwnerOf(f) # None
    PROVE  LiveFrame(f)
  BY OwnerType DEF TreeInv, OwnedIffLive, LiveFrame, OwnerOf

LEMMA SameTree ==
    ASSUME TreeInv, UNCHANGED treeVars
    PROVE  TreeInv' /\ HandlesKept({})
<1>1. TreeInv'
  BY TreeInvStep
<1> QED
  BY <1>1 DEF treeVars, HandlesKept, OwnerOf, Resolves, Minted

(* A commit that records the origin and moves nothing.                     *)
LEMMA CommitKeeps ==
    ASSUME TreeInv, NEW f \in FrameId, NEW o \in Origin, CommitOrigin(f, o),
           UNCHANGED <<capVars, next_channel>>
    PROVE  TreeInv' /\ Keeps
<1>1. TreeInv'
  BY TreeInvStep DEF TreeNext
<1> QED
  BY <1>1, CommitOwners DEF Keeps

LEMMA ClosesLoses ==
    ASSUME TreeInv, NEW c \in ChannelId, ReleaseAll(c) \/ CrashChannel(c),
           RevokeAndPurge(c), UNCHANGED next_channel
    PROVE  TreeInv' /\ Loses(c)
<1>1. TreeInv'
  BY TreeInvStep DEF TreeNext
<1> QED
  BY <1>1, RemovalOwners DEF Loses

(* Every step of the broker keeps the tree's invariant and is of one of    *)
(* the kinds.                                                              *)
LEMMA StepKinds ==
    ASSUME TypeOK, TreeInv, [Next]_vars
    PROVE  TreeInv' /\ Kinds
<1> USE DEF Kinds
<1> \A c \in Issued : c \in ChannelId
  BY DEF TypeOK, Issued, ChannelId
<1>1. CASE OpenChannel
  BY <1>1, SameTree DEF OpenChannel, Opens
<1>2. ASSUME NEW c \in Issued,
             CloseChannel(c) \/ ChannelDied(c) \/ DispatchPanics(c)
      PROVE  TreeInv' /\ Kinds
  <2>1. TreeInv' /\ Loses(c) /\ (ReleaseAll(c) \/ CrashChannel(c))
    BY <1>2, ClosesLoses DEF CloseChannel, ChannelDied, DispatchPanics, Close
  <2> QED
    BY <2>1
<1>3. ASSUME NEW c \in Issued, NEW i \in Index, CreateFrame(c, i)
      PROVE  TreeInv' /\ Kinds
  <2> DEFINE s == NewSlot(i, c, None, 0, None, next_group)
  <2>1. TreeInv'
    BY <1>3, TreeInvStep DEF CreateFrame, TreeNext
  <2>2. Alloc(i, s) /\ i \in Reusable
    BY <1>3 DEF CreateFrame, Create, Alloc, FirstReusable
  <2>3. s \in FrameSlot
    BY <1>3, <2>2, NewSlotType DEF CreateFrame, Create, TreeInv, TreeTypeOK, GroupId
  <2>4. /\ s.lifecycle = "Live" /\ s.generation = slots[i].generation + 1
        /\ s.owner = c
    BY DEF NewSlot
  <2> HIDE DEF s
  <2>5. \E d \in ChannelId, f \in FrameId : Mints(d, f)
    BY <1>3, <2>2, <2>3, <2>4, NewHandleMints DEF CreateFrame
  <2> QED
    BY <2>1, <2>5
<1>4. ASSUME NEW c \in Issued, CreateFrameFull(c) PROVE TreeInv' /\ Kinds
  <2>1. TreeInv'
    BY <1>4, TreeInvStep DEF CreateFrameFull, TreeNext
  <2> QED
    BY <1>4, <2>1, AllocFailsOwners DEF CreateFrameFull, CreateFull, Keeps
<1>5. ASSUME NEW c \in Issued, NEW p \in FrameId, NEW o \in Ordinal,
             NEW i \in Index, CreateChildFrame(c, p, o, i)
      PROVE  TreeInv' /\ Kinds
  <2> DEFINE q == slots[p[1]]
             s == NewSlot(i, c, p, q.depth + 1, o, q.group)
  <2>1. TreeInv'
    BY <1>5, TreeInvStep DEF CreateChildFrame, TreeNext
  <2>2. Alloc(i, s) /\ i \in Reusable
    BY <1>5 DEF CreateChildFrame, CreateChild, Alloc, FirstReusable
  <2>3. q \in FrameSlot
    BY OwnerType DEF TreeInv
  <2>4. q.depth + 1 \in 0 .. MAX_FRAME_DEPTH /\ q.group \in GroupId
    BY <1>5, <2>3 DEF CreateChildFrame, CreateChild, MayCreateChild, TooDeep,
       FrameSlot
  <2>5. s \in FrameSlot
    BY <2>2, <2>4, NewSlotType DEF TreeInv
  <2>6. /\ s.lifecycle = "Live" /\ s.generation = slots[i].generation + 1
        /\ s.owner = c
    BY DEF NewSlot
  <2> HIDE DEF s
  <2>7. \E d \in ChannelId, f \in FrameId : Mints(d, f)
    BY <1>5, <2>2, <2>5, <2>6, NewHandleMints DEF CreateChildFrame, HoldsFrame
  <2> QED
    BY <2>1, <2>7
<1>6. ASSUME NEW c \in Issued, NEW p \in FrameId, NEW o \in Ordinal,
             CreateChildFrameFull(c, p, o)
      PROVE  TreeInv' /\ Kinds
  <2>1. TreeInv'
    BY <1>6, TreeInvStep DEF CreateChildFrameFull, TreeNext
  <2> QED
    BY <1>6, <2>1, AllocFailsOwners
       DEF CreateChildFrameFull, CreateChildFull, Keeps
<1>7. ASSUME NEW c \in Issued, NEW f \in FrameId, GrantVisibility(c, f)
      PROVE  TreeInv' /\ Kinds
  <2>1. Grants(c, f)
    BY <1>7, SameTree, OwnerType DEF GrantVisibility, Grants, TreeInv
  <2> QED
    BY <1>7, <2>1, SameTree DEF GrantVisibility
<1>8. ASSUME NEW f \in FrameId, NEW o \in Origin, CommitDocument(f, o)
      PROVE  TreeInv' /\ Kinds
  <2>1. LiveFrame(f)
    BY <1>8, OwnedIsLive DEF CommitDocument
  <2>2. CASE CommitRefused(f, o)
    BY <2>2, CommitKeeps DEF CommitRefused
  <2>3. ASSUME NEW k \in ProcessKeys, CommitInPlace(f, o, k)
        PROVE  TreeInv' /\ Kinds
    BY <2>3, CommitKeeps DEF CommitInPlace
  <2>4. ASSUME NEW k \in ProcessKeys, CommitTransferred(f, o, k)
        PROVE  TreeInv' /\ Kinds
    <3> DEFINE to == by_key[EntryFor(f, k)]
    <3>1. CASE Moves(f, to)
      <4>1. TreeInv' /\ Transfers(f, to)
        BY <2>1, <2>4, <3>1, MoveTransfers DEF CommitTransferred, Moves
      <4>2. to \in ChannelId
        BY <3>1 DEF Moves, TypeOK
      <4> HIDE DEF to
      <4> QED
        BY <4>1, <4>2
    <3>2. CASE ~ Moves(f, to)
      BY <2>4, <3>2, CommitKeeps DEF CommitTransferred
    <3> QED
      BY <3>1, <3>2
  <2>5. ASSUME NEW k \in ProcessKeys, CommitClaims(f, o, k)
        PROVE  TreeInv' /\ Kinds
    BY <2>5, CommitKeeps DEF CommitClaims
  <2>6. ASSUME NEW k \in ProcessKeys, CommitElsewhere(f, o, k)
        PROVE  TreeInv' /\ Kinds
    BY <2>6, CommitKeeps DEF CommitElsewhere
  <2> QED
    BY <1>8, <2>2, <2>3, <2>4, <2>5, <2>6 DEF CommitDocument
<1>9. ASSUME NEW p \in plans, NEW c \in Issued, AttachProcess(p[1], p[2], c)
      PROVE  TreeInv' /\ Kinds
  <2> DEFINE f == p[1]
  <2>1. f \in FrameId
    BY DEF TypeOK
  <2>2. CASE UNCHANGED <<treeVars, capVars>>
    BY <1>9, <2>2, SameTree DEF AttachProcess, Keeps
  <2>3. CASE /\ c \in open /\ OwnerOf(f) # None /\ Moves(f, c)
             /\ TransferOwner(f, OwnerOf(f), c)
             /\ TransferCaps(f, c)
    <3>1. TreeInv' /\ Transfers(f, c)
      BY <1>9, <2>1, <2>3, OwnedIsLive, MoveTransfers DEF AttachProcess, Moves
    <3> QED
      BY <2>1, <3>1
  <2> QED
    BY <1>9, <2>2, <2>3 DEF AttachProcess
<1>10. ASSUME NEW c \in Issued, RequestDenied(c) PROVE TreeInv' /\ Kinds
  BY <1>10, SameTree DEF RequestDenied, Keeps
<1>11. CASE UNCHANGED vars
  BY <1>11, SameTree DEF vars, Keeps
<1> QED
  BY <1>1, <1>2, <1>3, <1>4, <1>5, <1>6, <1>7, <1>8, <1>9, <1>10, <1>11
     DEF Next

-----------------------------------------------------------------------------
(* The capability sets follow the tree. *)

CapsTypeOK ==
    /\ next_channel \in 0 .. MaxChannel
    /\ open \in SUBSET ChannelId
    /\ hosts \in [ChannelId -> SUBSET FrameId]
    /\ visible \in [ChannelId -> SUBSET FrameId]

CapsInv ==
    /\ CapsTypeOK
    /\ CapsMatchTree
    /\ VisibilityIsCurrent
    /\ open \subseteq Issued

LEMMA CapsStep ==
    ASSUME TreeInv, TreeInv', CapsInv, Kinds
    PROVE  CapsInv'
<1> USE DEF CapsInv
<1> TreeTypeOK /\ TreeTypeOK'
  BY DEF TreeInv
<1>1. CASE Keeps
  BY <1>1 DEF Keeps, capVars, HandlesKept, CapsTypeOK, CapsMatchTree,
     VisibilityIsCurrent, Issued
<1>2. CASE Opens
  <2>1. CapsTypeOK' /\ open' \subseteq Issued'
    BY <1>2 DEF Opens, CapsTypeOK, Issued, ChannelId
  <2>2. CapsMatchTree' /\ VisibilityIsCurrent'
    BY <1>2 DEF Opens, HandlesKept, CapsTypeOK, CapsMatchTree,
       VisibilityIsCurrent
  <2> QED
    BY <2>1, <2>2
<1>3. ASSUME NEW c \in ChannelId, Loses(c) PROVE CapsInv'
  <2>1. CapsTypeOK' /\ open' \subseteq Issued'
    BY <1>3 DEF Loses, RevokeAndPurge, CapsTypeOK, Issued
  <2>2. CapsMatchTree'
    <3>1. \A d \in ChannelId : hosts'[d] = {f \in FrameId : OwnerOf(f)' = d}
      BY <1>3, NoneIsNoChannel DEF Loses, RevokeAndPurge, CapsMatchTree
    <3>2. \A f \in FrameId : OwnerOf(f)' \in open' \cup {None}
      BY <1>3 DEF Loses, RevokeAndPurge, CapsMatchTree
    <3> QED
      BY <3>1, <3>2 DEF CapsMatchTree
  <2>3. VisibilityIsCurrent'
    <3>1. \A f \in FrameId : OwnerOf(f)' # None => Resolves(f)'
      BY DEF OwnerOf
    <3>2. ASSUME NEW d \in ChannelId
          PROVE  /\ hosts'[d] \subseteq visible'[d]
                 /\ \A f \in visible'[d] : d \in open' /\ Resolves(f)'
      BY <1>3, <3>1, NoneIsNoChannel
         DEF Loses, RevokeAndPurge, CapsTypeOK, VisibilityIsCurrent
    <3> QED
      BY <3>2 DEF VisibilityIsCurrent
  <2> QED
    BY <2>1, <2>2, <2>3
<1>4. ASSUME NEW c \in ChannelId, NEW f \in FrameId, Mints(c, f)
      PROVE  CapsInv'
  <2>0. ~ Resolves(f) /\ OwnerOf(f) = None
    BY <1>4, OwnerType DEF Mints, Minted, Resolves, OwnerOf, TreeTypeOK,
       FrameSlot
  <2>1. CapsTypeOK' /\ open' \subseteq Issued'
    BY <1>4 DEF Mints, CapsTypeOK, Issued
  <2>2. CapsMatchTree'
    <3>1. \A d \in ChannelId : hosts'[d] = {g \in FrameId : OwnerOf(g)' = d}
      BY <1>4, <2>0, NoneIsNoChannel
         DEF Mints, HandlesKept, CapsMatchTree, CapsTypeOK
    <3>2. \A g \in FrameId : OwnerOf(g)' \in open' \cup {None}
      BY <1>4 DEF Mints, HandlesKept, CapsMatchTree
    <3> QED
      BY <3>1, <3>2 DEF CapsMatchTree
  <2>3. VisibilityIsCurrent'
    BY <1>4, <2>0 DEF Mints, HandlesKept, CapsTypeOK, VisibilityIsCurrent
  <2> QED
    BY <2>1, <2>2, <2>3
<1>5. ASSUME NEW c \in ChannelId, NEW f \in FrameId, Grants(c, f)
      PROVE  CapsInv'
  BY <1>5 DEF Grants, HandlesKept, CapsTypeOK, CapsMatchTree,
     VisibilityIsCurrent, Issued
<1>6. ASSUME NEW to \in ChannelId, NEW f \in FrameId, Transfers(f, to)
      PROVE  CapsInv'
  <2>1. CapsTypeOK' /\ open' \subseteq Issued'
    BY <1>6 DEF Transfers, TransferCaps, CapsTypeOK, Issued
  <2>2. CapsMatchTree'
    <3>1. \A d \in ChannelId : hosts'[d] = {g \in FrameId : OwnerOf(g)' = d}
      BY <1>6 DEF Transfers, TransferCaps, HandlesKept, CapsMatchTree
    <3>2. \A g \in FrameId : OwnerOf(g)' \in open' \cup {None}
      BY <1>6 DEF Transfers, TransferCaps, HandlesKept, CapsMatchTree
    <3> QED
      BY <3>1, <3>2 DEF CapsMatchTree
  <2>3. VisibilityIsCurrent'
    <3>1. Resolves(f)
      BY <1>6 DEF Transfers, OwnerOf
    <3> QED
      BY <1>6, <3>1 DEF Transfers, TransferCaps, HandlesKept, CapsTypeOK,
         VisibilityIsCurrent
  <2> QED
    BY <2>1, <2>2, <2>3
<1> QED
  BY <1>1, <1>2, <1>3, <1>4, <1>5, <1>6 DEF Kinds

-----------------------------------------------------------------------------
(* The process pool. *)

PoolInv == PoolTypeOK /\ PoolIsSound

(* What a step does to the pool: nothing while no channel closes, forget   *)
(* the channel that closes, or register an open channel that serves        *)
(* nothing for a free entry below the cap.                                 *)
PoolKinds ==
    \/ UNCHANGED poolVars /\ open \subseteq open'
    \/ \E c \in ChannelId : Forget(c) /\ open' = open \ {c}
    \/ \E e \in Entry, c \in open :
          CanRegister(e, c) /\ Register(e, c) /\ open' = open

LEMMA StepPoolKinds ==
    ASSUME TypeOK, CapsMatchTree, [Next]_vars
    PROVE  PoolKinds
<1> USE DEF PoolKinds
<1> \A c \in Issued : c \in ChannelId
  BY DEF TypeOK, Issued, ChannelId
<1>1. ASSUME NEW c \in Issued,
             CloseChannel(c) \/ ChannelDied(c) \/ DispatchPanics(c)
      PROVE  PoolKinds
  BY <1>1 DEF CloseChannel, ChannelDied, DispatchPanics, Close, RevokeAndPurge
<1>2. CASE OpenChannel
  BY <1>2 DEF OpenChannel
<1>3. ASSUME NEW f \in FrameId, NEW k \in ProcessKeys
      PROVE  EntryFor(f, k) \in Entry
  BY OwnerType DEF TypeOK, EntryFor, Entry, FrameSlot
<1>4. ASSUME NEW f \in FrameId, NEW o \in Origin, CommitDocument(f, o)
      PROVE  PoolKinds
  <2>1. OwnerOf(f) \in open
    BY <1>4 DEF CommitDocument, CapsMatchTree
  <2>2. CASE CommitRefused(f, o)
    BY <2>2 DEF CommitRefused, capVars
  <2>3. ASSUME NEW k \in ProcessKeys,
               \/ CommitInPlace(f, o, k)
               \/ CommitTransferred(f, o, k)
               \/ CommitElsewhere(f, o, k)
        PROVE  PoolKinds
    BY <2>3 DEF CommitInPlace, CommitTransferred, CommitElsewhere,
       TransferCaps, capVars
  <2>4. ASSUME NEW k \in ProcessKeys, CommitClaims(f, o, k)
        PROVE  PoolKinds
    BY <1>3, <2>1, <2>4 DEF CommitClaims, capVars
  <2> QED
    BY <1>4, <2>2, <2>3, <2>4 DEF CommitDocument
<1>5. ASSUME NEW p \in plans, NEW c \in Issued, AttachProcess(p[1], p[2], c)
      PROVE  PoolKinds
  <2>1. EntryFor(p[1], p[2]) \in Entry
    BY <1>3 DEF TypeOK
  <2> QED
    BY <1>5, <2>1 DEF AttachProcess, TransferCaps, capVars
<1> QED
  BY <1>1, <1>2, <1>4, <1>5 DEF Next, vars, capVars, CreateFrame,
     CreateFrameFull, CreateChildFrame, CreateChildFrameFull, GrantNew,
     GrantVisibility, RequestDenied

LEMMA PoolStep ==
    ASSUME PoolInv, open \in SUBSET ChannelId, PoolKinds
    PROVE  PoolInv'
<1> USE DEF PoolInv, PoolIsSound
<1>1. CASE UNCHANGED poolVars /\ open \subseteq open'
  BY <1>1 DEF poolVars, PoolTypeOK, MapsAreInverse, Registered, PoolBounded
<1>2. IsFiniteSet(Registered) /\ Cardinality(Registered) \in Nat
  <2>0. 0 \in Int /\ MaxChannel - 1 \in Int
    OBVIOUS
  <2>1. IsFiniteSet(ChannelId)
    BY ONLY <2>0, FS_Interval DEF ChannelId
  <2>2. Registered \in SUBSET ChannelId
    BY DEF Registered
  <2> QED
    BY <2>1, <2>2, FS_Subset, FS_CardinalityType
<1>3. ASSUME NEW c \in ChannelId, Forget(c), open' = open \ {c} PROVE PoolInv'
  <2>1. PoolTypeOK'
    BY <1>3 DEF Forget, PoolTypeOK
  <2>2. MapsAreInverse'
    BY <1>3, NoneIsNoChannel DEF Forget, PoolTypeOK, MapsAreInverse
  <2>3. Registered' = Registered \ {c}
    BY <1>3 DEF Forget, PoolTypeOK, Registered
  <2>4. Cardinality(Registered') <= Cardinality(Registered)
    BY <1>2, <2>3, FS_Subset, FS_CardinalityType
  <2>5. PoolBounded'
    BY <1>2, <2>3, <2>4, FS_Subset, FS_CardinalityType DEF PoolBounded
  <2> QED
    BY <1>3, <2>1, <2>2, <2>3, <2>5
<1>4. ASSUME NEW e \in Entry, NEW c \in open, CanRegister(e, c),
             Register(e, c), open' = open
      PROVE  PoolInv'
  <2>1. PoolTypeOK'
    BY <1>4 DEF Register, PoolTypeOK
  <2>2. MapsAreInverse'
    BY <1>4, NoneIsNoChannel
       DEF CanRegister, Shared, Register, PoolTypeOK, MapsAreInverse
  <2>3. Registered' = Registered \cup {c} /\ c \notin Registered
    BY <1>4 DEF CanRegister, Register, PoolTypeOK, Registered
  <2>4. Cardinality(Registered') = Cardinality(Registered) + 1
    BY <1>2, <2>3, FS_AddElement
  <2>5. PoolBounded'
    BY <1>2, <1>4, <2>4 DEF PoolBounded, CanRegister, AtCap
  <2> QED
    BY <1>4, <2>1, <2>2, <2>3, <2>5
<1> QED
  BY <1>1, <1>3, <1>4 DEF PoolKinds

-----------------------------------------------------------------------------
(* The inductive invariant of the broker. *)

BrokerInv == TypeOK /\ TreeInv /\ CapsInv /\ PoolInv

LEMMA RecordType ==
    ASSUME NEW c \in ChannelId, NEW r \in DenyReason, Record(c, r),
           audit \in Seq(ChannelId \X DenyReason),
           Len(audit) <= AUDIT_CAPACITY
    PROVE  /\ audit' \in Seq(ChannelId \X DenyReason)
           /\ Len(audit') <= AUDIT_CAPACITY
<1>1. CASE Len(audit) >= AUDIT_CAPACITY
  <2>1. audit # <<>>
    BY <1>1
  <2>2. /\ Tail(audit) \in Seq(ChannelId \X DenyReason)
        /\ Len(Tail(audit)) = Len(audit) - 1
    BY <2>1
  <2> QED
    BY <1>1, <2>2 DEF Record
<1>2. CASE Len(audit) < AUDIT_CAPACITY
  BY <1>2 DEF Record
<1> QED
  BY <1>1, <1>2

LEMMA LogAndPlansType ==
    ASSUME TypeOK, [Next]_vars
    PROVE  /\ audit' \in Seq(ChannelId \X DenyReason)
           /\ Len(audit') <= AUDIT_CAPACITY
           /\ plans' \in SUBSET (FrameId \X ProcessKeys)
<1> DEFINE LogOK == /\ audit' \in Seq(ChannelId \X DenyReason)
                    /\ Len(audit') <= AUDIT_CAPACITY
           PlansOK == plans' \in SUBSET (FrameId \X ProcessKeys)
<1>0. /\ \A c \in Issued : c \in ChannelId
      /\ audit \in Seq(ChannelId \X DenyReason)
      /\ Len(audit) <= AUDIT_CAPACITY
      /\ plans \in SUBSET (FrameId \X ProcessKeys)
  BY DEF TypeOK, Issued, ChannelId
<1>1. UNCHANGED audit => LogOK
  BY <1>0
<1>2. UNCHANGED plans => PlansOK
  BY <1>0
<1>3. ASSUME NEW c \in Issued, NEW r \in DenyReason, Record(c, r) PROVE LogOK
  BY <1>0, <1>3, RecordType
<1>4. ASSUME NEW f \in FrameId, NEW o \in Origin, CommitDocument(f, o)
      PROVE  LogOK /\ PlansOK
  <2>1. ASSUME NEW k \in ProcessKeys, CommitElsewhere(f, o, k)
        PROVE  LogOK /\ PlansOK
    <3>1. UNCHANGED audit /\ plans' \in {plans, plans \cup {<<f, k>>}}
      BY <2>1 DEF CommitElsewhere
    <3> QED
      BY <1>0, <1>1, <3>1
  <2>2. CASE UNCHANGED <<audit, plans>>
    BY <1>1, <1>2, <2>2
  <2> QED
    BY <1>4, <2>1, <2>2 DEF CommitDocument, CommitRefused, CommitInPlace,
       CommitTransferred, CommitClaims
<1>5. ASSUME NEW p \in plans, NEW c \in Issued, AttachProcess(p[1], p[2], c)
      PROVE  LogOK /\ PlansOK
  BY <1>0, <1>1, <1>5 DEF AttachProcess
<1>6. ASSUME NEW c \in Issued,
             \/ RequestDenied(c)
             \/ DispatchPanics(c)
             \/ \E p \in FrameId, o \in Ordinal : CreateChildFrameFull(c, p, o)
      PROVE  LogOK /\ PlansOK
  <2>1. "Internal" \in DenyReason
    BY DEF DenyReason
  <2>2. UNCHANGED plans /\ \E r \in DenyReason : Record(c, r)
    BY <1>6, <2>1 DEF RequestDenied, DispatchPanics, CreateChildFrameFull
  <2> QED
    BY <1>2, <1>3, <2>2
<1>7. CASE UNCHANGED <<audit, plans>>
  BY <1>1, <1>2, <1>7
<1> QED
  BY <1>4, <1>5, <1>6, <1>7 DEF Next, vars, OpenChannel, CloseChannel,
     ChannelDied, CreateFrame, CreateFrameFull, CreateChildFrame,
     GrantVisibility

LEMMA BrokerInvStep ==
    ASSUME BrokerInv, [Next]_vars
    PROVE  BrokerInv' /\ Kinds /\ PoolKinds
<1> USE DEF BrokerInv
<1>1. TreeInv' /\ Kinds
  BY StepKinds
<1>2. CapsInv'
  BY <1>1, CapsStep
<1>3. PoolKinds
  BY StepPoolKinds DEF CapsInv
<1>4. PoolInv'
  BY <1>3, PoolStep DEF TypeOK
<1>5. TypeOK'
  BY <1>1, <1>2, <1>4, LogAndPlansType
     DEF TypeOK, TreeInv, CapsInv, CapsTypeOK, PoolInv
<1> QED
  BY <1>1, <1>2, <1>3, <1>4, <1>5

LEMMA BrokerInvInit == Init => BrokerInv
<1> SUFFICES ASSUME Init PROVE BrokerInv
  OBVIOUS
<1>1. TreeInv
  BY DEF Init, TreeInit, TreeInv, TreeTypeOK, Ungrown, FrameSlot, GroupId,
     OwnedIffLive, Forest
<1>2. \A f \in FrameId : OwnerOf(f) = None
  BY DEF Init, TreeInit, Ungrown, OwnerOf, FrameId
<1>3. CapsInv
  BY <1>2, NoneIsNoChannel DEF Init, CapsInv, CapsTypeOK, CapsMatchTree,
     VisibilityIsCurrent
<1>4. PoolInv
  <2>1. Registered = {}
    BY DEF Init, PoolInit, Registered
  <2>2. PoolBounded
    BY <2>1, FS_EmptySet DEF PoolBounded
  <2>3. PoolTypeOK /\ MapsAreInverse
    BY NoneIsNoChannel DEF Init, PoolInit, PoolTypeOK, MapsAreInverse
  <2> QED
    BY <2>1, <2>2, <2>3 DEF PoolInv, PoolIsSound
<1>5. TypeOK
  BY <1>1, <1>3, <1>4
     DEF Init, TypeOK, TreeInv, CapsInv, CapsTypeOK, PoolInv
<1> QED
  BY <1>1, <1>3, <1>4, <1>5 DEF BrokerInv

LEMMA BrokerInvCorrect == Spec => []BrokerInv
<1>1. BrokerInv /\ [Next]_vars => BrokerInv'
  BY BrokerInvStep
<1> QED
  BY <1>1, BrokerInvInit, PTL DEF Spec

(* The types, the capability sets, the pool and the forest of frames, for  *)
(* every instance of the broker.                                           *)
THEOREM TypeCorrect == Spec => []TypeOK
  BY BrokerInvCorrect, PTL DEF BrokerInv

(* The capability sets and the tree agree in every reachable state: a      *)
(* channel hosts exactly the frames it owns and every owner is open.       *)
THEOREM CapsMatchTreeCorrect == Spec => []CapsMatchTree
  BY BrokerInvCorrect, PTL DEF BrokerInv, CapsInv

(* Hosting implies seeing; no set keeps a handle that does not resolve; a  *)
(* closed channel sees nothing.                                            *)
THEOREM VisibilityIsCurrentCorrect == Spec => []VisibilityIsCurrent
  BY BrokerInvCorrect, PTL DEF BrokerInv, CapsInv

(* The two maps of the pool are inverse, lead only to open channels and    *)
(* stay within the cap.                                                    *)
THEOREM PoolIsSoundCorrect == Spec => []PoolIsSound
  BY BrokerInvCorrect, PTL DEF BrokerInv, PoolInv

(* The tree inside the broker is a forest: the broker calls the tree's     *)
(* operations, and commits and moves in one step, without breaking it.     *)
THEOREM BrokerForestCorrect == Spec => []Forest
  BY BrokerInvCorrect, PTL DEF BrokerInv, TreeInv

(* A channel serves the key it claimed until it is closed.                 *)
THEOREM ServedKeyIsStableCorrect == Spec => ServedKeyIsStable
<1>1. ASSUME BrokerInv, [Next]_vars, NEW c \in ChannelId,
             by_channel[c] # None, by_channel'[c] # by_channel[c]
      PROVE  c \notin open'
  <2>1. PoolKinds /\ PoolTypeOK
    BY <1>1, BrokerInvStep DEF BrokerInv, PoolInv
  <2> QED
    BY <1>1, <2>1 DEF PoolKinds, poolVars, PoolTypeOK, Forget, Register,
       CanRegister
<1>2. BrokerInv /\ [Next]_vars
      => [\A c \in ChannelId :
             by_channel[c] # None /\ by_channel'[c] # by_channel[c] =>
                 c \notin open']_poolVars
  BY <1>1
<1> QED
  BY <1>2, BrokerInvCorrect, PTL DEF Spec, ServedKeyIsStable
-----------------------------------------------------------------------------
(* The broker implements the abstract authority. *)

LEMMA AuthorityStep ==
    ASSUME BrokerInv, Kinds, BrokerInv'
    PROVE  [Authority!ANext]_Authority!avars
<1> USE DEF Authority!avars, Authority!ANext
<1>0. /\ open \in SUBSET ChannelId
      /\ \A f \in FrameId : OwnerOf(f) \in open \cup {None}
      /\ open \subseteq Issued
  BY DEF BrokerInv, CapsInv, CapsTypeOK, CapsMatchTree
<1>1. CASE Keeps
  BY <1>1 DEF Keeps, capVars, HandlesKept, Issued
<1>2. CASE Opens
  <2>1. Authority!Connect(next_channel) /\ next_channel \in ChannelId
    BY <1>2 DEF Opens, HandlesKept, Authority!Connect, Issued, BrokerInv,
       CapsInv, CapsTypeOK, ChannelId
  <2> QED
    BY <2>1
<1>3. ASSUME NEW c \in ChannelId, Loses(c) PROVE Authority!Disconnect(c)
  <2>1. \A f \in FrameId : OwnerOf(f)' \in ChannelId \cup {None}
    BY DEF BrokerInv, CapsInv, CapsTypeOK, CapsMatchTree
  <2> QED
    BY <1>3, <2>1 DEF Loses, RevokeAndPurge, Authority!Disconnect, Issued
<1>4. ASSUME NEW c \in ChannelId, NEW f \in FrameId, Mints(c, f)
      PROVE  Authority!Mint(c, f)
  BY <1>4 DEF Mints, HandlesKept, Authority!Mint, Issued
<1>5. ASSUME NEW c \in ChannelId, NEW f \in FrameId, Grants(c, f)
      PROVE  UNCHANGED Authority!avars
  BY <1>5 DEF Grants, HandlesKept, Issued
<1>6. ASSUME NEW to \in ChannelId, NEW f \in FrameId, Transfers(f, to)
      PROVE  Authority!Move(f, to)
  BY <1>0, <1>6 DEF Transfers, TransferCaps, HandlesKept, Authority!Move, Issued
<1> QED
  BY <1>1, <1>2, <1>3, <1>4, <1>5, <1>6 DEF Kinds

(* Every run of the broker is a run of the abstract authority: a handle is *)
(* minted once, is held by one open channel at a time and, once lost, is   *)
(* never held again.                                                       *)
THEOREM AuthorityCorrect == Spec => AuthoritySpec
<1>1. Init => Authority!AInit
  <2> SUFFICES ASSUME Init PROVE Authority!AInit
    OBVIOUS
  <2>1. \A f \in FrameId : OwnerOf(f) = None /\ ~ Minted(f)
    BY DEF Init, TreeInit, Ungrown, OwnerOf, Minted, FrameId
  <2> QED
    BY <2>1 DEF Init, Authority!AInit, Issued
<1>2. BrokerInv /\ BrokerInv' /\ [Next]_vars
      => [Authority!ANext]_Authority!avars
  BY BrokerInvStep, AuthorityStep
<1> QED
  BY <1>1, <1>2, BrokerInvCorrect, PTL
     DEF Spec, AuthoritySpec, Authority!ASpec

-----------------------------------------------------------------------------
(* Ancestors: crash isolation and where a frame may move.                  *)

(* Closing c takes a frame only from under a frame that c hosts.           *)
LEMMA LossIsLocal ==
    ASSUME BrokerInv, NEW c \in ChannelId, ReleaseAll(c) \/ CrashChannel(c), Loses(c),
           NEW f \in FrameId, LiveFrame(f), ~ LiveFrame(f)'
    PROVE  \E g \in {f} \cup Ancestors(f) : OwnerOf(g) \in open /\ OwnerOf(g) \notin open'
<1>0. TreeInv /\ f[1] \in Index /\ Resolves(f) /\ c \notin open'
  BY OwnerType DEF BrokerInv, TreeInv, LiveFrame, Loses, RevokeAndPurge
<1>1. \A g \in FrameId : OwnerOf(g) = c => c \in open
  BY NoneIsNoChannel DEF BrokerInv, CapsInv, CapsMatchTree
<1>2. f[1] \in OwnedBy(c) \/ f[1] \in Descendants(OwnedBy(c))
  <2> SUFFICES ASSUME f[1] \notin OwnedBy(c), f[1] \notin Descendants(OwnedBy(c))
               PROVE  FALSE
    OBVIOUS
  <2>1. slots'[f[1]] = slots[f[1]]
    BY <1>0 DEF ReleaseAll, FreeWithDescendants, CrashChannel
  <2> QED
    BY <2>1 DEF LiveFrame, Resolves
<1>3. CASE f[1] \in OwnedBy(c)
  <2>1. OwnerOf(f) = c
    BY <1>0, <1>3 DEF OwnedBy, OwnerOf
  <2> QED
    BY <1>0, <1>1, <2>1
<1>4. CASE f[1] \in Descendants(OwnedBy(c))
  <2>1. PICK n \in 1 .. MAX_FRAME_DEPTH + 1 :
           AncestorAt[n][f] \in FrameId /\ OwnerOf(AncestorAt[n][f]) = c
    BY <1>0, <1>4, BelowOwned
  <2>2. AncestorAt[n][f] \in {f} \cup Ancestors(f)
    BY DEF Ancestors
  <2> QED
    BY <1>0, <1>1, <2>1, <2>2
<1> QED
  BY <1>2, <1>3, <1>4

(* A handle that a step leaves alone stays live, with its owner.           *)
LEMMA StaysLive ==
    ASSUME BrokerInv, BrokerInv', NEW f \in FrameId, LiveFrame(f),
           NEW S, HandlesKept(S), f \notin S
    PROVE  LiveFrame(f)' /\ OwnerOf(f)' = OwnerOf(f)
<1>1. OwnerOf(f) # None
  BY OwnerType, NoneIsNoChannel DEF BrokerInv, TreeInv, OwnedIffLive, LiveFrame, OwnerOf
<1>2. OwnerOf(f)' = OwnerOf(f) /\ Resolves(f)'
  BY DEF HandlesKept, LiveFrame
<1> QED
  BY <1>1, <1>2 DEF BrokerInv, TreeInv, OwnedIffLive, LiveFrame, OwnerOf, FrameId

(* Crash isolation: a frame stops running only when the channel that hosts *)
(* it, or one that hosts an ancestor, is closed or dies.                   *)
THEOREM FramesOutliveCorrect == Spec => FramesOutliveOtherChannels
<1>1. ASSUME BrokerInv, BrokerInv', Kinds, NEW f \in FrameId, LiveFrame(f), ~ LiveFrame(f)'
      PROVE  \E g \in {f} \cup Ancestors(f) : OwnerOf(g) \in open /\ OwnerOf(g) \notin open'
  <2>1. ASSUME NEW c \in ChannelId, NEW g \in FrameId, Mints(c, g)
        PROVE  FALSE
    <3>1. Minted(f)
      BY <1>1, OwnerType DEF BrokerInv, TreeInv, LiveFrame, Resolves, Minted, FrameSlot
    <3> QED
      BY <1>1, <2>1, <3>1, StaysLive DEF Mints
  <2>2. ASSUME NEW c \in ChannelId, NEW g \in FrameId, Transfers(g, c)
        PROVE  FALSE
    <3>1. f = g
      BY <1>1, <2>2, StaysLive DEF Transfers
    <3>2. OwnerOf(g)' = c /\ c # None /\ Resolves(g)'
      BY <2>2, NoneIsNoChannel DEF Transfers
    <3> QED
      BY <1>1, <3>1, <3>2 DEF BrokerInv, TreeInv, OwnedIffLive, LiveFrame, OwnerOf, FrameId
  <2>3. ~ HandlesKept({})
    BY <1>1, StaysLive
  <2> QED
    BY <1>1, <2>1, <2>2, <2>3, LossIsLocal DEF Kinds, Keeps, Opens, Grants
<1>2. BrokerInv /\ BrokerInv' /\ [Next]_vars
      => [slots' # slots => \A f \in FrameId : LiveFrame(f) /\ ~ LiveFrame(f)' =>
            \E g \in {f} \cup Ancestors(f) :
                OwnerOf(g) \in open /\ OwnerOf(g) \notin open']_treeVars
  BY <1>1, BrokerInvStep
<1> QED
  BY <1>2, BrokerInvCorrect, PTL DEF Spec, FramesOutliveOtherChannels

(* A commit records the document of f: no frame but f changes, and f keeps *)
(* its place in the tree.                                                  *)
Records(f, o) ==
    /\ \A i \in Index \ {f[1]} : slots'[i] = slots[i]
    /\ slots'[f[1]].origin = o
    /\ \A i \in Index : /\ slots'[i].parent = slots[i].parent
                        /\ slots'[i].lifecycle = slots[i].lifecycle
                        /\ slots'[i].generation = slots[i].generation
                        /\ slots'[i].group = slots[i].group

LEMMA CommitRecords ==
    ASSUME TreeTypeOK, NEW f \in FrameId, NEW o \in Origin, CommitOrigin(f, o)
    PROVE  Records(f, o) /\ slots'[f[1]].owner = slots[f[1]].owner
  BY OwnerType DEF CommitOrigin, Records, TreeTypeOK, FrameSlot

LEMMA MoveRecords ==
    ASSUME TreeTypeOK, NEW f \in FrameId, NEW o \in Origin, NEW to \in ChannelId,
           slots' = [slots EXCEPT ![f[1]].origin = o, ![f[1]].owner = to]
    PROVE  Records(f, o) /\ slots'[f[1]].owner = to
  BY OwnerType DEF Records, TreeTypeOK, FrameSlot

(* The key of a document does not change when it is recorded: the root of  *)
(* the frame stays where it is.                                            *)
LEMMA CommittedKey ==
    ASSUME BrokerInv, BrokerInv', NEW f \in FrameId, LiveFrame(f),
           NEW o \in Origin, Records(f, o)
    PROVE  /\ KeyOf(f)' = KeyOfDocument(f, o)
           /\ \A k \in ProcessKeys : EntryFor(f, k)' = EntryFor(f, k)
<1> DEFINE r == RootOf(f)
<1>0. /\ TreeInv /\ TreeTypeOK /\ TreeTypeOK' /\ Resolves(f)
      /\ f[1] \in Index /\ slots[f[1]] \in FrameSlot
  BY OwnerType DEF BrokerInv, TreeInv, LiveFrame
<1>1. LiveFrame(f)'
  BY <1>0 DEF Records, LiveFrame, Resolves
<1>2. Parents' = Parents /\ \A g \in FrameId : ParentOf(g)' = ParentOf(g)
  BY SameParents DEF Records
<1>3. MAX_FRAME_DEPTH + 1 \in Nat
  BY TreeAssumption
<1>4. RootOf(f)' = r /\ r \in FrameId /\ Resolves(r)
  BY <1>0, <1>2, <1>3, SameAncestors, AncestorsResolve DEF RootOf
<1>5. r # f => slots'[r[1]] = slots[r[1]]
  <2>1. r = <<r[1], r[2]>> /\ f = <<f[1], f[2]>> /\ r[1] \in Index
    BY <1>4 DEF FrameId
  <2>2. r[1] = f[1] => r[2] = f[2]
    BY <1>0, <1>4 DEF Resolves
  <2> QED
    BY <2>1, <2>2 DEF Records
<1>6. ParentOf(r)' = ParentOf(r)
  BY <1>2, <1>4
<1>7. KeyOf(f)' = KeyOfDocument(f, o)'
  BY <1>1, FrameAssumption, IdentifierAssumption DEF KeyOf, Records
<1>8. KeyOf(f)' = KeyOfDocument(f, o)
  BY <1>4, <1>5, <1>6, <1>7 DEF KeyOfDocument
<1> QED
  BY <1>0, <1>8 DEF Records, EntryFor

(* A commit of f leaves f with the process that serves its document's key, *)
(* or with no process serving that key.                                    *)
LEMMA CommitPlaces ==
    ASSUME BrokerInv, BrokerInv', NEW f \in FrameId, NEW o \in Origin, CommitDocument(f, o)
    PROVE  ~ Misplaced(f)'
<1> DEFINE k == KeyOfDocument(f, o)
           e == EntryFor(f, k)
<1>0. /\ LiveFrame(f) /\ TreeTypeOK /\ PoolTypeOK /\ MapsAreInverse
      /\ OwnerOf(f) = slots[f[1]].owner /\ OwnerOf(f) \in ChannelId
      /\ Registered \subseteq open
  <2>1. LiveFrame(f)
    BY OwnedIsLive DEF CommitDocument, BrokerInv
  <2> QED
    BY <2>1, OwnerType DEF CommitDocument, BrokerInv, TreeInv, PoolInv, PoolIsSound, OwnerOf, LiveFrame, FrameSlot
<1>1. ASSUME Records(f, o)
      PROVE  /\ KeyOf(f)' = k
             /\ k \in ProcessKeys => EntryFor(f, KeyOf(f))' = e /\ e \in Entry
             /\ OwnerOf(f)' = slots'[f[1]].owner
  <2>1. KeyOf(f)' = k /\ \A x \in ProcessKeys : EntryFor(f, x)' = EntryFor(f, x)
    BY <1>0, <1>1, CommittedKey
  <2>2. k \in ProcessKeys => EntryFor(f, KeyOf(f))' = e
    BY <2>1 DEF EntryFor
  <2>3. k \in ProcessKeys => e \in Entry
    BY <1>0, OwnerType DEF EntryFor, Entry, FrameSlot
  <2>4. OwnerOf(f)' = slots'[f[1]].owner
    BY <1>0, <1>1, OwnerType DEF Records, OwnerOf, LiveFrame, Resolves
  <2> QED
    BY <2>1, <2>2, <2>3, <2>4
<1>2. ASSUME CommitOrigin(f, o)
      PROVE  Records(f, o) /\ OwnerOf(f)' = OwnerOf(f)
  BY <1>0, <1>1, <1>2, CommitRecords
<1>3. CASE CommitRefused(f, o)
  BY <1>1, <1>2, <1>3 DEF CommitRefused, Misplaced
<1>4. CASE k \in ProcessKeys /\ CommitInPlace(f, o, k)
  BY <1>1, <1>2, <1>4 DEF CommitInPlace, Misplaced, WellPlaced, poolVars
<1>5. CASE k \in ProcessKeys /\ CommitTransferred(f, o, k)
  <2> DEFINE to == by_key[e]
  <2>1. e \in Entry
    BY <1>0, <1>5, OwnerType DEF EntryFor, Entry, FrameSlot
  <2>2. to \in ChannelId /\ by_channel[to] = e
    BY <1>0, <1>5, <2>1 DEF CommitTransferred, Shared, PoolTypeOK, MapsAreInverse
  <2>3. to \in open
    BY <1>0, <2>1, <2>2, IdentifierAssumption DEF Registered, Entry
  <2>4. OwnerOf(f) # to
    BY <1>5, <2>2 DEF CommitTransferred
  <2>5. /\ slots' = [slots EXCEPT ![f[1]].origin = o, ![f[1]].owner = to]
        /\ UNCHANGED poolVars
    BY <1>5, <2>3, <2>4 DEF CommitTransferred, Moves
  <2>6. Records(f, o) /\ OwnerOf(f)' = to
    BY <1>0, <1>1, <2>2, <2>5, MoveRecords
  <2> QED
    BY <1>1, <1>5, <2>2, <2>5, <2>6 DEF Misplaced, WellPlaced, poolVars
<1>6. CASE k \in ProcessKeys /\ CommitClaims(f, o, k)
  <2>1. /\ Records(f, o) /\ OwnerOf(f)' = OwnerOf(f)
        /\ EntryFor(f, KeyOf(f))' = e /\ KeyOf(f)' = k
    BY <1>1, <1>2, <1>6 DEF CommitClaims
  <2>2. CASE Register(e, OwnerOf(f))
    BY <1>0, <2>1, <2>2 DEF Register, PoolTypeOK, Misplaced, WellPlaced
  <2>3. CASE UNCHANGED poolVars
    BY <1>6, <2>1, <2>3 DEF CommitClaims, Misplaced, Shared, poolVars
  <2> QED
    BY <1>6, <2>2, <2>3 DEF CommitClaims
<1>7. CASE k \in ProcessKeys /\ CommitElsewhere(f, o, k)
  BY <1>1, <1>2, <1>7 DEF CommitElsewhere, Misplaced, Shared, poolVars
<1> QED
  BY <1>3, <1>4, <1>5, <1>6, <1>7 DEF CommitDocument

(* Frames with equal keys come together as they commit: a commit never     *)
(* leaves its frame outside a process of its group that serves the key of  *)
(* the document committed (commit_document, plan_other_process).           *)
THEOREM CommitsShareProcessesCorrect == Spec => CommitsShareProcesses
<1>1. BrokerInv /\ BrokerInv' /\ [Next]_vars
      => [\A f \in FrameId : Misplaced(f)' => ~ \E o \in Origin : CommitDocument(f, o)]_vars
  BY CommitPlaces
<1> QED
  BY <1>1, BrokerInvCorrect, PTL DEF Spec, CommitsShareProcesses
=============================================================================
