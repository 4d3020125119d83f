------------------------ MODULE FollowDecisionsProofs ------------------------
(***************************************************************************)
(* Lemmas about the decisions of the follow loop (FollowDecisions): the    *)
(* window a scan compares, and what a verdict of classify_fork says.       *)
(***************************************************************************)
EXTENDS FollowDecisions, FiniteSetTheorems, WellFoundedInduction, TLAPS

-----------------------------------------------------------------------------
(* Minima and windows *)

\* A nonempty set of natural numbers has a least element.
LEMMA NatMin ==
  ASSUME NEW S \in SUBSET Nat, S # {}
  PROVE  \E x \in S : \A y \in S : x <= y
<1> DEFINE R == OpToRel(<, Nat)
<1>1. IsWellFoundedOn(R, Nat)
  BY NatLessThanWellFounded
<1>2. \A x, y \in Nat : y < x => <<y, x>> \in R
  BY DEF OpToRel
<1> HIDE DEF R
<1>3. PICK x \in S : \A y \in S : ~ (<<y, x>> \in R)
  BY <1>1, WFMin
<1>4. ASSUME NEW y \in S PROVE x <= y
  <2>1. x \in Nat /\ y \in Nat
    OBVIOUS
  <2>2. ~ (y < x)
    BY <1>2, <1>3, <2>1, Zenon
  <2>3. QED
    BY <2>1, <2>2
<1>5. QED
  BY <1>4, Zenon

\* Min of a nonempty set of natural numbers is its least element.
LEMMA MinOf ==
  ASSUME NEW S \in SUBSET Nat, S # {}
  PROVE  Min(S) \in S /\ \A y \in S : Min(S) <= y
BY NatMin DEF Min

\* A nonempty finite set of natural numbers has a greatest element.
LEMMA MaxOf ==
  ASSUME NEW S \in SUBSET Nat, IsFiniteSet(S), S # {}
  PROVE  \E x \in S : \A y \in S : y <= x
<1> DEFINE Above(k) == {j \in S : k < j}
           sizes == {Cardinality(Above(x)) : x \in S}
<1>1. \A x \in S : IsFiniteSet(Above(x)) /\ Cardinality(Above(x)) \in Nat
  BY FS_Subset, FS_CardinalityType
<1>2. sizes \in SUBSET Nat /\ sizes # {}
  BY <1>1
<1>3. PICK n \in sizes : \A k \in sizes : n <= k
  BY <1>2, NatMin
<1>4. PICK x \in S : Cardinality(Above(x)) = n
  BY <1>3
<1>5. ASSUME NEW y \in S, x < y PROVE FALSE
  <2> DEFINE high == Above(y)
  <2>1. high \subseteq Above(x) /\ y \in Above(x) /\ y \notin high
    <3>1. x \in Nat /\ y \in Nat /\ x < y
      BY <1>5
    <3>2. ASSUME NEW z \in high PROVE z \in Above(x)
      <4>1. z \in S /\ z \in Nat /\ y < z
        OBVIOUS
      <4>2. QED
        BY <3>1, <4>1
    <3>3. y \in Above(x) /\ y \notin high
      BY <3>1
    <3>4. QED
      BY <3>2, <3>3
  <2>2. Cardinality(high) < Cardinality(Above(x))
    BY <1>1, <2>1, FS_Subset
  <2>3. Cardinality(high) \in sizes /\ Cardinality(high) \in Nat
    BY <1>1
  <2>4. n <= Cardinality(high) /\ n \in Nat
    BY <1>2, <1>3, <2>3
  <2>5. QED
    BY <1>4, <2>2, <2>3, <2>4
<1>6. QED
  BY <1>5

\* A window of the highest rows is closed upwards.
LEMMA WindowUp ==
  ASSUME NEW local, IsFiniteSet(DOMAIN local), DOMAIN local \subseteq Nat,
         NEW d \in Nat, NEW f \in Window(local, d),
         NEW h \in DOMAIN local, f <= h
  PROVE  h \in Window(local, d)
<1> DEFINE Above(k) == {j \in DOMAIN local : j > k}
<1>1. Above(h) \subseteq Above(f)
  BY DEF Window
<1>2. IsFiniteSet(Above(f)) /\ IsFiniteSet(Above(h))
  BY FS_Subset
<1>3. /\ Cardinality(Above(h)) <= Cardinality(Above(f))
      /\ Cardinality(Above(h)) \in Nat /\ Cardinality(Above(f)) \in Nat
  BY <1>1, <1>2, FS_Subset, FS_CardinalityType
<1>4. Cardinality(Above(f)) < d
  BY DEF Window
<1>5. Cardinality(Above(h)) < d
  BY <1>3, <1>4
<1>6. QED
  BY <1>5 DEF Window

\* A window has at most as many rows as its depth.
LEMMA WindowSize ==
  ASSUME NEW local, IsFiniteSet(DOMAIN local), DOMAIN local \subseteq Nat,
         NEW d \in Nat
  PROVE  /\ IsFiniteSet(Window(local, d))
         /\ Cardinality(Window(local, d)) \in Nat
         /\ Cardinality(Window(local, d)) <= d
<1> DEFINE W == Window(local, d)
           Above(k) == {j \in DOMAIN local : j > k}
<1>1. W \subseteq DOMAIN local
  BY DEF Window
<1>2. IsFiniteSet(W) /\ Cardinality(W) \in Nat
  BY <1>1, FS_Subset, FS_CardinalityType
<1>3. CASE W = {}
  BY <1>3, FS_EmptySet
<1>4. CASE W # {}
  <2>1. PICK m \in W : \A k \in W : m <= k
    BY <1>1, <1>4, NatMin
  <2>2. W \ {m} \subseteq Above(m)
    BY <1>1, <2>1
  <2>3. /\ IsFiniteSet(Above(m)) /\ Cardinality(Above(m)) \in Nat
        /\ Cardinality(Above(m)) < d
    BY <2>1, FS_Subset, FS_CardinalityType DEF Window
  <2>4. Cardinality(W \ {m}) <= Cardinality(Above(m))
    BY <2>2, <2>3, FS_Subset
  <2>5. Cardinality(W \ {m}) = Cardinality(W) - 1
    BY <1>2, <2>1, FS_RemoveElement
  <2>6. QED
    BY <1>2, <2>3, <2>4, <2>5
<1>5. QED
  BY <1>2, <1>3, <1>4

\* A window that leaves a row out is full.
LEMMA WindowFull ==
  ASSUME NEW local, IsFiniteSet(DOMAIN local), DOMAIN local \subseteq Nat,
         NEW d \in Nat, Window(local, d) # DOMAIN local
  PROVE  /\ d <= Cardinality(Window(local, d))
         /\ d < Cardinality(DOMAIN local)
<1> DEFINE W == Window(local, d)
           out == DOMAIN local \ W
           Above(k) == {j \in DOMAIN local : j > k}
<1>1. W \subseteq DOMAIN local /\ out \subseteq DOMAIN local /\ out # {}
  BY DEF Window
<1>2. IsFiniteSet(out) /\ out \in SUBSET Nat
  BY <1>1, FS_Subset
<1>3. PICK x \in out : \A y \in out : y <= x
  BY <1>1, <1>2, MaxOf
<1>4. Above(x) \subseteq W
  BY <1>2, <1>3
<1>5. /\ IsFiniteSet(Above(x)) /\ Cardinality(Above(x)) \in Nat
      /\ d <= Cardinality(Above(x))
  BY <1>3, FS_Subset, FS_CardinalityType DEF Window
<1>6. /\ Cardinality(Above(x)) <= Cardinality(W)
      /\ Cardinality(W) < Cardinality(DOMAIN local)
      /\ Cardinality(W) \in Nat /\ Cardinality(DOMAIN local) \in Nat
  BY <1>1, <1>4, WindowSize, FS_Subset, FS_CardinalityType
<1>7. QED
  BY <1>5, <1>6

(***************************************************************************)
(* What the verdict Fork(f) says: f and every row above it are in the      *)
(* window and their chain hashes are known and differ from the stored.     *)
(***************************************************************************)
LEMMA ForkMismatch ==
  ASSUME NEW local, IsFiniteSet(DOMAIN local), DOMAIN local \subseteq Nat,
         NEW chainAt, NEW d \in Nat, NEW f,
         ClassifyFork(local, chainAt, d) = Fork(f)
  PROVE  /\ f \in Window(local, d)
         /\ \A h \in DOMAIN local : f <= h => chainAt[h] \notin {NoHash, local[h]}
<1> DEFINE scanned    == Window(local, d)
           halts      == {h \in scanned : chainAt[h] \in {NoHash, local[h]}}
           mismatched == {h \in scanned : \A k \in halts : k < h}
<1>1. mismatched # {} /\ Fork(Min(mismatched)) = Fork(f)
  BY DEF ClassifyFork, Fork, NoReorg, Inconclusive, NeedDeeper
<1>2. Min(mismatched) = f
  BY <1>1 DEF Fork
<1>3. mismatched \in SUBSET Nat
  BY DEF Window
<1>4. f \in mismatched
  BY <1>1, <1>2, <1>3, MinOf
<1>5. ASSUME NEW h \in DOMAIN local, f <= h
      PROVE  chainAt[h] \notin {NoHash, local[h]}
  <2>1. h \in scanned
    BY <1>4, <1>5, WindowUp
  <2>2. h \in mismatched
    BY <1>3, <1>4, <1>5, <2>1 DEF Window
  <2>3. h \notin halts
    BY <1>3, <2>2
  <2>4. QED
    BY <2>1, <2>3
<1>6. QED
  BY <1>4, <1>5

(***************************************************************************)
(* What ends a scan below the fork, or at the tip: either a row the chain  *)
(* has, every row above which is in the window and differs, or no row is   *)
(* left to compare.                                                        *)
(***************************************************************************)
LEMMA ScanEnds ==
  ASSUME NEW local, IsFiniteSet(DOMAIN local), DOMAIN local \subseteq Nat,
         NEW chainAt, NEW d \in Nat, NEW f \in Nat,
         \/ ClassifyFork(local, chainAt, d) = Fork(f)
         \/ /\ ClassifyFork(local, chainAt, d) = NoReorg
            /\ \A h \in DOMAIN local : h < f
            /\ Window(local, d) # {}
  PROVE  \A h \in DOMAIN local : h < f =>
           \E m \in DOMAIN local :
             /\ h <= m /\ chainAt[m] = local[m] /\ chainAt[m] # NoHash
<1> DEFINE scanned    == Window(local, d)
           halts      == {h \in scanned : chainAt[h] \in {NoHash, local[h]}}
           mismatched == {h \in scanned : \A k \in halts : k < h}
           unknown    == \E h \in halts : /\ chainAt[h] = NoHash
                                         /\ \A k \in halts : k <= h
<1>1. /\ scanned # {} /\ ~ unknown
      /\ halts = {} => scanned = DOMAIN local
      /\ scanned \subseteq DOMAIN local
  BY DEF ClassifyFork, Fork, NoReorg, Inconclusive, NeedDeeper, Window
<1>2. \A k \in mismatched : f <= k
  <2>1. CASE ClassifyFork(local, chainAt, d) = Fork(f)
    <3>1. mismatched # {} /\ Fork(Min(mismatched)) = Fork(f)
      BY <2>1 DEF ClassifyFork, Fork, NoReorg, Inconclusive, NeedDeeper
    <3>2. mismatched \in SUBSET Nat /\ Min(mismatched) = f
      BY <3>1 DEF Fork, Window
    <3>3. QED
      BY <3>1, <3>2, MinOf
  <2>2. CASE ClassifyFork(local, chainAt, d) = NoReorg
    <3>1. mismatched = {}
      BY <1>1, <2>2 DEF ClassifyFork, Fork, NoReorg, Inconclusive, NeedDeeper
    <3>2. QED
      BY <3>1
  <2>3. QED
    BY <2>1, <2>2
<1> SUFFICES ASSUME NEW h \in DOMAIN local, h < f
             PROVE  \E m \in DOMAIN local :
                      /\ h <= m /\ chainAt[m] = local[m] /\ chainAt[m] # NoHash
  OBVIOUS
<1>3. CASE halts = {}
  <2>1. h \in mismatched
    BY <1>1, <1>3
  <2>2. QED
    BY <1>2, <2>1
<1>4. CASE halts # {}
  <2>1. IsFiniteSet(halts) /\ halts \in SUBSET Nat
    BY <1>1, FS_Subset
  <2>2. PICK m \in halts : \A k \in halts : k <= m
    BY <1>4, <2>1, MaxOf
  <2>3. chainAt[m] # NoHash /\ chainAt[m] = local[m] /\ m \in DOMAIN local
    BY <1>1, <2>2
  <2>4. ASSUME m < h PROVE FALSE
    <3>1. h \in scanned
      BY <1>1, <2>2, <2>4, WindowUp
    <3>2. \A k \in halts : k < h
      BY <2>1, <2>2, <2>4
    <3>3. h \in mismatched
      BY <3>1, <3>2
    <3>4. QED
      BY <1>2, <3>3
  <2>5. h <= m
    BY <2>1, <2>4
  <2>6. QED
    BY <2>3, <2>5
<1>5. QED
  BY <1>3, <1>4

\* The scan is widened only when every row of the window differs.
LEMMA NeedDeeperMismatch ==
  ASSUME NEW local, NEW chainAt, NEW d \in Nat,
         ClassifyFork(local, chainAt, d) = NeedDeeper
  PROVE  /\ Window(local, d) # DOMAIN local
         /\ \A h \in Window(local, d) : chainAt[h] \notin {NoHash, local[h]}
BY DEF ClassifyFork, Fork, NoReorg, Inconclusive, NeedDeeper

=============================================================================
