---------------------------- MODULE ForkScanProofs ----------------------------
(***************************************************************************)
(* Proofs about ForkScan, for every height of the chain and so for every   *)
(* number of rows: what a scan answers, and how little it fetches for it.  *)
(***************************************************************************)
EXTENDS ForkScan, FollowDecisionsProofs

-----------------------------------------------------------------------------
(* The inductive invariant *)

\* The rows and the sets made of them are finite.
LEMMA Finite ==
  ASSUME TypeOK
  PROVE  /\ IsFiniteSet(DOMAIN local) /\ DOMAIN local \subseteq Nat
         /\ IsFiniteSet(StaleTop) /\ Cardinality(StaleTop) \in Nat
         /\ IsFiniteSet(Heights) /\ Heights \subseteq Nat \ {0}
<1>1. IsFiniteSet(Heights) /\ Heights \subseteq Nat \ {0}
  BY MaxHeightAssumption, FS_Interval DEF Heights
<1>2. DOMAIN local \subseteq Heights
  BY DEF TypeOK
<1>3. IsFiniteSet(DOMAIN local)
  BY <1>1, <1>2, FS_Subset
<1>4. StaleTop \subseteq DOMAIN local
  BY DEF StaleTop
<1>5. IsFiniteSet(StaleTop) /\ Cardinality(StaleTop) \in Nat
  BY <1>3, <1>4, FS_Subset, FS_CardinalityType
<1>6. QED
  BY <1>1, <1>2, <1>3, <1>5

\* With its window complete, the scan knows the chain at every row of it.
LEMMA Complete ==
  ASSUME TypeOK, FetchedOK, Unseen = {}, NEW h \in W
  PROVE  fetched[h] = chainAt[h] /\ h \in Heights
<1>1. h \in DOMAIN local /\ h \in Heights
  BY DEF W, Window, TypeOK
<1>2. fetched[h] # NoHash
  BY DEF Unseen, W
<1>3. QED
  BY <1>1, <1>2 DEF FetchedOK

\* The verdict Fork(f) of a complete window is the bottom of the stale run.
LEMMA ForkIsStaleTop ==
  ASSUME TypeOK, FetchedOK, depth \in Nat, Unseen = {}, NEW f \in Nat,
         ClassifyFork(local, fetched, depth) = Fork(f)
  PROVE  {h \in DOMAIN local : h >= f} = StaleTop
<1>1. IsFiniteSet(DOMAIN local) /\ DOMAIN local \subseteq Nat
  BY Finite
<1>2. /\ f \in W
      /\ \A h \in DOMAIN local : f <= h => fetched[h] \notin {NoHash, local[h]}
  BY <1>1, ForkMismatch DEF W
<1>3. \A h \in DOMAIN local : f <= h => h \in W
  BY <1>1, <1>2, WindowUp DEF W
<1>4. \A h \in DOMAIN local : f <= h => ~ Agrees(h)
  BY <1>2, <1>3, Complete DEF Agrees
<1>5. ASSUME NEW h \in DOMAIN local, h < f PROVE h \notin StaleTop
  <2>1. PICK m \in DOMAIN local : h <= m /\ fetched[m] = local[m] /\ fetched[m] # NoHash
    BY <1>1, <1>5, ScanEnds
  <2>2. Agrees(m)
    BY <2>1 DEF Agrees, FetchedOK, TypeOK
  <2>3. QED
    BY <1>1, <2>1, <2>2 DEF StaleTop
<1>6. ASSUME NEW h \in DOMAIN local, f <= h PROVE h \in StaleTop
  <2>1. \A k \in DOMAIN local : k >= h => ~ Agrees(k)
    BY <1>1, <1>4, <1>6
  <2>2. QED
    BY <2>1 DEF StaleTop
<1>7. QED
  BY <1>1, <1>5, <1>6 DEF StaleTop

\* The verdict NoReorg of a complete window: the tip agrees, or there is no row.
LEMMA NoReorgTip ==
  ASSUME TypeOK, FetchedOK, depth \in Nat \ {0}, Unseen = {},
         ClassifyFork(local, fetched, depth) = NoReorg,
         NEW h \in DOMAIN local
  PROVE  \E m \in DOMAIN local : h <= m /\ Agrees(m)
<1>1. IsFiniteSet(DOMAIN local) /\ DOMAIN local \subseteq Nat /\ Heights \subseteq Nat
  BY Finite
<1>2. PICK top \in DOMAIN local : \A k \in DOMAIN local : k <= top
  BY <1>1, MaxOf
<1>3. top \in Window(local, depth)
  <2>1. {k \in DOMAIN local : k > top} = {}
    BY <1>1, <1>2
  <2>2. QED
    BY <2>1, FS_EmptySet DEF Window
<1>4. \A k \in DOMAIN local : k < top + 1
  BY <1>1, <1>2
<1>5. PICK m \in DOMAIN local : h <= m /\ fetched[m] = local[m] /\ fetched[m] # NoHash
  BY <1>1, <1>3, <1>4, ScanEnds
<1>6. QED
  BY <1>5 DEF Agrees, FetchedOK, TypeOK

\* Where the rows are linked, the stale run at the top is every stale row.
LEMMA LinkedStale ==
  ASSUME TypeOK, Linked
  PROVE  StaleTop = {h \in DOMAIN local : ~ Agrees(h)}
<1>1. DOMAIN local \subseteq Nat
  BY Finite
<1>2. ASSUME NEW h \in DOMAIN local, ~ Agrees(h), NEW k \in DOMAIN local, k >= h
      PROVE  ~ Agrees(k)
  BY <1>1, <1>2 DEF Linked
<1>3. QED
  BY <1>1, <1>2 DEF StaleTop

\* A widening comes after `depth` stale rows, and makes the scan deeper.
LEMMA Widening ==
  ASSUME TypeOK, FetchedOK, depth \in Nat \ {0}, Unseen = {},
         ClassifyFork(local, fetched, depth) = NeedDeeper
  PROVE  LET wider == NextScanDepth(depth, Cardinality(DOMAIN local))
         IN  /\ wider \in Nat \ {0} /\ wider # depth
             /\ wider <= 4 * Cardinality(StaleTop)
<1> DEFINE n == Cardinality(DOMAIN local)
<1>1. /\ IsFiniteSet(DOMAIN local) /\ DOMAIN local \subseteq Nat /\ n \in Nat
      /\ IsFiniteSet(StaleTop) /\ Cardinality(StaleTop) \in Nat
  BY Finite, FS_CardinalityType
<1>2. /\ W # DOMAIN local
      /\ \A h \in W : fetched[h] \notin {NoHash, local[h]}
  BY NeedDeeperMismatch DEF W
<1>3. depth <= Cardinality(W) /\ depth < n /\ Cardinality(W) \in Nat
  BY <1>1, <1>2, WindowFull, WindowSize DEF W
<1>4. W \subseteq StaleTop
  <2> SUFFICES ASSUME NEW h \in W PROVE h \in StaleTop
    OBVIOUS
  <2>1. h \in DOMAIN local
    BY DEF W, Window
  <2>2. ASSUME NEW k \in DOMAIN local, k >= h PROVE ~ Agrees(k)
    <3>1. k \in W
      BY <1>1, <2>1, <2>2, WindowUp DEF W
    <3>2. fetched[k] = chainAt[k]
      BY <3>1, Complete
    <3>3. QED
      BY <1>2, <3>1, <3>2 DEF Agrees
  <2>3. QED
    BY <2>1, <2>2 DEF StaleTop
<1>5. depth <= Cardinality(StaleTop)
  BY <1>1, <1>3, <1>4, FS_Subset
<1> HIDE DEF n
<1>6. /\ NextScanDepth(depth, n) \in Nat \ {0} /\ NextScanDepth(depth, n) # depth
      /\ NextScanDepth(depth, n) <= 4 * depth
  BY <1>1, <1>3 DEF NextScanDepth
<1>7. QED
  BY <1>1, <1>5, <1>6 DEF n

\* Every row table and every chain of Init satisfy the invariant.
LEMMA InitIndInv == Init => IndInv
<1> SUFFICES ASSUME Init PROVE IndInv
  OBVIOUS
<1>1. /\ fetched = [h \in Heights |-> NoHash] /\ depth = 1 /\ verdict = None
      /\ \E rows \in SUBSET Heights : local \in [rows -> {1, 2}]
      /\ \E fork, head \in Heights :
           chainAt = [h \in Heights |-> IF h > head THEN NoHash
                                        ELSE IF h < fork THEN 1 ELSE 2]
  BY DEF Init
<1>2. TypeOK
  BY <1>1 DEF TypeOK, Verdict, NoHash
<1>3. FetchedOK /\ DepthOK
  BY <1>1 DEF FetchedOK, DepthOK
<1>4. \A f : None # Fork(f) /\ None # NoReorg
  BY DEF None, Fork, NoReorg
<1>5. ExactWhenLinked /\ RollsBackStaleTop
  BY <1>1, <1>4 DEF ExactWhenLinked, RollsBackStaleTop
<1>6. QED
  BY <1>1, <1>2, <1>3, <1>5 DEF IndInv

\* A fetch, or a scan given up: the invariant does not depend on which rows are known.
LEMMA FetchStep ==
  ASSUME IndInv, FetchNext \/ RpcFails
  PROVE  IndInv'
<1>1. /\ TypeOK /\ FetchedOK /\ depth \in Nat \ {0} /\ DepthOK
      /\ ExactWhenLinked /\ RollsBackStaleTop
  BY DEF IndInv
<1>2. UNCHANGED <<local, chainAt, depth>> /\ verdict = None
  BY DEF FetchNext, RpcFails
<1>3. verdict' \in {None, Inconclusive}
  BY <1>2 DEF FetchNext, RpcFails
<1>4. TypeOK' /\ FetchedOK'
  <2>1. CASE UNCHANGED fetched
    BY <1>1, <1>2, <1>3, <2>1 DEF TypeOK, FetchedOK, Verdict, W
  <2>2. CASE \E h \in Unseen : fetched' = [fetched EXCEPT ![h] = chainAt[h]]
    <3>1. PICK h \in Unseen : fetched' = [fetched EXCEPT ![h] = chainAt[h]]
      BY <2>2
    <3>2. h \in W /\ h \in Heights
      BY <1>1 DEF Unseen, W, Window, TypeOK
    <3>3. QED
      BY <1>1, <1>2, <1>3, <3>1, <3>2 DEF TypeOK, FetchedOK, Verdict, W
  <2>3. QED
    BY <2>1, <2>2 DEF FetchNext, RpcFails
<1>5. DepthOK'
  BY <1>1, <1>2 DEF DepthOK, StaleTop, Agrees
<1>6. \A f : verdict' # Fork(f) /\ verdict' # NoReorg
  BY <1>3 DEF None, Inconclusive, Fork, NoReorg
<1>7. ExactWhenLinked' /\ RollsBackStaleTop'
  BY <1>6 DEF ExactWhenLinked, RollsBackStaleTop, NoReorg
<1>8. QED
  BY <1>1, <1>2, <1>4, <1>5, <1>7 DEF IndInv

\* An answer, or a wider window.
LEMMA DecideStep ==
  ASSUME IndInv, Decide
  PROVE  IndInv'
<1>1. TypeOK /\ FetchedOK /\ depth \in Nat \ {0} /\ DepthOK
  BY DEF IndInv
<1>2. /\ UNCHANGED <<local, chainAt, fetched>> /\ verdict = None /\ Unseen = {}
  BY DEF Decide
<1> DEFINE scan  == ClassifyFork(local, fetched, depth)
           wider == NextScanDepth(depth, Cardinality(DOMAIN local))
<1>3. CASE scan # NeedDeeper
  <2>1. verdict' = scan /\ UNCHANGED depth
    BY <1>3 DEF Decide
  <2>2. /\ IsFiniteSet(DOMAIN local) /\ DOMAIN local \subseteq Nat
        /\ Heights \subseteq Nat \ {0} /\ DOMAIN local \subseteq Heights
    BY <1>1, Finite DEF TypeOK
  <2>3. ASSUME NEW f \in Heights, verdict' = Fork(f)
        PROVE  {h \in DOMAIN local : h >= f} = StaleTop
    BY <1>1, <1>2, <2>1, <2>2, <2>3, ForkIsStaleTop
  <2>4. verdict' \in Verdict
    <3>1. \/ scan \in {NoReorg, Inconclusive}
          \/ \E f : scan = Fork(f)
      BY <1>3 DEF ClassifyFork
    <3>2. ASSUME NEW f, scan = Fork(f) PROVE f \in Heights
      BY <1>1, <2>2, <3>2, ForkMismatch DEF Window
    <3>3. QED
      BY <2>1, <3>1, <3>2 DEF Verdict
  <2>5. ASSUME Linked, verdict' = NoReorg, NEW h \in DOMAIN local
        PROVE  Agrees(h)
    <3>1. PICK m \in DOMAIN local : h <= m /\ Agrees(m)
      BY <1>1, <1>2, <2>1, <2>5, NoReorgTip
    <3>2. QED
      BY <2>2, <2>5, <3>1 DEF Linked
  <2>6. ASSUME NEW f \in Heights, verdict' = Fork(f), Linked
        PROVE  {h \in DOMAIN local : h >= f} = {h \in DOMAIN local : ~ Agrees(h)}
    BY <1>1, <2>3, <2>6, LinkedStale
  <2>7. TypeOK' /\ FetchedOK' /\ DepthOK'
    BY <1>1, <1>2, <2>1, <2>4 DEF TypeOK, FetchedOK, DepthOK, W, StaleTop, Agrees
  <2>8. RollsBackStaleTop'
    BY <1>2, <2>3 DEF RollsBackStaleTop, StaleTop, Agrees
  <2>9. ExactWhenLinked'
    BY <1>2, <2>5, <2>6 DEF ExactWhenLinked, Linked, Agrees, NoReorg
  <2>10. QED
    BY <1>1, <2>1, <2>7, <2>8, <2>9 DEF IndInv
<1>4. CASE scan = NeedDeeper
  <2>1. wider \in Nat \ {0} /\ wider # depth /\ wider <= 4 * Cardinality(StaleTop)
    BY <1>1, <1>2, <1>4, Widening
  <2>2. depth' = wider /\ verdict' = None
    BY <1>4, <2>1 DEF Decide
  <2>3. TypeOK' /\ DepthOK'
    BY <1>1, <1>2, <2>1, <2>2 DEF TypeOK, DepthOK, StaleTop, Agrees, Verdict
  <2>4. FetchedOK'
    <3> SUFFICES ASSUME NEW h \in Heights, fetched[h] # NoHash
                 PROVE  fetched[h] = chainAt[h] /\ h \in Window(local, wider)
      BY <1>2, <2>2 DEF FetchedOK, W
    <3>1. h \in W /\ fetched[h] = chainAt[h]
      BY <1>1 DEF FetchedOK
    <3>2. /\ IsFiniteSet({k \in DOMAIN local : k > h})
          /\ Cardinality({k \in DOMAIN local : k > h}) \in Nat
      BY <1>1, Finite, FS_Subset, FS_CardinalityType
    <3>3. depth < wider
      <4>1. W # DOMAIN local
        BY <1>4, <1>1, NeedDeeperMismatch DEF W
      <4>2. depth < Cardinality(DOMAIN local) /\ Cardinality(DOMAIN local) \in Nat
        BY <1>1, <4>1, Finite, WindowFull, FS_CardinalityType DEF W
      <4>3. QED
        BY <1>1, <4>2 DEF NextScanDepth
    <3>4. QED
      BY <1>1, <2>1, <3>1, <3>2, <3>3 DEF W, Window
  <2>5. \A f : verdict' # Fork(f) /\ verdict' # NoReorg
    BY <2>2 DEF None, Fork, NoReorg
  <2>6. ExactWhenLinked' /\ RollsBackStaleTop'
    BY <2>5 DEF ExactWhenLinked, RollsBackStaleTop, NoReorg
  <2>7. QED
    BY <2>1, <2>2, <2>3, <2>4, <2>6 DEF IndInv
<1>5. QED
  BY <1>3, <1>4

-----------------------------------------------------------------------------
(* Theorems *)

\* IndInv is an invariant of the scan (worker.rs:246-305).
THEOREM ScanInvariance == Spec => []IndInv
<1>1. IndInv /\ [Next]_vars => IndInv'
  <2> SUFFICES ASSUME IndInv, [Next]_vars PROVE IndInv'
    OBVIOUS
  <2>1. CASE FetchNext \/ RpcFails
    BY <2>1, FetchStep
  <2>2. CASE Decide
    BY <2>2, DecideStep
  <2>3. CASE UNCHANGED vars
    BY <2>3 DEF vars, IndInv, TypeOK, FetchedOK, DepthOK, ExactWhenLinked,
       RollsBackStaleTop, Linked, Agrees, StaleTop, W
  <2>4. QED
    BY <2>1, <2>2, <2>3 DEF Next
<1>2. QED
  BY <1>1, InitIndInv, PTL DEF Spec

(***************************************************************************)
(* The scan keeps to its types: a hash that is fetched is one of the chain *)
(* and a fork is a height that may have a row (worker.rs:246-305).         *)
(***************************************************************************)
THEOREM TypeCorrect == Spec => []TypeOK
<1>1. IndInv => TypeOK
  BY DEF IndInv
<1>2. QED
  BY <1>1, ScanInvariance, PTL

(***************************************************************************)
(* However many rows there are, a rollback takes exactly the run of stale  *)
(* rows at the top (worker.rs:796-827).                                    *)
(***************************************************************************)
THEOREM ForkExact == Spec => []RollsBackStaleTop
<1>1. IndInv => RollsBackStaleTop
  BY DEF IndInv
<1>2. QED
  BY <1>1, ScanInvariance, PTL

(***************************************************************************)
(* Over linked rows the lazy scan answers what a full comparison would:    *)
(* the fork is the lowest stale row, and no row is stale without one       *)
(* (worker.rs:246-305).                                                    *)
(***************************************************************************)
THEOREM LinkedExact == Spec => []ExactWhenLinked
<1>1. IndInv => ExactWhenLinked
  BY DEF IndInv
<1>2. QED
  BY <1>1, ScanInvariance, PTL

(***************************************************************************)
(* The scan never fetches more than four hashes for each stale row, or one *)
(* when there is none (worker.rs:248-251, 830-837).                        *)
(***************************************************************************)
THEOREM FetchesLazily == Spec => []LazyFetches
<1>1. IndInv => LazyFetches
  <2> SUFFICES ASSUME IndInv PROVE LazyFetches
    OBVIOUS
  <2> DEFINE known == {h \in Heights : fetched[h] # NoHash}
             stale == Cardinality(StaleTop)
  <2>1. known \subseteq W
    BY DEF IndInv, FetchedOK
  <2>2. /\ IsFiniteSet(W) /\ Cardinality(W) \in Nat /\ Cardinality(W) <= depth
        /\ depth \in Nat \ {0} /\ stale \in Nat
    BY Finite, WindowSize DEF IndInv, W
  <2>3. Cardinality(known) <= Cardinality(W) /\ Cardinality(known) \in Nat
    BY <2>1, <2>2, FS_Subset, FS_CardinalityType
  <2>4. depth = 1 \/ depth <= 4 * stale
    BY DEF IndInv, DepthOK
  <2> HIDE DEF known, stale
  <2>5. Cardinality(known) <= IF stale = 0 THEN 1 ELSE 4 * stale
    BY <2>2, <2>3, <2>4
  <2>6. QED
    BY <2>5 DEF LazyFetches, known, stale
<1>2. QED
  BY <1>1, ScanInvariance, PTL

=============================================================================
