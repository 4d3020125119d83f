------------------------------- MODULE ForkScan -------------------------------
(***************************************************************************)
(* detect_fork (crates/indexer/src/worker.rs) on its own: the scan of the  *)
(* stored block hashes against a chain that stays as it is meanwhile, from *)
(* every content the block table and the chain can have.  Indexer has the  *)
(* same steps against a chain that moves; here the answer of the scan can  *)
(* be compared with the one a full comparison would give.                  *)
(***************************************************************************)
EXTENDS FollowDecisions

CONSTANT MaxHeight   \* bound: highest block

ASSUME MaxHeightAssumption == MaxHeight \in Nat \ {0}

Heights == 1..MaxHeight

VARIABLES
  local,      \* recent_block_hashes: the stored hash of each height that has a row
  chainAt,    \* the chain's hash of each height, NoHash beyond its head
  fetched,    \* the chain hashes got so far
  depth,      \* how many rows are compared
  verdict     \* what detect_fork returns, None until it does

vars == <<local, chainAt, fetched, depth, verdict>>

-----------------------------------------------------------------------------

None    == [kind |-> "None"]
Verdict == {None, NoReorg, Inconclusive} \cup {Fork(f) : f \in Heights}

Unseen == {h \in Window(local, depth) : fetched[h] = NoHash}

(***************************************************************************)
(* The chain has left branch 1 for branch 2 at `fork` and ends at `head`.  *)
(* Any heights may have rows (a chunk can be stored in part) of either     *)
(* branch (a chunk can be indexed across the reorg).                       *)
(***************************************************************************)
Init ==
  /\ \E rows \in SUBSET Heights : local \in [rows -> {1, 2}]
  /\ \E fork, head \in Heights :
       chainAt = [h \in Heights |-> IF h > head THEN NoHash
                                    ELSE IF h < fork THEN 1 ELSE 2]
  /\ fetched = [h \in Heights |-> NoHash]
  /\ depth = 1
  /\ verdict = None

\* Mutant: skips a missing block and asks for it again.
FetchNextSpins ==
  /\ verdict = None
  /\ \E h \in Unseen :
       /\ \A k \in Unseen : k <= h
       /\ fetched' = [fetched EXCEPT ![h] = chainAt[h]]
  /\ UNCHANGED <<local, chainAt, depth, verdict>>

\* The hash of the next row down the window; without one there is no verdict.
FetchNext ==
  /\ verdict = None
  /\ \E h \in Unseen :
       /\ \A k \in Unseen : k <= h
       /\ IF chainAt[h] = NoHash
          THEN verdict' = Inconclusive /\ UNCHANGED fetched
          ELSE fetched' = [fetched EXCEPT ![h] = chainAt[h]] /\ UNCHANGED verdict
  /\ UNCHANGED <<local, chainAt, depth>>

\* The retries of the RPC are used up.
RpcFails ==
  /\ verdict = None
  /\ Unseen # {}
  /\ verdict' = Inconclusive
  /\ UNCHANGED <<local, chainAt, fetched, depth>>

\* The window is complete: answer, or widen it.
Decide ==
  /\ verdict = None
  /\ Unseen = {}
  /\ LET scan == ClassifyFork(local, fetched, depth) IN
       IF scan # NeedDeeper
       THEN verdict' = scan /\ UNCHANGED depth
       ELSE /\ depth' = NextScanDepth(depth, Cardinality(DOMAIN local))
            /\ verdict' = IF depth' = depth THEN Fork(Min(DOMAIN local)) ELSE None
  /\ UNCHANGED <<local, chainAt, fetched>>

Next == FetchNext \/ RpcFails \/ Decide

Spec == Init /\ [][Next]_vars /\ WF_vars(FetchNext \/ Decide)

-----------------------------------------------------------------------------
(* Properties *)

Agrees(h) == local[h] = chainAt[h]

\* What a hash chain gives: below a row the chain has, the chain has every row.
Linked == \A h, k \in DOMAIN local : k < h /\ Agrees(h) => Agrees(k)

\* The rows from the highest one down that differ from the chain.
StaleTop ==
  {h \in DOMAIN local : \A k \in DOMAIN local : k >= h => ~ Agrees(k)}

\* Every variable has its type.
TypeOK ==
  /\ DOMAIN local \subseteq Heights
  /\ \A h \in DOMAIN local : local[h] \in {1, 2}
  /\ chainAt \in [Heights -> {NoHash, 1, 2}]
  /\ fetched \in [Heights -> {NoHash, 1, 2}]
  /\ depth \in Nat
  /\ verdict \in Verdict

(***************************************************************************)
(* "the exact minimum common ancestor" (docs/realtime-follow.md:117) holds *)
(* where the stored rows are linked: reading only as deep as it needs, the *)
(* scan answers what comparing every row would.  A rollback from its       *)
(* answer leaves no stale row and takes no good one, and no answer but     *)
(* Inconclusive leaves the rows alone while one is stale                   *)
(* (worker.rs:246-305, 783-828).                                           *)
(***************************************************************************)
ExactWhenLinked ==
  Linked =>
    /\ \A f \in Heights : verdict = Fork(f) =>
         {h \in DOMAIN local : h >= f} = {h \in DOMAIN local : ~ Agrees(h)}
    /\ verdict = NoReorg => \A h \in DOMAIN local : Agrees(h)

(***************************************************************************)
(* Whatever the rows are, a rollback takes exactly the run of stale rows   *)
(* at the top: it never takes a row the chain has, and it never stops      *)
(* short of the highest row the chain has (worker.rs:796-827).             *)
(***************************************************************************)
RollsBackStaleTop ==
  \A f \in Heights : verdict = Fork(f) => {h \in DOMAIN local : h >= f} = StaleTop

(***************************************************************************)
(* The scan is lazy: one fetch when the tip agrees, and never more than    *)
(* four times as many as there are stale rows to find, so that a shallow   *)
(* reorg does not cost the RPC node a scan of 4096 blocks                  *)
(* (worker.rs:248-251, 830-837).                                           *)
(***************************************************************************)
LazyFetches ==
  LET stale == Cardinality(StaleTop)
  IN  Cardinality({h \in Heights : fetched[h] # NoHash})
        <= IF stale = 0 THEN 1 ELSE 4 * stale

W == Window(local, depth)

\* What is fetched is the chain's, and of the window.
FetchedOK ==
  \A h \in Heights : fetched[h] # NoHash => fetched[h] = chainAt[h] /\ h \in W

\* A scan looks deeper only after it has found as many stale rows as it was deep.
DepthOK == depth = 1 \/ depth <= 4 * Cardinality(StaleTop)

(***************************************************************************)
(* The inductive invariant: the hashes fetched are a part of the window,   *)
(* and the window has grown only over rows that differ, so that the answer *)
(* is what comparing every row would give (worker.rs:264-305).             *)
(***************************************************************************)
IndInv ==
  /\ TypeOK /\ FetchedOK /\ depth \in Nat \ {0} /\ DepthOK
  /\ ExactWhenLinked /\ RollsBackStaleTop

\* The widening comes to an end: every scan returns (worker.rs:264-303).
Returns == <>(verdict # None)

=============================================================================
