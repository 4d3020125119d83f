--------------------------- MODULE FollowDecisions ---------------------------
(***************************************************************************)
(* The pure decision functions of the indexer's follow loop                *)
(* (crates/indexer/src/worker.rs): what range to index next, how to cut it *)
(* to one cycle, how far the local blocks agree with the chain, how to     *)
(* widen the reorg scan.                                                   *)
(*                                                                         *)
(* The hash of a block is abstracted to the number of the chain branch the *)
(* block belongs to: two blocks of one height have the same hash exactly   *)
(* when they are of the same branch.  Branches are numbered from 1, so     *)
(* that NoHash is the `None` of an absent hash.  The rows the database     *)
(* holds are a function `local` from heights to hashes; the code's list is *)
(* its domain in descending order.                                         *)
(***************************************************************************)
EXTENDS Integers, FiniteSets, FiniteSetsExt

NoHash == 0

\* `None` of an Option<i64> checkpoint; the follow log prints it as -1 too.
NoCheckpoint == -1

-----------------------------------------------------------------------------
(* Ranges *)

\* u64::saturating_sub
SaturatingSub(a, b) == IF a >= b THEN a - b ELSE 0

\* The empty range stands for the `None` of next_target.
NoTarget == [from |-> 1, to |-> 0]

\* The first block to index and the last one that is confirmed.
NextTarget(head, confirmations, checkpoint) ==
  LET safe   == SaturatingSub(head, confirmations)
      resume == IF checkpoint = NoCheckpoint THEN safe
                ELSE (IF checkpoint >= 0 THEN checkpoint ELSE 0) + 1
  IN  IF resume > safe THEN NoTarget ELSE [from |-> resume, to |-> safe]

\* At most capBlocks blocks of a range; a cap of 0 cuts nothing.
CapRangeTo(range, capBlocks) ==
  IF \/ capBlocks = 0
     \/ range.to < range.from
     \/ range.to - range.from + 1 <= capBlocks
  THEN range
  ELSE [range EXCEPT !.to = range.from + capBlocks - 1]

-----------------------------------------------------------------------------
(* Reorg scan *)

\* Mutant: the list is ascending.
WindowAscending(local, depth) ==
  {h \in DOMAIN local :
     Cardinality({k \in DOMAIN local : k < h}) < depth}

\* The `depth` highest rows: the slice local[..depth] of the descending list.
Window(local, depth) ==
  {h \in DOMAIN local :
     Cardinality({k \in DOMAIN local : k > h}) < depth}

NoReorg      == [kind |-> "NoReorg"]
Inconclusive == [kind |-> "Inconclusive"]
NeedDeeper   == [kind |-> "NeedDeeper"]
Fork(f)      == [kind |-> "Fork", at |-> f]

\* Mutant: gives the common ancestor, not the first block to delete.
ForkAtAncestor(local, chainAt, depth) ==
  LET scanned    == Window(local, depth)
      halts      == {h \in scanned : chainAt[h] \in {NoHash, local[h]}}
      mismatched == {h \in scanned : \A k \in halts : k < h}
  IN  IF mismatched = {} THEN NoReorg ELSE Fork(Min(mismatched) - 1)

\* Mutant: takes the bottom of the window for the fork.
ForkWithoutWidening(local, chainAt, depth) ==
  LET scanned    == Window(local, depth)
      halts      == {h \in scanned : chainAt[h] \in {NoHash, local[h]}}
      mismatched == {h \in scanned : \A k \in halts : k < h}
  IN  IF mismatched = {} THEN NoReorg ELSE Fork(Min(mismatched))

\* Mutant: no verdict unless a stored block agrees with the chain.
ForkNeedsAncestor(local, chainAt, depth) ==
  LET scanned    == Window(local, depth)
      halts      == {h \in scanned : chainAt[h] \in {NoHash, local[h]}}
      mismatched == {h \in scanned : \A k \in halts : k < h}
  IN  IF halts = {} THEN (IF scanned = DOMAIN local THEN Inconclusive ELSE NeedDeeper)
      ELSE IF mismatched = {} THEN NoReorg ELSE Fork(Min(mismatched))

(***************************************************************************)
(* The loop of classify_fork goes down the window and returns at the first *)
(* height whose chain hash is unknown or equal to the local one.  `halts`  *)
(* are the heights where it would return, `mismatched` those it has passed *)
(* before the highest of them.                                             *)
(***************************************************************************)
ClassifyFork(local, chainAt, depth) ==
  LET scanned    == Window(local, depth)
      halts      == {h \in scanned : chainAt[h] \in {NoHash, local[h]}}
      mismatched == {h \in scanned : \A k \in halts : k < h}
      unknown    == \E h \in halts : /\ chainAt[h] = NoHash
                                     /\ \A k \in halts : k <= h
  IN  IF scanned = {} THEN NoReorg
      ELSE IF unknown THEN Inconclusive
      ELSE IF halts = {} /\ scanned # DOMAIN local THEN NeedDeeper
      ELSE IF mismatched = {} THEN NoReorg
      ELSE Fork(Min(mismatched))

\* Mutant: a last window that would not be full is not tried.
NextScanDepthShort(current, max) == IF 4 * current <= max THEN 4 * current ELSE current

\* Mutant: scans everything once the tip differs.
NextScanDepthEager(current, max) == max

\* Four times as deep, at least one deeper, never beyond the rows there are.
NextScanDepth(current, max) ==
  IF current >= max THEN max
  ELSE LET wider == IF 4 * current > current + 1 THEN 4 * current ELSE current + 1
       IN  IF wider > max THEN max ELSE wider

=============================================================================
