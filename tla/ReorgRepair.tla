----------------------------- MODULE ReorgRepair -----------------------------
(***************************************************************************)
(* How far "reorgs are corrected to the exact minimum common ancestor"     *)
(* (docs/realtime-follow.md) goes.  A scan compares one stored block when  *)
(* that one agrees with the chain, and never looks below it again; it is   *)
(* right to do so only while the stored blocks are linked like those of a  *)
(* chain.  Indexer is watched here by one history variable: what the scans *)
(* since the last reorg have settled, and whether a block was fetched      *)
(* while that was still open.                                              *)
(***************************************************************************)
EXTENDS Indexer

VARIABLE trust

repairVars == <<vars, trust>>

\* "sure"      no reorg since a scan found none, or since the start
\* "unsure"    a reorg, and no scan has begun since
\* "checking"  a reorg, and no other since the current or last scan began
\* "blind"     a block was fetched while unsure or checking
TrustLevels == {"sure", "unsure", "checking", "blind"}

BeginsScan   == Start \/ Wake \/ RollbackFork
FindsNoReorg == NoFork /\ ClassifyFork(LocalHashes, seen, depth) = NoReorg
FetchesBlock == \E h \in Heights : FetchBlock(h)

Watch ==
  \/ /\ trust = "sure"
     /\ trust' = IF Reorg THEN "unsure" ELSE "sure"
  \/ /\ trust = "unsure"
     /\ trust' = IF FetchesBlock THEN "blind"
                 ELSE IF BeginsScan THEN "checking" ELSE "unsure"
  \/ /\ trust = "checking"
     /\ trust' = IF FetchesBlock THEN "blind"
                 ELSE IF Reorg THEN "unsure"
                 ELSE IF FindsNoReorg THEN "sure" ELSE "checking"
  \/ /\ trust = "blind"
     /\ trust' = "blind"

RepairInit == Init /\ trust = "sure"
RepairNext == Next /\ Watch
RepairSpec == RepairInit /\ [][RepairNext]_repairVars

-----------------------------------------------------------------------------
(* Properties *)

Agrees(h) == blockHash[h] = chain[h]

(***************************************************************************)
(* A scan that finds no reorg speaks for every stored block, though it has *)
(* compared the highest one only, on a chain that kept still: as long as   *)
(* no block was fetched between a reorg and the scan that answers it, each *)
(* stored block is then the chain's (worker.rs:246-305).                   *)
(***************************************************************************)
NoReorgMeansNone == trust = "sure" => \A h \in Rows : Agrees(h)

(***************************************************************************)
(* Under the same condition a rollback whose scan met a chain that kept    *)
(* still deletes exactly the stored blocks the chain has replaced, of      *)
(* those within REORG_SCAN_CAP: none of the others, and all of these at    *)
(* once, however deep (worker.rs:144-158, 246-305, queries.rs:832-903).    *)
(***************************************************************************)
RollbackExact ==
  [][LET deleted == {h \in Rows : blockHash'[h] = NoHash}
     IN  trust \in {"sure", "checking"} /\ deleted # {} =>
           deleted = {h \in DOMAIN LocalHashes : ~ Agrees(h)}]_repairVars

-----------------------------------------------------------------------------
(* What they rest on. *)

\* The hashes the indexer holds of a height: the stored one, or one that a task
\* has fetched and not stored yet.
Held(h) == {blockHash[h], task[h].block} \ {NoHash}

\* The branches of the chain rise with the heights up to the head, and what is
\* held of its newest branch is on it.
NewestOnChain ==
  /\ \A h, k \in Heights : h <= k /\ k <= head => chain[h] <= chain[k]
  /\ \A h \in Heights : head < h => chain[h] = NoHash
  /\ \A h \in Heights : \A b \in Held(h) :
       /\ b <= chain[head]
       /\ b = chain[head] => b = chain[h]

\* Below a block the chain has, it has every block that is held.
Linked ==
  \A h, k \in Heights :
    k < h /\ chain[h] \in Held(h) => Held(k) \subseteq {chain[k]}

TrustInv ==
  /\ trust \in TrustLevels
  /\ depth >= 1
  /\ \A h \in Heights : task[h].stage = "idle" => task[h].block = NoHash
  /\ NewestOnChain
  /\ trust # "blind" => Linked
  /\ trust = "sure" => \A h \in Heights : Held(h) \subseteq {chain[h]}
  /\ trust \in {"sure", "checking"} =>
       \A h \in Heights : seen[h] \in {NoHash, chain[h]}

(***************************************************************************)
(* What every step of the loop keeps, watched or not: the stored blocks    *)
(* and those that tasks hold stay linked as long as no block is fetched    *)
(* between a reorg and the scan that answers it, and with it all that      *)
(* IndInv says of the loop, which is never stuck (WorkerPool::follow,      *)
(* worker.rs:94-244).                                                      *)
(***************************************************************************)
RepairInv == IndInv /\ TrustInv /\ NeverStuck

=============================================================================
