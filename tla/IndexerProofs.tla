---------------------------- MODULE IndexerProofs ----------------------------
(***************************************************************************)
(* Proofs about Indexer, for every value of its constants: the inductive   *)
(* invariant, and with it the type invariant, the dependencies between     *)
(* rows, what the checkpoint covers, and that no rollback is blind.        *)
(***************************************************************************)
EXTENDS Indexer, FollowDecisionsProofs

-----------------------------------------------------------------------------
(* The rows of the scan *)

\* There are finitely many rows, and they are at natural heights.
LEMMA RowsFinite ==
  /\ IsFiniteSet(Heights) /\ Heights \subseteq Nat
  /\ Rows \subseteq Heights /\ DOMAIN RowHashes = Rows
  /\ DOMAIN LocalHashes \subseteq Rows
  /\ IsFiniteSet(Rows) /\ IsFiniteSet(DOMAIN LocalHashes)
<1>1. IsFiniteSet(Heights) /\ Heights \subseteq Nat
  BY ConstantsAssumption, FS_Interval DEF Heights
<1>2. Rows \subseteq Heights /\ DOMAIN RowHashes = Rows
  BY DEF Rows, RowHashes
<1>3. DOMAIN LocalHashes \subseteq Rows
  BY <1>2 DEF LocalHashes, Window
<1>4. IsFiniteSet(Rows) /\ IsFiniteSet(DOMAIN LocalHashes)
  BY <1>1, <1>2, <1>3, FS_Subset
<1>5. QED
  BY <1>1, <1>2, <1>3, <1>4

(***************************************************************************)
(* When the scan of the stored rows says Fork(f), this scan knows of every *)
(* stored block from f on that the chain has another one.                  *)
(***************************************************************************)
LEMMA ForkOfRows ==
  ASSUME depth \in Nat, NEW f,
         ClassifyFork(LocalHashes, seen, depth) = Fork(f)
  PROVE  /\ f \in Rows
         /\ \A h \in Rows : f <= h => seen[h] \notin {NoHash, blockHash[h]}
<1>1. /\ IsFiniteSet(DOMAIN LocalHashes) /\ DOMAIN LocalHashes \subseteq Nat
      /\ IsFiniteSet(DOMAIN RowHashes) /\ DOMAIN RowHashes \subseteq Nat
      /\ DOMAIN RowHashes = Rows
  BY RowsFinite
<1>2. /\ f \in Window(LocalHashes, depth)
      /\ \A h \in DOMAIN LocalHashes :
           f <= h => seen[h] \notin {NoHash, LocalHashes[h]}
  BY <1>1, ForkMismatch
<1>3. f \in DOMAIN LocalHashes
  BY <1>2 DEF Window
<1>4. f \in Window(RowHashes, ScanCap)
  BY <1>3 DEF LocalHashes
<1>5. ASSUME NEW h \in Rows, f <= h
      PROVE  seen[h] \notin {NoHash, blockHash[h]}
  <2>1. ScanCap \in Nat
    BY ConstantsAssumption
  <2>2. h \in Window(RowHashes, ScanCap)
    BY <1>1, <1>4, <1>5, <2>1, WindowUp
  <2>3. h \in DOMAIN LocalHashes /\ LocalHashes[h] = blockHash[h]
    BY <2>2 DEF LocalHashes
  <2>4. QED
    BY <1>2, <1>5, <2>3
<1>6. QED
  BY <1>1, <1>4, <1>5 DEF Window

-----------------------------------------------------------------------------
(* The inductive invariant *)

\* The empty database and the one a fixed-range run has left satisfy it.
LEMMA InitIndInv == Init => IndInv
<1> SUFFICES ASSUME Init PROVE IndInv
  OBVIOUS
<1> USE ConstantsAssumption
<1>1. PICK b \in 0..Backfill :
        LET done == 1..b IN
        /\ chain = [h \in Heights |-> IF h <= Backfill THEN 1 ELSE NoHash]
        /\ head = Backfill
        /\ blockHash = [h \in Heights |-> IF h \in done THEN 1 ELSE NoHash]
        /\ txs = [h \in Heights |-> IF h \in done THEN {1} ELSE {}]
        /\ events = txs
        /\ traces = [h \in Heights |-> [v \in Branches |->
                       IF h \in done /\ v = 1 THEN 1 ELSE 0]]
        /\ failed = txs
        /\ checkpoint = IF b = 0 THEN NoCheckpoint ELSE b
        /\ processed = done
        /\ origin = 1
        /\ ranges = IF b = 0 THEN 0 ELSE 1
  BY DEF Init
<1>2. /\ pc = "stopped" /\ cancel = FALSE /\ seen = NothingSeen /\ depth = 1
      /\ next = 1 /\ to = 0 /\ last = 0 /\ task = NoTasks /\ faults = 0
      /\ jumped = {} /\ skipped = {} /\ ranged = FALSE
  BY DEF Init
<1>3. 1 \in Branches /\ Branches \subseteq Hashes /\ NoHash \in Hashes
  BY DEF Branches, Hashes
<1>4. 0 \in Heights /\ 1..b \subseteq Heights /\ Backfill \in Heights
  BY DEF Heights
<1>5. Idle \in Tasks /\ Idle.stage = "idle" /\ Idle.block = NoHash
  BY <1>3 DEF Idle, Tasks, Stages
<1>6. TypeOK
  <2>1. /\ chain \in [Heights -> Hashes] /\ blockHash \in [Heights -> Hashes]
        /\ head \in Heights
    BY <1>1, <1>3, <1>4
  <2>2. /\ txs \in [Heights -> SUBSET Branches] /\ events = txs /\ failed = txs
    BY <1>1, <1>3
  <2>3. traces \in [Heights -> [Branches -> Nat]]
    BY <1>1, <1>3
  <2>4. /\ checkpoint \in Nat \cup {NoCheckpoint} /\ origin \in Nat
        /\ processed \subseteq Heights /\ ranges \in Nat
    BY <1>1, <1>4
  <2>5. /\ seen \in [Heights -> Hashes] /\ task \in [Heights -> Tasks]
    BY <1>2, <1>3, <1>5 DEF NothingSeen, NoTasks
  <2>6. QED
    BY <1>2, <2>1, <2>2, <2>3, <2>4, <2>5 DEF TypeOK
<1>7. ChainOK
  BY <1>1, <1>2, <1>3, <1>4, <1>5 DEF ChainOK, NothingSeen, NoTasks, Heights
<1>8. RangeOK
  BY <1>2, <1>5 DEF RangeOK, BeginsRight, NoTasks
<1>9. \A h \in Heights : TaskOK(h)
  BY <1>2, <1>5 DEF TaskOK, NoTasks
<1>10. RowDependencies
  <2> SUFFICES ASSUME NEW h \in Heights
               PROVE  /\ \A v \in failed[h] : traces[h][v] > 0
                      /\ \A v \in Branches : traces[h][v] > 0 => v \in events[h]
                      /\ events[h] \subseteq txs[h]
                      /\ txs[h] # {} => blockHash[h] # NoHash
    BY DEF RowDependencies
  <2>1. CASE h \in 1..b
    BY <1>1, <1>3, <2>1 DEF NoHash
  <2>2. CASE h \notin 1..b
    BY <1>1, <1>3, <2>2
  <2>3. QED
    BY <2>1, <2>2
<1>11. CheckpointCovered
  BY <1>1 DEF CheckpointCovered, Heights, NoCheckpoint
<1>12. QED
  BY <1>6, <1>7, <1>8, <1>9, <1>10, <1>11 DEF IndInv

\* The chain moves: the rows and the tasks do not depend on it.
LEMMA ChainStep ==
  ASSUME IndInv, Extend \/ Reorg
  PROVE  IndInv'
<1> USE ConstantsAssumption
<1>1. TypeOK /\ ChainOK /\ RangeOK /\ RowDependencies /\ CheckpointCovered
      /\ \A h \in Heights : TaskOK(h)
  BY DEF IndInv
<1>2. UNCHANGED <<modeVars, rowVars, checkpoint, pc, cancel, scanVars, rangeVars,
                  task, faults, historyVars>>
  BY DEF Extend, Reorg
<1>3. /\ head' \in Heights /\ chain' \in [Heights -> Hashes]
      /\ \A h \in Heights : h <= head' => chain'[h] \in Branches
      /\ chain'[0] = 1
  <2>1. head \in Heights /\ chain \in [Heights -> Hashes] /\ chain[head] \in Branches
        /\ chain[0] = 1 /\ 0 \in Heights
        /\ \A h \in Heights : h <= head => chain[h] \in Branches
    BY <1>1 DEF TypeOK, ChainOK, Heights
  <2>2. CASE Extend
    BY <2>1, <2>2 DEF Extend, Heights, Hashes
  <2>3. CASE Reorg
    <3>1. PICK fork \in 1..head : \E newHead \in fork..head :
            /\ head' = newHead
            /\ chain' = [h \in Heights |->
                           IF h < fork THEN chain[h]
                           ELSE IF h <= newHead THEN chain[head] + 1 ELSE NoHash]
      BY <2>3 DEF Reorg
    <3>2. chain[head] + 1 \in Branches
      BY <2>1, <2>3 DEF Reorg, Branches
    <3>3. QED
      BY <2>1, <3>1, <3>2 DEF Heights, Hashes, NoHash
  <2>4. QED
    BY <2>2, <2>3
<1>4. TypeOK' /\ ChainOK'
  BY <1>1, <1>2, <1>3 DEF TypeOK, ChainOK, modeVars, rowVars, scanVars, rangeVars,
     historyVars
<1>5. RangeOK' /\ CheckpointCovered'
  BY <1>1, <1>2 DEF RangeOK, BeginsRight, CheckpointCovered, rangeVars, historyVars
<1>6. RowDependencies' /\ \A h \in Heights : TaskOK(h)'
  BY <1>1, <1>2 DEF RowDependencies, TaskOK, rowVars, historyVars
<1>7. QED
  BY <1>4, <1>5, <1>6 DEF IndInv

\* A cycle begins, or a step of the scan that deletes nothing.
LEMMA ScanStep ==
  ASSUME IndInv,
         Start \/ Wake \/ FetchChainHash \/ ScanRpcFails \/ NoFork \/ WidenScan
  PROVE  IndInv'
<1> USE ConstantsAssumption
<1>1. TypeOK /\ ChainOK /\ RangeOK /\ RowDependencies /\ CheckpointCovered
      /\ \A h \in Heights : TaskOK(h)
  BY DEF IndInv
<1>2. /\ UNCHANGED <<chainVars, modeVars, rowVars, checkpoint, cancel, rangeVars,
                     task, historyVars>>
      /\ pc # "work" /\ pc' \in {"scan", "head"}
  BY DEF Start, Wake, FetchChainHash, ScanRpcFails, NoFork, WidenScan, BeginScan,
         EndScan, scanVars
<1>3. NothingSeen \in [Heights -> Hashes] /\ NothingSeen[0] = NoHash /\ 0 \in Heights
  BY DEF NothingSeen, Hashes, Heights
<1>4. seen' \in [Heights -> Hashes] /\ seen'[0] \in {NoHash, 1}
  <2>1. seen \in [Heights -> Hashes] /\ seen[0] \in {NoHash, 1} /\ chain[0] = 1
        /\ chain \in [Heights -> Hashes]
    BY <1>1 DEF TypeOK, ChainOK
  <2>2. CASE UNCHANGED seen
    BY <2>1, <2>2
  <2>3. CASE seen' = NothingSeen
    BY <1>3, <2>3
  <2>4. CASE \E h \in Unseen : seen' = [seen EXCEPT ![h] = chain[h]]
    <3>1. Unseen \subseteq Heights
      BY RowsFinite DEF Unseen, Window
    <3>2. QED
      BY <1>3, <2>1, <2>4, <3>1
  <2>5. QED
    BY <2>2, <2>3, <2>4 DEF Start, Wake, FetchChainHash, ScanRpcFails, NoFork,
       WidenScan, BeginScan, EndScan
<1>5. depth' \in Nat /\ faults' \in Nat
  <2>1. depth \in Nat /\ faults \in Nat
    BY <1>1 DEF TypeOK
  <2>2. Cardinality(DOMAIN LocalHashes) \in Nat
    BY RowsFinite, FS_CardinalityType
  <2>3. NextScanDepth(depth, Cardinality(DOMAIN LocalHashes)) \in Nat
    BY <2>1, <2>2 DEF NextScanDepth
  <2>4. QED
    BY <2>1, <2>3 DEF Start, Wake, FetchChainHash, ScanRpcFails, NoFork,
       WidenScan, BeginScan, EndScan, scanVars
<1>6. TypeOK' /\ ChainOK'
  BY <1>1, <1>2, <1>4, <1>5 DEF TypeOK, ChainOK, chainVars, modeVars, rowVars,
     rangeVars, historyVars
<1>7. RangeOK' /\ CheckpointCovered'
  BY <1>1, <1>2 DEF RangeOK, BeginsRight, CheckpointCovered, rangeVars, historyVars
<1>8. RowDependencies' /\ \A h \in Heights : TaskOK(h)'
  BY <1>1, <1>2 DEF RowDependencies, TaskOK, rowVars, historyVars
<1>9. QED
  BY <1>6, <1>7, <1>8 DEF IndInv

\* A fork is never at genesis, whose hash the chain keeps.
LEMMA RollbackAboveGenesis ==
  ASSUME IndInv, RollbackFork
  PROVE  \E f \in Heights \ {0} : RollbackFromBlock(f)
<1>1. PICK f \in Heights : /\ ClassifyFork(LocalHashes, seen, depth) = Fork(f)
                           /\ RollbackFromBlock(f)
  BY DEF RollbackFork
<1>2. depth \in Nat /\ ChainOK
  BY DEF IndInv, TypeOK
<1>3. f \in Rows /\ seen[f] \notin {NoHash, blockHash[f]}
  BY <1>1, <1>2, ForkOfRows, ConstantsAssumption DEF Heights
<1>4. f # 0
  BY <1>2, <1>3 DEF ChainOK, Rows
<1>5. QED
  BY <1>1, <1>4

(***************************************************************************)
(* A rollback: what it clears it clears in every table, and the blocks it  *)
(* moves the checkpoint up over are in `jumped`.  It never reaches genesis,*)
(* whose hash the chain keeps.                                             *)
(***************************************************************************)
LEMMA RollbackStep ==
  ASSUME IndInv, RollbackFork
  PROVE  IndInv'
<1> USE ConstantsAssumption
<1>1. TypeOK /\ ChainOK /\ RangeOK /\ RowDependencies /\ CheckpointCovered
  BY DEF IndInv
<1>2. PICK f \in Heights \ {0} : RollbackFromBlock(f)
  BY RollbackAboveGenesis
<1>3. /\ UNCHANGED <<chainVars, modeVars, cancel, rangeVars, task, faults, origin>>
      /\ pc = "scan" /\ pc' = "scan" /\ seen' = NothingSeen /\ depth' = 1
  BY DEF RollbackFork, BeginScan
<1>4. f \in Nat \ {0}
  BY <1>2 DEF Heights
<1>5. /\ checkpoint' = IF checkpoint = NoCheckpoint THEN NoCheckpoint ELSE f - 1
      /\ processed' = {h \in processed : h < f}
      /\ skipped' = {h \in skipped : h < f}
      /\ jumped' = {h \in jumped : h < f}
                   \cup {h \in Heights : checkpoint # NoCheckpoint
                                         /\ checkpoint < h /\ h < f}
  BY <1>2, <1>4 DEF RollbackFromBlock
<1>6. /\ events' = [h \in Heights |-> IF h >= f THEN {} ELSE events[h]]
      /\ traces' = [h \in Heights |-> IF h >= f THEN [v \in Branches |-> 0]
                                      ELSE traces[h]]
      /\ failed' = [h \in Heights |-> IF h >= f THEN {} ELSE failed[h]]
      /\ txs' = [h \in Heights |-> IF h >= f THEN {} ELSE txs[h]]
      /\ blockHash' = [h \in Heights |-> IF h >= f THEN NoHash ELSE blockHash[h]]
  BY <1>2 DEF RollbackFromBlock, Cleared
<1>7. TypeOK'
  <2>1. checkpoint' \in Nat \cup {NoCheckpoint}
    BY <1>4, <1>5
  <2>2. /\ processed' \in SUBSET Heights /\ jumped' \in SUBSET Heights
        /\ skipped' \in SUBSET Heights
    BY <1>1, <1>5 DEF TypeOK
  <2>3. /\ events' \in [Heights -> SUBSET Branches]
        /\ failed' \in [Heights -> SUBSET Branches]
        /\ txs' \in [Heights -> SUBSET Branches]
    BY <1>1, <1>6 DEF TypeOK
  <2>4. /\ traces' \in [Heights -> [Branches -> Nat]]
        /\ blockHash' \in [Heights -> Hashes]
    BY <1>1, <1>6 DEF TypeOK, Hashes
  <2>5. seen' \in [Heights -> Hashes]
    BY <1>3 DEF NothingSeen, Hashes
  <2>6. QED
    BY <1>1, <1>3, <2>1, <2>2, <2>3, <2>4, <2>5 DEF TypeOK, chainVars, modeVars,
       rangeVars
<1>8. ChainOK'
  BY <1>1, <1>3, <1>6 DEF ChainOK, chainVars, NothingSeen, Heights
<1>9. RangeOK'
  BY <1>1, <1>3 DEF RangeOK, BeginsRight, rangeVars
<1>10. \A h \in Heights : TaskOK(h)'
  BY <1>1, <1>3 DEF RangeOK, BeginsRight, TaskOK
<1>11. RowDependencies'
  <2> SUFFICES ASSUME NEW h \in Heights
               PROVE  /\ \A v \in failed'[h] : traces'[h][v] > 0
                      /\ \A v \in Branches : traces'[h][v] > 0 => v \in events'[h]
                      /\ events'[h] \subseteq txs'[h]
                      /\ txs'[h] # {} => blockHash'[h] # NoHash
    BY DEF RowDependencies
  <2>1. CASE h >= f
    BY <1>6, <2>1
  <2>2. CASE ~ (h >= f)
    BY <1>1, <1>6, <2>2 DEF RowDependencies
  <2>3. QED
    BY <2>1, <2>2
<1>12. CheckpointCovered'
  <2> SUFFICES ASSUME checkpoint' # NoCheckpoint, NEW h \in Heights,
                      origin' <= h, h <= checkpoint'
               PROVE  h \in processed' \cup jumped' \cup skipped'
    BY DEF CheckpointCovered
  <2>1. /\ checkpoint # NoCheckpoint /\ checkpoint \in Nat /\ h < f /\ h \in Nat
        /\ origin <= h
    BY <1>1, <1>3, <1>4, <1>5 DEF TypeOK, Heights
  <2>2. CASE h <= checkpoint
    BY <1>1, <1>5, <2>1, <2>2 DEF CheckpointCovered
  <2>3. CASE checkpoint < h
    BY <1>5, <2>1, <2>3
  <2>4. QED
    BY <2>1, <2>2, <2>3
<1>13. QED
  BY <1>7, <1>8, <1>9, <1>10, <1>11, <1>12 DEF IndInv

\* The range of a cycle begins after the checkpoint, or fixes the origin.
LEMMA FetchHeadStep ==
  ASSUME IndInv, FetchHead
  PROVE  IndInv'
<1> USE ConstantsAssumption
<1>1. TypeOK /\ ChainOK /\ RangeOK /\ RowDependencies /\ CheckpointCovered
      /\ \A h \in Heights : TaskOK(h)
  BY DEF IndInv
<1> DEFINE safe   == SaturatingSub(head, Confirmations)
           resume == IF checkpoint = NoCheckpoint THEN safe
                     ELSE (IF checkpoint >= 0 THEN checkpoint ELSE 0) + 1
           target == NextTarget(head, Confirmations, checkpoint)
           range  == CapRangeTo(target, CycleCap)
<1>2. /\ UNCHANGED <<chainVars, modeVars, rowVars, checkpoint, cancel, scanVars, last,
                     task, faults, processed, jumped, skipped>>
      /\ pc = "head" /\ pc' = "boundary" /\ next' = range.from /\ to' = range.to
      /\ origin' = IF checkpoint = NoCheckpoint THEN range.from ELSE origin
  BY DEF FetchHead
<1>3. safe \in Nat /\ resume \in Nat
      /\ (checkpoint # NoCheckpoint => resume = checkpoint + 1)
  BY <1>1 DEF TypeOK, SaturatingSub, Heights
<1>4. target = IF resume > safe THEN NoTarget ELSE [from |-> resume, to |-> safe]
  BY DEF NextTarget
<1>5. /\ range.from = target.from /\ range.from \in Nat /\ range.to \in Nat
      /\ range.from <= range.to => range.from = resume /\ range.to <= safe
      /\ range.from <= range.to \/ range.to = 0
  <2>1. CASE target = NoTarget
    BY <2>1 DEF NoTarget, CapRangeTo
  <2>2. CASE target = [from |-> resume, to |-> safe] /\ resume <= safe
    BY <1>3, <2>2 DEF CapRangeTo
  <2>3. QED
    BY <1>3, <1>4, <2>1, <2>2
<1>6. TypeOK'
  BY <1>1, <1>2, <1>5 DEF TypeOK, chainVars, modeVars, rowVars, scanVars
<1>7. ChainOK'
  BY <1>1, <1>2 DEF ChainOK, chainVars, rowVars, scanVars
<1>8. RangeOK'
  <2>1. \A h \in Heights : task'[h].stage = "idle"
    BY <1>1, <1>2 DEF RangeOK, BeginsRight
  <2>2. ASSUME next' <= to', checkpoint # NoCheckpoint
        PROVE  /\ checkpoint < next'
               /\ ~ \E h \in Heights : checkpoint < h /\ h < next'
    <3>1. next' = checkpoint + 1 /\ checkpoint \in Nat
      BY <1>1, <1>2, <1>3, <1>5, <2>2 DEF TypeOK
    <3>2. QED
      BY <3>1 DEF Heights
  <2>3. checkpoint = NoCheckpoint => origin' = next'
    BY <1>2
  <2>4. next' <= to' => to' \in Heights
    BY <1>1, <1>2, <1>3, <1>5 DEF TypeOK, SaturatingSub, Heights
  <2>5. ~(to' > 0 /\ next' > to')
    BY <1>2, <1>5
  <2>6. QED
    BY <1>2, <2>1, <2>2, <2>3, <2>4, <2>5 DEF RangeOK, BeginsRight
<1>9. CheckpointCovered'
  BY <1>1, <1>2 DEF CheckpointCovered
<1>10. RowDependencies' /\ \A h \in Heights : TaskOK(h)'
  BY <1>1, <1>2 DEF RowDependencies, TaskOK, rowVars
<1>11. QED
  BY <1>6, <1>7, <1>8, <1>9, <1>10 DEF IndInv

\* A chunk starts with one queued task for each of its blocks.
LEMMA StartChunkStep ==
  ASSUME IndInv, StartChunk
  PROVE  IndInv'
<1> USE ConstantsAssumption
<1>1. TypeOK /\ ChainOK /\ RangeOK /\ RowDependencies /\ CheckpointCovered
  BY DEF IndInv
<1> DEFINE queued == [Idle EXCEPT !.stage = "queued"]
<1>2. /\ UNCHANGED <<chainVars, modeVars, rowVars, checkpoint, cancel, scanVars,
                     next, to, faults, historyVars>>
      /\ pc = "boundary" /\ pc' = "work" /\ next <= to
      /\ last' = IF next + BatchSize - 1 < to THEN next + BatchSize - 1 ELSE to
      /\ task' = [h \in Heights |-> IF next <= h /\ h <= last' THEN queued ELSE Idle]
  BY DEF StartChunk
<1>3. /\ Idle \in Tasks /\ queued \in Tasks /\ Idle.stage = "idle"
      /\ queued.stage = "queued" /\ Idle.block = NoHash /\ queued.block = NoHash
  BY DEF Idle, Tasks, Stages, Hashes
<1> HIDE DEF queued
<1>4. last' \in Nat
  BY <1>1, <1>2 DEF TypeOK
<1>5. task' \in [Heights -> Tasks]
  BY <1>2, <1>3
<1>6. TypeOK'
  BY <1>1, <1>2, <1>4, <1>5 DEF TypeOK, chainVars, modeVars, rowVars, scanVars,
     historyVars
<1>7. ChainOK'
  BY <1>1, <1>2, <1>3 DEF ChainOK, chainVars, rowVars, scanVars, Heights
<1>8. RangeOK'
  <2>1. next \in Nat /\ to \in Nat
    BY <1>1 DEF TypeOK
  <2>2. next <= last' /\ last' <= to
    BY <1>2, <2>1
  <2>3. \A h \in Heights : next <= h /\ h <= last' => task'[h].stage # "idle"
    BY <1>2, <1>3
  <2>4. BeginsRight'
    BY <1>1, <1>2 DEF RangeOK, BeginsRight, historyVars
  <2>5. QED
    BY <1>2, <2>2, <2>3, <2>4 DEF RangeOK
<1>9. \A h \in Heights : TaskOK(h)'
  BY <1>2, <1>3 DEF TaskOK
<1>10. RowDependencies' /\ CheckpointCovered'
  BY <1>1, <1>2 DEF RowDependencies, CheckpointCovered, rowVars, historyVars
<1>11. QED
  BY <1>6, <1>7, <1>8, <1>9, <1>10 DEF IndInv

(***************************************************************************)
(* The checkpoint moves to the end of a chunk: the blocks up to the old    *)
(* one were covered, those between it and the chunk are skipped, and every *)
(* task of the chunk is done.                                              *)
(***************************************************************************)
LEMMA SaveCheckpointStep ==
  ASSUME IndInv, SaveCheckpoint
  PROVE  IndInv'
<1> USE ConstantsAssumption
<1>1. TypeOK /\ ChainOK /\ RangeOK /\ RowDependencies /\ CheckpointCovered
      /\ \A h \in Heights : TaskOK(h)
  BY DEF IndInv
<1>2. /\ UNCHANGED <<chainVars, modeVars, rowVars, cancel, scanVars, to, last,
                     faults, historyVars>>
      /\ pc = "work" /\ pc' = "boundary"
      /\ \A h \in Heights : task[h].stage \in {"idle", "done"}
      /\ checkpoint' = last /\ next' = last + 1 /\ task' = NoTasks
  BY DEF SaveCheckpoint
<1>3. Idle \in Tasks /\ Idle.stage = "idle" /\ Idle.block = NoHash /\ last \in Nat
  BY <1>1 DEF Idle, Tasks, Stages, Hashes, TypeOK
<1>4. TypeOK'
  BY <1>1, <1>2, <1>3 DEF TypeOK, chainVars, modeVars, rowVars, scanVars, historyVars,
     NoTasks
<1>5. ChainOK'
  BY <1>1, <1>2, <1>3 DEF ChainOK, chainVars, rowVars, scanVars, NoTasks, Heights
<1>6. RangeOK'
  <2>1. \A h \in Heights : task'[h].stage = "idle"
    BY <1>2, <1>3 DEF NoTasks
  <2>2. /\ checkpoint' # NoCheckpoint /\ checkpoint' < next'
        /\ ~ \E h \in Heights : checkpoint' < h /\ h < next'
    BY <1>2, <1>3 DEF Heights, NoCheckpoint
  <2>3. to \in Heights /\ to' = to
    BY <1>1, <1>2 DEF RangeOK, BeginsRight, TypeOK, Heights
  <2>4. next' > to' => checkpoint' = to'
    BY <1>1, <1>2, <1>3, <2>3 DEF RangeOK, TypeOK
  <2>5. QED
    BY <1>2, <2>1, <2>2, <2>3, <2>4 DEF RangeOK, BeginsRight
<1>7. \A h \in Heights : TaskOK(h)'
  BY <1>2, <1>3 DEF TaskOK, NoTasks
<1>8. RowDependencies'
  BY <1>1, <1>2 DEF RowDependencies, rowVars
<1>9. CheckpointCovered'
  <2> SUFFICES ASSUME NEW h \in Heights, origin <= h, h <= last
               PROVE  h \in processed \cup jumped \cup skipped
    BY <1>2 DEF CheckpointCovered, historyVars
  <2>1. /\ h \in Nat /\ next \in Nat /\ origin \in Nat
        /\ checkpoint \in Nat \cup {NoCheckpoint}
    BY <1>1 DEF TypeOK, Heights
  <2>2. BeginsRight
    <3>1. next <= to
      BY <1>1, <1>2 DEF RangeOK, TypeOK
    <3>2. QED
      BY <1>1, <1>2, <3>1 DEF RangeOK
  <2>3. CASE next <= h
    <3>1. task[h].stage = "done"
      BY <1>1, <1>2, <2>3 DEF RangeOK, BeginsRight
    <3>2. QED
      BY <1>1, <3>1 DEF TaskOK
  <2>4. CASE h < next
    <3>1. checkpoint # NoCheckpoint
      BY <2>1, <2>2, <2>4 DEF BeginsRight
    <3>2. CASE h <= checkpoint
      BY <1>1, <3>1, <3>2 DEF CheckpointCovered
    <3>3. CASE checkpoint < h
      BY <2>2, <2>4, <3>1, <3>3 DEF BeginsRight
    <3>4. QED
      BY <2>1, <3>1, <3>2, <3>3
  <2>5. QED
    BY <2>1, <2>3, <2>4
<1>10. QED
  BY <1>4, <1>5, <1>6, <1>7, <1>8, <1>9 DEF IndInv

\* A range is given in fixed-range mode: what it leaves out is in `skipped`.
LEMMA StartRangeStep ==
  ASSUME IndInv, StartRange
  PROVE  IndInv'
<1> USE ConstantsAssumption
<1>1. TypeOK /\ ChainOK /\ RangeOK /\ RowDependencies /\ CheckpointCovered
      /\ \A h \in Heights : TaskOK(h)
  BY DEF IndInv
<1>2. /\ UNCHANGED <<chainVars, rowVars, checkpoint, cancel, scanVars, last, task,
                     faults, processed, jumped>>
      /\ pc = "stopped" /\ pc' = "boundary"
      /\ ranged' = TRUE /\ ranges' = ranges + 1
  BY DEF StartRange
<1>3. PICK from \in Heights, until \in Heights :
        LET resume == IF checkpoint >= from THEN checkpoint + 1 ELSE from IN
        /\ resume <= until
        /\ next' = resume
        /\ to' = until
        /\ origin' = IF checkpoint = NoCheckpoint THEN resume ELSE origin
        /\ skipped' = IF checkpoint = NoCheckpoint THEN skipped
                      ELSE skipped \cup {h \in Heights : checkpoint < h /\ h < resume}
  BY DEF StartRange
<1>4. /\ next' <= to'
      /\ from \in Nat /\ until \in Nat /\ next' \in Nat /\ to' \in Nat
      /\ checkpoint \in Nat \cup {NoCheckpoint}
      /\ origin' = IF checkpoint = NoCheckpoint THEN next' ELSE origin
      /\ skipped' = IF checkpoint = NoCheckpoint THEN skipped
                    ELSE skipped \cup {h \in Heights : checkpoint < h /\ h < next'}
      /\ checkpoint # NoCheckpoint => checkpoint < next'
  BY <1>1, <1>3 DEF TypeOK, Heights, NoCheckpoint
<1>5. TypeOK'
  <2>1. skipped' \in SUBSET Heights
    BY <1>1, <1>4 DEF TypeOK
  <2>2. origin' \in Nat /\ ranges' \in Nat
    BY <1>1, <1>2, <1>4 DEF TypeOK
  <2>3. ranged' \in BOOLEAN
    BY <1>2
  <2>4. QED
    BY <1>1, <1>2, <1>4, <2>1, <2>2, <2>3 DEF TypeOK, chainVars, rowVars, scanVars
<1>6. ChainOK'
  BY <1>1, <1>2 DEF ChainOK, chainVars, rowVars, scanVars
<1>7. RangeOK'
  <2>1. \A h \in Heights : task'[h].stage = "idle"
    BY <1>1, <1>2 DEF RangeOK
  <2>2. BeginsRight'
    BY <1>2, <1>3, <1>4 DEF BeginsRight
  <2>3. ~(next' > to')
    BY <1>4
  <2>4. QED
    BY <1>2, <2>1, <2>2, <2>3 DEF RangeOK
<1>8. CheckpointCovered'
  BY <1>1, <1>2, <1>4 DEF CheckpointCovered
<1>9. RowDependencies' /\ \A h \in Heights : TaskOK(h)'
  BY <1>1, <1>2 DEF RowDependencies, TaskOK, rowVars
<1>10. QED
  BY <1>5, <1>6, <1>7, <1>8, <1>9 DEF IndInv

\* A cycle or the process ends: at most the tasks, the range and what the scan
\* had fetched are gone.
LEMMA StopStep ==
  ASSUME IndInv,
         EndCycle \/ Crash \/ CtrlC \/ \E h \in Heights : BlockNotFound(h)
  PROVE  IndInv'
<1> USE ConstantsAssumption
<1>1. TypeOK /\ ChainOK /\ RangeOK /\ RowDependencies /\ CheckpointCovered
      /\ \A h \in Heights : TaskOK(h)
  BY DEF IndInv
<1>2. UNCHANGED <<chainVars, ranges, rowVars, checkpoint, historyVars>>
  BY DEF EndCycle, Crash, CtrlC, BlockNotFound, Exit, modeVars
<1>3. cancel' \in BOOLEAN /\ ranged' \in BOOLEAN
  <2>1. cancel \in BOOLEAN /\ ranged \in BOOLEAN
    BY <1>1 DEF TypeOK
  <2>2. CASE EndCycle
    BY <2>1, <2>2, Zenon DEF EndCycle, EndRange
  <2>3. CASE Crash \/ \E h \in Heights : BlockNotFound(h)
    BY <2>3, Zenon DEF Crash, BlockNotFound, Exit, EndRange
  <2>4. CASE CtrlC
    BY <2>1, <2>4, Zenon DEF CtrlC, modeVars
  <2>5. QED
    BY <2>2, <2>3, <2>4
<1>4. faults' \in Nat /\ next' \in Nat /\ to' \in Nat /\ last' \in Nat
  <2>1. faults \in Nat /\ next \in Nat /\ to \in Nat /\ last \in Nat
    BY <1>1 DEF TypeOK
  <2>2. QED
    BY <2>1 DEF EndCycle, Crash, CtrlC, BlockNotFound, Exit, EndRange, rangeVars
<1>5. Idle \in Tasks /\ Idle.stage = "idle" /\ Idle.block = NoHash
  BY DEF Idle, Tasks, Stages, Hashes
<1>6. \/ pc' = "stopped" /\ task' = NoTasks
      \/ UNCHANGED <<task, rangeVars>> /\ pc' = pc
      \/ UNCHANGED task /\ pc # "work" /\ pc' \in {"stopped", "wait"}
  <2>1. CASE EndCycle
    BY <2>1 DEF EndCycle
  <2>2. CASE Crash \/ \E h \in Heights : BlockNotFound(h)
    BY <2>2 DEF Crash, BlockNotFound, Exit
  <2>3. CASE CtrlC
    BY <2>3 DEF CtrlC
  <2>4. QED
    BY <2>1, <2>2, <2>3
<1>7. \/ UNCHANGED scanVars
      \/ seen' = NothingSeen /\ depth' = 1
  BY DEF EndCycle, Crash, CtrlC, BlockNotFound, Exit
<1>8. /\ NothingSeen \in [Heights -> Hashes] /\ NothingSeen[0] = NoHash
      /\ 0 \in Heights
  BY DEF NothingSeen, Hashes, Heights
<1>9. /\ seen' \in [Heights -> Hashes] /\ depth' \in Nat
      /\ seen'[0] \in {NoHash, 1}
  BY <1>1, <1>7, <1>8 DEF TypeOK, ChainOK, scanVars
<1>10. TypeOK'
  BY <1>1, <1>2, <1>3, <1>4, <1>5, <1>6, <1>9
     DEF TypeOK, chainVars, rowVars, historyVars, NoTasks
<1>11. ChainOK'
  BY <1>1, <1>2, <1>5, <1>6, <1>8, <1>9 DEF ChainOK, chainVars, rowVars, NoTasks
<1>12. RangeOK'
  BY <1>1, <1>2, <1>5, <1>6 DEF RangeOK, BeginsRight, rangeVars, historyVars, NoTasks
<1>13. \A h \in Heights : TaskOK(h)'
  BY <1>1, <1>2, <1>5, <1>6 DEF TaskOK, rowVars, historyVars, NoTasks
<1>14. RowDependencies' /\ CheckpointCovered'
  BY <1>1, <1>2 DEF RowDependencies, CheckpointCovered, rowVars, historyVars
<1>15. QED
  BY <1>10, <1>11, <1>12, <1>13, <1>14 DEF IndInv

-----------------------------------------------------------------------------
(* The steps of a task *)

\* What RowDependencies says of one height.
RowsOK(h) ==
  /\ \A v \in failed[h] : traces[h][v] > 0
  /\ \A v \in Branches : traces[h][v] > 0 => v \in events[h]
  /\ events[h] \subseteq txs[h]
  /\ txs[h] # {} => blockHash[h] # NoHash

\* Everything but the height h is as it was.
OnlyAt(h) ==
  /\ \A k \in Heights \ {h} :
       /\ task'[k] = task[k]
       /\ blockHash'[k] = blockHash[k] /\ txs'[k] = txs[k]
       /\ events'[k] = events[k] /\ traces'[k] = traces[k]
       /\ failed'[k] = failed[k]
  /\ UNCHANGED <<chainVars, modeVars, checkpoint, pc, cancel, scanVars, rangeVars,
                 origin, jumped, skipped>>

\* The types a task step can disturb.
TaskTypes ==
  /\ task \in [Heights -> Tasks] /\ blockHash \in [Heights -> Hashes]
  /\ txs \in [Heights -> SUBSET Branches] /\ events \in [Heights -> SUBSET Branches]
  /\ traces \in [Heights -> [Branches -> Nat]]
  /\ failed \in [Heights -> SUBSET Branches]
  /\ processed \in SUBSET Heights /\ faults \in Nat

(***************************************************************************)
(* A step of one task preserves the invariant when it does so at its own   *)
(* height and forgets no processed block.                                  *)
(***************************************************************************)
LEMMA OneTask ==
  ASSUME IndInv, NEW h \in Heights,
         task[h].stage # "idle", task'[h].stage # "idle",
         OnlyAt(h), TaskTypes', TaskOK(h)', RowsOK(h)',
         processed \subseteq processed',
         blockHash'[h] \in {blockHash[h], task[h].block},
         task'[h].block \in {task[h].block, chain[h]}
  PROVE  IndInv'
<1> USE ConstantsAssumption
<1>1. TypeOK /\ ChainOK /\ RangeOK /\ RowDependencies /\ CheckpointCovered
      /\ \A k \in Heights : TaskOK(k)
  BY DEF IndInv
<1>2. TypeOK'
  BY <1>1 DEF TypeOK, TaskTypes, OnlyAt, chainVars, modeVars, scanVars, rangeVars
<1>3. ChainOK'
  <2>1. 0 \in Heights
    BY DEF Heights
  <2>2. {blockHash'[0], task'[0].block} \subseteq {NoHash, 1}
    BY <1>1, <2>1 DEF ChainOK, OnlyAt
  <2>3. QED
    BY <1>1, <2>2 DEF ChainOK, OnlyAt, chainVars, scanVars
<1>4. RangeOK'
  BY <1>1 DEF RangeOK, BeginsRight, OnlyAt, rangeVars
<1>5. \A k \in Heights : TaskOK(k)'
  <2> SUFFICES ASSUME NEW k \in Heights \ {h} PROVE TaskOK(k)'
    OBVIOUS
  <2>1. TaskOK(k)
    BY <1>1
  <2>2. QED
    BY <2>1 DEF TaskOK, OnlyAt
<1>6. RowDependencies'
  BY <1>1 DEF RowDependencies, RowsOK, OnlyAt
<1>7. CheckpointCovered'
  BY <1>1 DEF CheckpointCovered, OnlyAt
<1>8. QED
  BY <1>2, <1>3, <1>4, <1>5, <1>6, <1>7 DEF IndInv

\* What a step of the task of h may use of the invariant.
LEMMA TaskFacts ==
  ASSUME IndInv, NEW h \in Heights
  PROVE  /\ TaskTypes /\ TaskOK(h) /\ RowsOK(h)
         /\ task[h] \in Tasks /\ blockHash[h] \in Hashes /\ chain[h] \in Hashes
         /\ txs[h] \in SUBSET Branches /\ events[h] \in SUBSET Branches
         /\ traces[h] \in [Branches -> Nat] /\ failed[h] \in SUBSET Branches
BY DEF IndInv, TypeOK, TaskTypes, RowDependencies, RowsOK

LEMMA AcquirePermitStep ==
  ASSUME IndInv, NEW h \in Heights, AcquirePermit(h)
  PROVE  IndInv'
<1>1. /\ TaskTypes /\ TaskOK(h) /\ RowsOK(h) /\ task[h] \in Tasks
  BY TaskFacts
<1>2. /\ task[h].stage = "queued" /\ task' = [task EXCEPT ![h].stage = "fetch"]
      /\ UNCHANGED <<rowVars, processed, chainVars, modeVars, checkpoint, pc, cancel, scanVars,
                     rangeVars, faults, origin, jumped, skipped>>
  BY DEF AcquirePermit, TaskFrame
<1>3. task'[h] \in Tasks /\ task'[h].stage = "fetch" /\ task'[h].block = task[h].block
  BY <1>1, <1>2 DEF TaskTypes, Tasks, Stages
<1>4. OnlyAt(h) /\ TaskTypes'
  BY <1>1, <1>2, <1>3 DEF OnlyAt, TaskTypes, rowVars
<1>5. TaskOK(h)' /\ RowsOK(h)'
  BY <1>1, <1>2, <1>3 DEF TaskOK, RowsOK, rowVars
<1>6. QED
  BY <1>2, <1>3, <1>4, <1>5, OneTask DEF rowVars

\* An answer arrives; with the other one already there the task goes on.
LEMMA FetchStep ==
  ASSUME IndInv, NEW h \in Heights, FetchBlock(h) \/ FetchReceipts(h)
  PROVE  IndInv'
<1> DEFINE t == [task[h] EXCEPT !.block = chain[h]]
           u == [task[h] EXCEPT !.receipts = chain[h]]
<1>1. /\ TaskTypes /\ TaskOK(h) /\ RowsOK(h) /\ task[h] \in Tasks
      /\ chain[h] \in Hashes
  BY TaskFacts
<1>2. /\ task[h].stage = "fetch"
      /\ UNCHANGED <<rowVars, processed, chainVars, modeVars, checkpoint, pc, cancel,
                     scanVars, rangeVars, faults, origin, jumped, skipped>>
  BY DEF FetchBlock, FetchReceipts, TaskFrame
<1>3. /\ \A k \in Heights \ {h} : task'[k] = task[k]
      /\ task' \in [Heights -> Tasks]
      /\ task'[h].stage \in {"fetch", "block"}
      /\ task'[h].stage = "block" =>
           task'[h].block \in Branches /\ task'[h].receipts \in Hashes
      /\ task'[h].stage = "fetch" =>
           task'[h].block = NoHash \/ task'[h].receipts = NotFetched
      /\ task'[h].block \in {task[h].block, chain[h]}
  <2>1. CASE FetchBlock(h)
    <3>1. task' = [task EXCEPT ![h] = Joined(t)]
      BY <1>1, <2>1 DEF FetchBlock, TaskTypes
    <3>2. /\ t \in Tasks /\ t.stage = "fetch" /\ t.block = chain[h]
      BY <1>1, <1>2 DEF Tasks
    <3> HIDE DEF t
    <3>3. /\ Joined(t) \in Tasks /\ Joined(t).stage \in {"fetch", "block"}
          /\ Joined(t).block = chain[h]
          /\ Joined(t).stage = "block" =>
               Joined(t).block \in Branches /\ Joined(t).receipts \in Hashes
          /\ Joined(t).stage = "fetch" =>
               Joined(t).block = NoHash \/ Joined(t).receipts = NotFetched
      BY <3>2 DEF Joined, Tasks, Stages, Hashes, NotFetched, Branches
    <3>4. QED
      BY <1>1, <3>1, <3>3 DEF TaskTypes
  <2>2. CASE FetchReceipts(h)
    <3>1. task' = [task EXCEPT ![h] = Joined(u)]
      BY <1>1, <2>2 DEF FetchReceipts, TaskTypes
    <3>2. /\ u \in Tasks /\ u.stage = "fetch" /\ u.block = task[h].block
      BY <1>1, <1>2 DEF Tasks
    <3> HIDE DEF u
    <3>3. /\ Joined(u) \in Tasks /\ Joined(u).stage \in {"fetch", "block"}
          /\ Joined(u).block = task[h].block
          /\ Joined(u).stage = "block" =>
               Joined(u).block \in Branches /\ Joined(u).receipts \in Hashes
          /\ Joined(u).stage = "fetch" =>
               Joined(u).block = NoHash \/ Joined(u).receipts = NotFetched
      BY <3>2 DEF Joined, Tasks, Stages, Hashes, NotFetched, Branches
    <3>4. QED
      BY <1>1, <3>1, <3>3 DEF TaskTypes
  <2>3. QED
    BY <2>1, <2>2
<1>4. OnlyAt(h) /\ TaskTypes'
  BY <1>1, <1>2, <1>3 DEF OnlyAt, TaskTypes, rowVars
<1>5. TaskOK(h)' /\ RowsOK(h)'
  BY <1>1, <1>2, <1>3 DEF TaskOK, RowsOK, rowVars
<1>6. QED
  BY <1>2, <1>3, <1>4, <1>5, OneTask DEF rowVars

\* The first hash of a height stays; the row is there for the transactions.
LEMMA InsertBlockStep ==
  ASSUME IndInv, NEW h \in Heights, InsertBlock(h)
  PROVE  IndInv'
<1>1. /\ TaskTypes /\ TaskOK(h) /\ RowsOK(h) /\ task[h] \in Tasks
      /\ blockHash[h] \in Hashes
  BY TaskFacts
<1>2. /\ task[h].stage = "block" /\ task' = [task EXCEPT ![h].stage = "transactions"]
      /\ blockHash' = [blockHash EXCEPT ![h] = IF @ = NoHash THEN task[h].block ELSE @]
      /\ UNCHANGED <<txs, events, traces, failed, processed, chainVars, modeVars, checkpoint,
                     pc, cancel, scanVars, rangeVars, faults, origin, jumped, skipped>>
  BY DEF InsertBlock, TaskFrame
<1>3. /\ task'[h] \in Tasks /\ task'[h].stage = "transactions"
      /\ task'[h].block = task[h].block /\ task'[h].receipts = task[h].receipts
      /\ task[h].block \in Branches /\ task[h].receipts \in Hashes
  BY <1>1, <1>2 DEF TaskTypes, Tasks, Stages, TaskOK
<1>4. /\ blockHash'[h] = IF blockHash[h] = NoHash THEN task[h].block ELSE blockHash[h]
      /\ blockHash'[h] \in Hashes /\ blockHash'[h] # NoHash
  BY <1>1, <1>2, <1>3 DEF TaskTypes, Hashes, Branches, NoHash
<1>5. OnlyAt(h) /\ TaskTypes'
  BY <1>1, <1>2, <1>3, <1>4 DEF OnlyAt, TaskTypes
<1>6. TaskOK(h)' /\ RowsOK(h)'
  BY <1>1, <1>2, <1>3, <1>4 DEF TaskOK, RowsOK
<1>7. QED
  BY <1>2, <1>3, <1>4, <1>5, <1>6, OneTask

\* The transactions come after their block.
LEMMA InsertTransactionsStep ==
  ASSUME IndInv, NEW h \in Heights, InsertTransactions(h)
  PROVE  IndInv'
<1>1. /\ TaskTypes /\ TaskOK(h) /\ RowsOK(h) /\ task[h] \in Tasks
      /\ txs[h] \in SUBSET Branches
  BY TaskFacts
<1>2. /\ task[h].stage = "transactions" /\ task' = [task EXCEPT ![h].stage = "events"]
      /\ txs' = [txs EXCEPT ![h] = @ \cup TxsOf(task[h].receipts)]
      /\ UNCHANGED <<blockHash, events, traces, failed, processed, chainVars, modeVars,
                     checkpoint, pc, cancel, scanVars, rangeVars, faults, origin, jumped, skipped>>
  BY DEF InsertTransactions, TaskFrame
<1>3. /\ task'[h] \in Tasks /\ task'[h].stage = "events"
      /\ task'[h].block = task[h].block /\ task'[h].receipts = task[h].receipts
      /\ task[h].block \in Branches /\ task[h].receipts \in Hashes
  BY <1>1, <1>2 DEF TaskTypes, Tasks, Stages, TaskOK
<1>4. TxsOf(task[h].receipts) \subseteq Branches
  BY <1>3 DEF TxsOf, Hashes
<1>5. OnlyAt(h) /\ TaskTypes'
  BY <1>1, <1>2, <1>3, <1>4 DEF OnlyAt, TaskTypes
<1>6. TaskOK(h)' /\ RowsOK(h)'
  BY <1>1, <1>2, <1>3, <1>4 DEF TaskTypes, TaskOK, RowsOK
<1>7. QED
  BY <1>2, <1>3, <1>5, <1>6, OneTask

\* The events come after their transactions; without any the task is done.
LEMMA InsertEventsStep ==
  ASSUME IndInv, NEW h \in Heights, InsertEvents(h)
  PROVE  IndInv'
<1>1. /\ TaskTypes /\ TaskOK(h) /\ RowsOK(h) /\ task[h] \in Tasks
      /\ events[h] \in SUBSET Branches
  BY TaskFacts
<1>2. /\ task[h].stage = "events"
      /\ \/ /\ task[h].receipts = NoHash
            /\ task' = [task EXCEPT ![h].stage = "done"]
            /\ processed' = processed \cup {h}
         \/ /\ task[h].receipts # NoHash
            /\ task' = [task EXCEPT ![h].stage = "traces"]
            /\ processed' = processed
      /\ events' = [events EXCEPT ![h] = @ \cup TxsOf(task[h].receipts)]
      /\ UNCHANGED <<blockHash, txs, traces, failed, chainVars, modeVars,
                     checkpoint, pc, cancel, scanVars, rangeVars, faults, origin, jumped, skipped>>
  BY DEF InsertEvents, TaskFrame, Finish
<1>3. /\ task'[h] \in Tasks /\ task'[h].stage \in {"done", "traces"}
      /\ task'[h].block = task[h].block /\ task'[h].receipts = task[h].receipts
      /\ task[h].block \in Branches /\ task[h].receipts \in Hashes
      /\ task'[h].stage = "done" => h \in processed'
      /\ task'[h].stage = "traces" => task[h].receipts \in Branches
  BY <1>1, <1>2 DEF TaskTypes, Tasks, Stages, TaskOK, Hashes
<1>4. TxsOf(task[h].receipts) \subseteq Branches
  BY <1>3 DEF TxsOf, Hashes
<1>5. processed \subseteq processed' /\ processed' \in SUBSET Heights
  BY <1>1, <1>2 DEF TaskTypes
<1>6. \A k \in Heights \ {h} : task'[k] = task[k]
  BY <1>1, <1>2 DEF TaskTypes
<1>7. task' \in [Heights -> Tasks]
  BY <1>1, <1>2, <1>3 DEF TaskTypes
<1>8. /\ events'[h] = events[h] \cup TxsOf(task[h].receipts)
      /\ events' \in [Heights -> SUBSET Branches]
      /\ \A k \in Heights \ {h} : events'[k] = events[k]
  BY <1>1, <1>2, <1>4 DEF TaskTypes
<1>9. OnlyAt(h) /\ TaskTypes'
  BY <1>1, <1>2, <1>5, <1>6, <1>7, <1>8 DEF OnlyAt, TaskTypes
<1>10. TxsOf(task[h].receipts) \subseteq txs[h] /\ blockHash[h] # NoHash
  BY <1>1, <1>2 DEF TaskOK
<1>11. task[h].receipts \in Branches => task[h].receipts \in TxsOf(task[h].receipts)
  BY DEF TxsOf, Branches, NoHash
<1>12. TaskOK(h)'
  BY <1>2, <1>3, <1>8, <1>10, <1>11 DEF TaskOK
<1>13. RowsOK(h)'
  BY <1>1, <1>2, <1>8, <1>10 DEF RowsOK
<1>14. QED
  BY <1>2, <1>3, <1>5, <1>9, <1>12, <1>13, OneTask

\* The call tree comes after the events.
LEMMA InsertTraceLogsStep ==
  ASSUME IndInv, NEW h \in Heights, InsertTraceLogs(h)
  PROVE  IndInv'
<1> DEFINE r == task[h].receipts
<1>1. /\ TaskTypes /\ TaskOK(h) /\ RowsOK(h) /\ task[h] \in Tasks
      /\ traces[h] \in [Branches -> Nat]
  BY TaskFacts
<1>2. /\ task[h].stage = "traces" /\ task' = [task EXCEPT ![h].stage = "failed"]
      /\ traces' = [traces EXCEPT ![h][task[h].receipts] = @ + 1]
      /\ UNCHANGED <<blockHash, txs, events, failed, processed, chainVars, modeVars,
                     checkpoint, pc, cancel, scanVars, rangeVars, faults, origin, jumped, skipped>>
  BY DEF InsertTraceLogs, TaskFrame
<1>3. /\ task'[h] \in Tasks /\ task'[h].stage = "failed"
      /\ task'[h].block = task[h].block /\ task'[h].receipts = r
      /\ task[h].block \in Branches /\ r \in Branches \cap events[h]
  BY <1>1, <1>2 DEF TaskTypes, Tasks, Stages, TaskOK
<1>4. /\ \A k \in Heights \ {h} : task'[k] = task[k] /\ traces'[k] = traces[k]
      /\ task' \in [Heights -> Tasks]
      /\ traces'[h] = [traces[h] EXCEPT ![r] = @ + 1]
  BY <1>1, <1>2, <1>3 DEF TaskTypes
<1>5. /\ traces'[h] \in [Branches -> Nat] /\ traces'[h][r] > 0
      /\ \A v \in Branches : v # r => traces'[h][v] = traces[h][v]
  BY <1>1, <1>3, <1>4
<1>6. traces' \in [Heights -> [Branches -> Nat]]
  BY <1>1, <1>2, <1>4, <1>5 DEF TaskTypes
<1>7. OnlyAt(h) /\ TaskTypes'
  BY <1>1, <1>2, <1>4, <1>6 DEF OnlyAt, TaskTypes
<1>8. TaskOK(h)'
  BY <1>1, <1>2, <1>3, <1>5 DEF TaskOK, Hashes
<1>9. RowsOK(h)'
  BY <1>1, <1>2, <1>3, <1>5 DEF RowsOK, TaskTypes
<1>10. QED
  BY <1>2, <1>3, <1>7, <1>8, <1>9, OneTask

\* The failed transaction comes last, or is left out when there is no trace.
LEMMA FinishStep ==
  ASSUME IndInv, NEW h \in Heights, TraceFails(h) \/ InsertFailedTransactions(h)
  PROVE  IndInv'
<1>1. /\ TaskTypes /\ TaskOK(h) /\ RowsOK(h) /\ task[h] \in Tasks
      /\ failed[h] \in SUBSET Branches
  BY TaskFacts
<1>2. /\ task[h].stage \in {"traces", "failed"}
      /\ task' = [task EXCEPT ![h].stage = "done"]
      /\ processed' = processed \cup {h}
      /\ UNCHANGED <<blockHash, txs, events, traces, chainVars, modeVars, checkpoint, pc, cancel,
                     scanVars, rangeVars, origin, jumped, skipped>>
      /\ faults' \in Nat
  BY <1>1 DEF TraceFails, InsertFailedTransactions, TaskFrame, Finish, rowVars, TaskTypes
<1>3. /\ task'[h] \in Tasks /\ task'[h].stage = "done"
      /\ task'[h].block = task[h].block /\ h \in processed'
  BY <1>1, <1>2 DEF TaskTypes, Tasks, Stages
<1>4. /\ \A k \in Heights \ {h} : failed'[k] = failed[k]
      /\ failed' \in [Heights -> SUBSET Branches]
      /\ \A v \in failed'[h] : traces[h][v] > 0
  <2>1. CASE TraceFails(h)
    BY <1>1, <2>1 DEF TraceFails, rowVars, TaskTypes, RowsOK
  <2>2. CASE InsertFailedTransactions(h)
    <3>1. /\ task[h].stage = "failed"
          /\ failed' = [failed EXCEPT ![h] = @ \cup TxsOf(task[h].receipts)]
      BY <2>2 DEF InsertFailedTransactions
    <3>2. task[h].receipts \in Branches /\ traces[h][task[h].receipts] > 0
      BY <1>1, <3>1 DEF TaskOK
    <3>3. TxsOf(task[h].receipts) = {task[h].receipts}
      BY <3>2 DEF TxsOf, Branches, NoHash
    <3>4. QED
      BY <1>1, <3>1, <3>2, <3>3 DEF TaskTypes, RowsOK
  <2>3. QED
    BY <2>1, <2>2
<1>5. OnlyAt(h) /\ TaskTypes'
  BY <1>1, <1>2, <1>3, <1>4 DEF OnlyAt, TaskTypes
<1>6. TaskOK(h)' /\ RowsOK(h)'
  BY <1>1, <1>2, <1>3, <1>4 DEF TaskOK, RowsOK
<1>7. QED
  BY <1>2, <1>3, <1>5, <1>6, OneTask

-----------------------------------------------------------------------------
(* Theorems *)

\* Every step keeps IndInv.
LEMMA StepKeepsIndInv == IndInv /\ [Next]_vars => IndInv'
<1> SUFFICES ASSUME IndInv, [Next]_vars PROVE IndInv'
  OBVIOUS
<1>1. CASE Extend \/ Reorg
  BY <1>1, ChainStep
<1>2. CASE Start \/ Wake \/ FetchChainHash \/ ScanRpcFails \/ NoFork \/ WidenScan
  BY <1>2, ScanStep
<1>3. CASE RollbackFork
  BY <1>3, RollbackStep
<1>4. CASE FetchHead
  BY <1>4, FetchHeadStep
<1>5. CASE StartChunk
  BY <1>5, StartChunkStep
<1>6. CASE SaveCheckpoint
  BY <1>6, SaveCheckpointStep
<1>7. CASE EndCycle \/ Crash \/ CtrlC \/ \E h \in Heights : BlockNotFound(h)
  BY <1>7, StopStep
<1>8. CASE StartRange
  BY <1>8, StartRangeStep
<1>9. CASE \E h \in Heights : TaskStep(h) \/ TraceFails(h)
  <2>1. PICK h \in Heights : TaskStep(h) \/ TraceFails(h)
    BY <1>9
  <2>2. CASE AcquirePermit(h)
    BY <2>2, AcquirePermitStep
  <2>3. CASE FetchBlock(h) \/ FetchReceipts(h)
    BY <2>3, FetchStep
  <2>4. CASE InsertBlock(h)
    BY <2>4, InsertBlockStep
  <2>5. CASE InsertTransactions(h)
    BY <2>5, InsertTransactionsStep
  <2>6. CASE InsertEvents(h)
    BY <2>6, InsertEventsStep
  <2>7. CASE InsertTraceLogs(h)
    BY <2>7, InsertTraceLogsStep
  <2>8. CASE TraceFails(h) \/ InsertFailedTransactions(h)
    BY <2>8, FinishStep
  <2>9. QED
    BY <2>1, <2>2, <2>3, <2>4, <2>5, <2>6, <2>7, <2>8 DEF TaskStep
<1>10. CASE UNCHANGED vars
  BY <1>10 DEF vars, chainVars, modeVars, rowVars, scanVars, rangeVars, historyVars, IndInv,
     TypeOK, ChainOK, RangeOK, BeginsRight, TaskOK, RowDependencies, CheckpointCovered, Rows
<1>11. QED
  BY <1>1, <1>2, <1>3, <1>4, <1>5, <1>6, <1>7, <1>8, <1>9, <1>10
     DEF Next, Process, Environment

\* IndInv is an invariant of the follow loop (worker.rs:94-244).
THEOREM Invariance == Spec => []IndInv
BY InitIndInv, StepKeepsIndInv, PTL DEF Spec

\* Every variable keeps its type.
THEOREM TypeCorrect == Spec => []TypeOK
<1>1. IndInv => TypeOK
  BY DEF IndInv
<1>2. QED
  BY <1>1, Invariance, PTL

\* No row is ever without the rows it depends on (worker.rs:372-480).
THEOREM RowsDependable == Spec => []RowDependencies
<1>1. IndInv => RowDependencies
  BY DEF IndInv
<1>2. QED
  BY <1>1, Invariance, PTL

\* The checkpoint covers only processed blocks, those a rollback moved it up over
\* and those a fixed range left out, whatever stops the process and however the
\* chain moves (worker.rs:76-80, main.rs:133-151).
THEOREM CheckpointSafe == Spec => []CheckpointCovered
<1>1. IndInv => CheckpointCovered
  BY DEF IndInv
<1>2. QED
  BY <1>1, Invariance, PTL

\* A block row goes only with a rollback.
LEMMA RowGoesByRollback ==
  ASSUME IndInv, [Next]_vars, NEW h \in Heights,
         blockHash[h] # NoHash, blockHash'[h] = NoHash
  PROVE  \E f \in Rows : /\ RollbackFork
                         /\ ClassifyFork(LocalHashes, seen, depth) = Fork(f)
                         /\ \A k \in Heights : blockHash'[k] =
                              IF k >= f THEN NoHash ELSE blockHash[k]
<1>1. depth \in Nat /\ blockHash \in [Heights -> Hashes]
  BY DEF IndInv, TypeOK
<1>2. CASE RollbackFork
  <2>1. PICK f \in Heights : /\ ClassifyFork(LocalHashes, seen, depth) = Fork(f)
                             /\ RollbackFromBlock(f)
    BY <1>2 DEF RollbackFork
  <2>2. blockHash' = [k \in Heights |-> IF k >= f THEN NoHash ELSE blockHash[k]]
    BY <2>1 DEF RollbackFromBlock, Cleared
  <2>3. f \in Rows
    BY <1>1, <2>1, ForkOfRows
  <2>4. QED
    BY <1>2, <2>1, <2>2, <2>3
<1>3. CASE \E k \in Heights : InsertBlock(k)
  BY <1>1, <1>3 DEF InsertBlock
<1>4. CASE ~ RollbackFork /\ ~ \E k \in Heights : InsertBlock(k)
  <2>1. UNCHANGED blockHash
    BY <1>4 DEF Next, Process, Environment, TaskStep, Extend, Reorg, Start, Wake,
       StartRange, FetchChainHash, ScanRpcFails, NoFork, WidenScan, FetchHead, StartChunk,
       SaveCheckpoint, EndCycle, Crash, CtrlC, BlockNotFound, Exit, AcquirePermit,
       FetchBlock, FetchReceipts, InsertTransactions, InsertEvents, InsertTraceLogs,
       TraceFails, InsertFailedTransactions, rowVars, vars
  <2>2. QED
    BY <2>1
<1>5. QED
  BY <1>2, <1>3, <1>4

(***************************************************************************)
(* No rollback deletes a block whose chain hash the scan has not fetched   *)
(* and found different, for every scan cap (worker.rs:246-305).            *)
(***************************************************************************)
THEOREM RollbackNotBlind == Spec => NoBlindRollback
<1> DEFINE Seen(h) == blockHash[h] # NoHash /\ blockHash'[h] = NoHash =>
                        seen[h] \notin {NoHash, blockHash[h]}
<1>1. IndInv /\ [Next]_vars => \A h \in Heights : Seen(h)
  <2> SUFFICES ASSUME IndInv, [Next]_vars, NEW h \in Heights,
                      blockHash[h] # NoHash, blockHash'[h] = NoHash
               PROVE  seen[h] \notin {NoHash, blockHash[h]}
    BY Zenon
  <2>1. PICK f \in Rows : /\ ClassifyFork(LocalHashes, seen, depth) = Fork(f)
                          /\ blockHash'[h] = IF h >= f THEN NoHash ELSE blockHash[h]
    BY RowGoesByRollback
  <2>2. h \in Rows /\ f <= h
    BY <2>1, RowsFinite DEF Rows
  <2>3. QED
    BY <2>1, <2>2, ForkOfRows DEF IndInv, TypeOK
<1>2. QED
  BY <1>1, Invariance, PTL DEF Spec, NoBlindRollback

-----------------------------------------------------------------------------
(* Progress *)

\* What the database holds at the start is the progress of one fixed range.
LEMMA InitProgress == Init => Progress!Init
<1> SUFFICES ASSUME Init PROVE Progress!Init
  OBVIOUS
<1>1. PICK b \in 0..Backfill : /\ checkpoint = IF b = 0 THEN NoCheckpoint ELSE b
                               /\ processed = 1..b
  BY DEF Init
<1>2. b \in Heights /\ processed = 1..checkpoint
  BY <1>1, ConstantsAssumption DEF Heights, NoCheckpoint
<1>3. jumped = {} /\ skipped = {}
  BY DEF Init
<1>4. QED
  BY <1>1, <1>2, <1>3 DEF Progress!Init

\* A chunk that is saved is done, and begins above the checkpoint.
LEMMA SaveAdvances ==
  ASSUME IndInv, SaveCheckpoint
  PROVE  Progress!Advance
<1> USE ConstantsAssumption
<1>1. TypeOK /\ RangeOK /\ \A h \in Heights : TaskOK(h)
  BY DEF IndInv
<1>2. /\ UNCHANGED <<processed, jumped, skipped>>
      /\ pc = "work" /\ checkpoint' = last
      /\ \A h \in Heights : task[h].stage \in {"idle", "done"}
  BY DEF SaveCheckpoint, historyVars
<1>3. /\ next \in Nat /\ last \in Nat /\ to \in Heights
      /\ next <= last /\ last <= to
      /\ checkpoint \in Nat \cup {NoCheckpoint}
  BY <1>1, <1>2 DEF TypeOK, RangeOK, BeginsRight, Heights
<1>4. next \in Heights /\ BeginsRight
  BY <1>1, <1>2, <1>3 DEF RangeOK, Heights
<1>5. checkpoint < checkpoint'
  BY <1>2, <1>3, <1>4 DEF BeginsRight, NoCheckpoint
<1>6. {h \in Heights : next <= h /\ h <= last} \subseteq processed
  BY <1>1, <1>2 DEF RangeOK, BeginsRight, TaskOK
<1>7. checkpoint # NoCheckpoint =>
        {h \in Heights : checkpoint < h /\ h < next} \subseteq jumped \cup skipped
  BY <1>4 DEF BeginsRight
<1>8. QED
  BY <1>2, <1>3, <1>4, <1>5, <1>6, <1>7 DEF Progress!Advance, Progress!Between

\* What a fixed range leaves out is a gap above the checkpoint.
LEMMA StartRangeLeavesOut ==
  ASSUME IndInv, StartRange
  PROVE  Progress!LeaveOut \/ UNCHANGED Progress!ledgerVars
<1> USE ConstantsAssumption
<1>1. checkpoint \in Nat \cup {NoCheckpoint}
  BY DEF IndInv, TypeOK
<1>2. UNCHANGED <<checkpoint, processed, jumped>>
  BY DEF StartRange
<1>3. PICK first \in Heights :
        skipped' = IF checkpoint = NoCheckpoint THEN skipped
                   ELSE skipped \cup {h \in Heights : checkpoint < h /\ h < first}
  <2>1. PICK from \in Heights, until \in Heights :
          LET resume == IF checkpoint >= from THEN checkpoint + 1 ELSE from IN
          /\ resume <= until
          /\ skipped' = IF checkpoint = NoCheckpoint THEN skipped
                        ELSE skipped \cup {h \in Heights : checkpoint < h /\ h < resume}
    BY DEF StartRange
  <2>2. (IF checkpoint >= from THEN checkpoint + 1 ELSE from) \in Heights
    BY <1>1, <2>1 DEF Heights, NoCheckpoint
  <2>3. QED
    BY <2>1, <2>2
<1>4. CASE checkpoint = NoCheckpoint
  BY <1>2, <1>3, <1>4 DEF Progress!ledgerVars
<1>5. CASE checkpoint # NoCheckpoint
  BY <1>2, <1>3, <1>5 DEF Progress!LeaveOut, Progress!Between
<1>6. QED
  BY <1>4, <1>5

\* The rollback takes back what is indexed from the fork on.
LEMMA RollbackTakesBack ==
  ASSUME IndInv, RollbackFork
  PROVE  Progress!Rollback
<1> USE ConstantsAssumption
<1>1. PICK f \in Heights \ {0} : RollbackFromBlock(f)
  BY RollbackAboveGenesis
<1>2. /\ checkpoint' = IF checkpoint = NoCheckpoint THEN NoCheckpoint ELSE f - 1
      /\ processed' = {h \in processed : h < f}
      /\ skipped' = {h \in skipped : h < f}
      /\ jumped' = {h \in jumped : h < f}
                   \cup {h \in Heights : checkpoint # NoCheckpoint
                                         /\ checkpoint < h /\ h < f}
  BY <1>1 DEF RollbackFromBlock, Heights
<1>3. CASE checkpoint = NoCheckpoint
  <2>1. jumped' \cup skipped' = {h \in jumped \cup skipped : h < f}
    BY <1>2, <1>3
  <2>2. QED
    BY <1>2, <1>3, <2>1 DEF Progress!Rollback
<1>4. CASE checkpoint # NoCheckpoint
  <2>1. jumped' \cup skipped' = {h \in jumped \cup skipped : h < f}
                                \cup {h \in Heights : checkpoint < h /\ h < f}
    BY <1>2, <1>4
  <2>2. QED
    BY <1>2, <1>4, <2>1 DEF Progress!Rollback, Progress!Between
<1>5. QED
  BY <1>3, <1>4

(***************************************************************************)
(* The indexer implements the ledger of its progress: the checkpoint falls *)
(* only with a rollback, which takes back every height above it, and rises *)
(* only over heights that are done or known to be left out                 *)
(* (worker.rs:55-88, queries.rs:832-903, main.rs:133-166).                 *)
(***************************************************************************)
THEOREM ProgressRefinement == Spec => ImplementsProgress
<1>1. IndInv /\ [Next]_vars => [Progress!Next]_(Progress!ledgerVars)
  <2> SUFFICES ASSUME IndInv, [Next]_vars
               PROVE  Progress!Next \/ UNCHANGED Progress!ledgerVars
    OBVIOUS
  <2>1. CASE SaveCheckpoint
    BY <2>1, SaveAdvances DEF Progress!Next
  <2>2. CASE StartRange
    BY <2>2, StartRangeLeavesOut DEF Progress!Next
  <2>3. CASE RollbackFork
    BY <2>3, RollbackTakesBack DEF Progress!Next
  <2>4. CASE \E h \in Heights : TaskStep(h) \/ TraceFails(h)
    <3>1. PICK h \in Heights : TaskStep(h) \/ TraceFails(h)
      BY <2>4
    <3>2. UNCHANGED <<checkpoint, jumped, skipped>>
      BY <3>1 DEF TaskStep, TaskFrame, AcquirePermit, FetchBlock, FetchReceipts,
         InsertBlock, InsertTransactions, InsertEvents, InsertTraceLogs,
         InsertFailedTransactions, TraceFails
    <3>3. processed' = processed \/ processed' = processed \cup {h}
      BY <3>1 DEF TaskStep, Finish, AcquirePermit, FetchBlock, FetchReceipts,
         InsertBlock, InsertTransactions, InsertEvents, InsertTraceLogs,
         InsertFailedTransactions, TraceFails
    <3>4. QED
      BY <3>2, <3>3 DEF Progress!Next, Progress!IndexHeight, Progress!ledgerVars
  <2>5. CASE /\ ~ SaveCheckpoint /\ ~ StartRange /\ ~ RollbackFork
             /\ ~ \E h \in Heights : TaskStep(h) \/ TraceFails(h)
    <3>1. UNCHANGED <<checkpoint, historyVars>> \/ FetchHead
      BY <2>5 DEF Next, Process, Environment, Extend, Reorg, Start, Wake,
         FetchChainHash, ScanRpcFails, NoFork, WidenScan, StartChunk, EndCycle,
         Crash, CtrlC, BlockNotFound, Exit, vars
    <3>2. UNCHANGED <<checkpoint, processed, jumped, skipped>>
      BY <3>1 DEF FetchHead, historyVars
    <3>3. QED
      BY <3>2 DEF Progress!ledgerVars
  <2>6. QED
    BY <2>1, <2>2, <2>3, <2>4, <2>5
<1>2. QED
  BY <1>1, InitProgress, Invariance, PTL DEF Spec, ImplementsProgress, Progress!Spec

-----------------------------------------------------------------------------
(* The end of a cycle *)

\* What is left of a scan is a number.
LEMMA ScanLeftType ==
  ASSUME TypeOK
  PROVE  /\ Cardinality(DOMAIN LocalHashes) \in Nat
         /\ IsFiniteSet({h \in Heights : seen[h] = NoHash})
         /\ Cardinality({h \in Heights : seen[h] = NoHash}) \in Nat
         /\ SaturatingSub(Cardinality(DOMAIN LocalHashes), depth) \in Nat
<1>1. Cardinality(DOMAIN LocalHashes) \in Nat
  BY RowsFinite, FS_CardinalityType
<1>2. IsFiniteSet({h \in Heights : seen[h] = NoHash})
  BY RowsFinite, FS_Subset
<1>3. Cardinality({h \in Heights : seen[h] = NoHash}) \in Nat
  BY <1>2, FS_CardinalityType
<1>4. depth \in Nat
  BY DEF TypeOK
<1>5. QED
  BY <1>1, <1>2, <1>3, <1>4 DEF SaturatingSub

\* A hash that is fetched is one less to fetch.
LEMMA FetchLowersScan ==
  ASSUME IndInv, FetchChainHash
  PROVE  Phase' < Phase \/ ScanGoesOn
<1>1. /\ TypeOK /\ ChainOK /\ Heights \subseteq Nat
  BY RowsFinite DEF IndInv
<1>2. /\ pc = "scan" /\ UNCHANGED rowVars
  BY DEF FetchChainHash
<1>3. PICK h \in Unseen :
        IF h <= head
        THEN seen' = [seen EXCEPT ![h] = chain[h]] /\ UNCHANGED <<pc, depth>>
        ELSE EndScan
  BY DEF FetchChainHash
<1>4. h \in Heights /\ seen[h] = NoHash
  BY RowsFinite DEF Unseen, Window
<1>5. CASE ~ (h <= head)
  <2>1. pc' = "head"
    BY <1>3, <1>5 DEF EndScan
  <2>2. QED
    BY <1>2, <2>1 DEF Phase
<1>6. CASE h <= head
  <2> DEFINE left == {k \in Heights : seen[k] = NoHash}
             n    == Cardinality(DOMAIN LocalHashes)
  <2>1. /\ seen' = [seen EXCEPT ![h] = chain[h]] /\ UNCHANGED <<pc, depth>>
    BY <1>3, <1>6
  <2>2. chain[h] # NoHash
    BY <1>1, <1>4, <1>6 DEF ChainOK, Branches, NoHash
  <2>3. left' = left \ {h}
    BY <1>1, <1>4, <2>1, <2>2 DEF TypeOK
  <2>4. Cardinality(left') = Cardinality(left) - 1
    BY <1>1, <1>4, <2>3, ScanLeftType, FS_RemoveElement
  <2>5. Rows' = Rows /\ LocalHashes' = LocalHashes
    BY <1>2 DEF rowVars, Rows, LocalHashes, RowHashes
  <2>6. /\ SaturatingSub(n, depth) \in Nat /\ Cardinality(left) \in Nat
        /\ SaturatingSub(n, depth)' = SaturatingSub(n, depth)
    BY <1>1, <2>1, <2>5, ScanLeftType
  <2> HIDE DEF left, n
  <2>7. SaturatingSub(n, depth)' + Cardinality(left') < SaturatingSub(n, depth) + Cardinality(left)
    BY <2>4, <2>6
  <2>8. ScanLeft' < ScanLeft
    BY <2>7 DEF ScanLeft, left, n
  <2>9. QED
    BY <1>2, <2>1, <2>5, <2>8 DEF ScanGoesOn
<1>7. QED
  BY <1>5, <1>6

\* Of n rows, the deeper scan has fewer left to compare.
LEMMA DeeperLeavesLess ==
  ASSUME NEW n \in Nat, NEW d \in Nat, NEW wider \in Nat, NEW left \in Nat,
         d < wider, wider <= n
  PROVE  SaturatingSub(n, wider) + left < SaturatingSub(n, d) + left
BY DEF SaturatingSub

(***************************************************************************)
(* A scan that widens compares more rows, up to all there are: the code's  *)
(* answer for an unchanged depth is out of reach (worker.rs:294-301).      *)
(***************************************************************************)
LEMMA WidenLowersScan ==
  ASSUME IndInv, WidenScan
  PROVE  ScanGoesOn
<1> DEFINE n == Cardinality(DOMAIN LocalHashes)
           left == Cardinality({h \in Heights : seen[h] = NoHash})
<1>1. TypeOK /\ depth \in Nat
  BY DEF IndInv, TypeOK
<1>2. /\ pc = "scan" /\ pc' = "scan" /\ UNCHANGED rowVars /\ seen' = seen
      /\ ClassifyFork(LocalHashes, seen, depth) = NeedDeeper
      /\ depth' = NextScanDepth(depth, n)
  BY DEF WidenScan
<1>3. IsFiniteSet(DOMAIN LocalHashes) /\ DOMAIN LocalHashes \subseteq Nat
  BY RowsFinite
<1>4. n \in Nat /\ left \in Nat
  BY <1>1, ScanLeftType
<1>5. depth < n
  BY <1>1, <1>2, <1>3, NeedDeeperMismatch, WindowFull
<1>6. Rows' = Rows /\ n' = n /\ left' = left
  BY <1>2 DEF rowVars, Rows, LocalHashes, RowHashes
<1> HIDE DEF n, left
<1>7. depth' \in Nat /\ depth < depth' /\ depth' <= n
  BY <1>1, <1>2, <1>4, <1>5 DEF NextScanDepth
<1>8. SaturatingSub(n, depth') + left < SaturatingSub(n, depth) + left
  BY <1>1, <1>4, <1>7, DeeperLeavesLess
<1>9. ScanLeft' < ScanLeft
  BY <1>6, <1>8 DEF ScanLeft, n, left
<1>10. QED
  BY <1>2, <1>6, <1>9 DEF ScanGoesOn

\* A rollback that goes round again leaves fewer rows to disagree about.
LEMMA RollbackLowersRows ==
  ASSUME IndInv, RollbackFork
  PROVE  ScanGoesOn
<1>1. PICK f \in Heights : /\ ClassifyFork(LocalHashes, seen, depth) = Fork(f)
                           /\ RollbackFromBlock(f)
  BY DEF RollbackFork
<1>2. f \in Rows /\ Heights \subseteq Nat
  BY <1>1, ForkOfRows, RowsFinite DEF IndInv, TypeOK
<1>3. blockHash' = [h \in Heights |-> IF h >= f THEN NoHash ELSE blockHash[h]]
  BY <1>1 DEF RollbackFromBlock, Cleared
<1>4. Rows' \subseteq Rows /\ f \notin Rows'
  BY <1>2, <1>3 DEF Rows
<1>5. pc = "scan" /\ pc' = "scan"
  BY DEF RollbackFork, BeginScan
<1>6. QED
  BY <1>2, <1>4, <1>5 DEF ScanGoesOn

\* A chunk that begins, and one that is over.
LEMMA ChunkLowersRange ==
  ASSUME IndInv, StartChunk \/ SaveCheckpoint
  PROVE  RangeGoesOn
<1>1. TypeOK /\ RangeOK
  BY DEF IndInv
<1>2. CASE StartChunk
  <2>1. pc = "boundary" /\ pc' = "work" /\ next' = next /\ to' = to
    BY <1>2 DEF StartChunk
  <2>2. Phase = 1 /\ Phase' = 1
    BY <2>1 DEF Phase
  <2>3. QED
    BY <2>1, <2>2 DEF RangeGoesOn
<1>3. CASE SaveCheckpoint
  <2>1. pc = "work" /\ pc' = "boundary" /\ next' = last + 1 /\ to' = to
    BY <1>3 DEF SaveCheckpoint
  <2>2. Phase = 1 /\ Phase' = 1
    BY <2>1 DEF Phase
  <2>3. /\ next <= last /\ last <= to
        /\ next \in Nat /\ last \in Nat /\ to \in Nat
    BY <1>1, <2>1 DEF TypeOK, RangeOK
  <2>4. next < next' /\ next' <= to + 1
    BY <2>1, <2>3
  <2>5. QED
    BY <2>1, <2>2, <2>4 DEF RangeGoesOn
<1>4. QED
  BY <1>2, <1>3

\* One task moves, and is nearer to its end.
TaskMoves(h) ==
  /\ UNCHANGED <<pc, next, to>>
  /\ TaskLeft(task'[h]) < TaskLeft(task[h])
  /\ \A k \in Heights \ {h} : task'[k] = task[k]

\* Only in a chunk is there a task to move.
LEMMA MoveLowersRange ==
  ASSUME IndInv, NEW h \in Heights, task[h].stage # "idle", TaskMoves(h)
  PROVE  RangeGoesOn
<1>1. pc = "work" /\ pc' = "work"
  BY DEF IndInv, RangeOK, TaskMoves
<1>2. Phase = 1 /\ Phase' = 1
  BY <1>1 DEF Phase
<1>3. QED
  BY <1>1, <1>2 DEF TaskMoves, RangeGoesOn

\* An answer that arrives is not awaited any more.
LEMMA FetchMoves ==
  ASSUME IndInv, NEW h \in Heights, FetchBlock(h) \/ FetchReceipts(h)
  PROVE  task[h].stage # "idle" /\ TaskMoves(h)
<1> DEFINE t == [task[h] EXCEPT !.block = chain[h]]
           u == [task[h] EXCEPT !.receipts = chain[h]]
<1>1. /\ task \in [Heights -> Tasks] /\ task[h] \in Tasks /\ chain[h] \in Hashes
      /\ h <= head => chain[h] # NoHash
  BY TaskFacts DEF IndInv, ChainOK, TaskTypes, Branches, NoHash
<1>2. /\ task[h].stage = "fetch" /\ UNCHANGED <<pc, next, to>>
  BY DEF FetchBlock, FetchReceipts, TaskFrame, rangeVars
<1>3. CASE FetchBlock(h)
  <2>1. /\ task' = [task EXCEPT ![h] = Joined(t)]
        /\ task[h].block = NoHash /\ h <= head
    BY <1>1, <1>3 DEF FetchBlock
  <2>2. /\ t.stage = "fetch" /\ t.block # NoHash /\ t.receipts = task[h].receipts
        /\ t \in Tasks
    BY <1>1, <1>2, <2>1 DEF Tasks
  <2> HIDE DEF t
  <2>3. TaskLeft(Joined(t)) < TaskLeft(task[h])
    <3>1. TaskLeft(task[h]) = 6 + (IF task[h].receipts = NotFetched THEN 1 ELSE 0)
      BY <1>2, <2>1 DEF TaskLeft
    <3>2. CASE t.receipts = NotFetched
      <4>1. Joined(t) = t /\ TaskLeft(t) = 6
        BY <2>2, <3>2 DEF Joined, TaskLeft
      <4>2. QED
        BY <2>2, <3>1, <3>2, <4>1
    <3>3. CASE t.receipts # NotFetched
      <4>1. Joined(t).stage = "block"
        BY <2>2, <3>3 DEF Joined, Tasks
      <4>2. TaskLeft(Joined(t)) = 5
        BY <4>1 DEF TaskLeft
      <4>3. QED
        BY <2>2, <3>1, <3>3, <4>2
    <3>4. QED
      BY <3>2, <3>3
  <2>4. QED
    BY <1>1, <1>2, <2>1, <2>3 DEF TaskMoves
<1>4. CASE FetchReceipts(h)
  <2>1. /\ task' = [task EXCEPT ![h] = Joined(u)]
        /\ task[h].receipts = NotFetched
    BY <1>1, <1>4 DEF FetchReceipts
  <2>2. /\ u.stage = "fetch" /\ u.receipts # NotFetched /\ u.block = task[h].block
        /\ u \in Tasks
    BY <1>1, <1>2, <2>1 DEF Tasks, Hashes, Branches, NoHash, NotFetched
  <2> HIDE DEF u
  <2>3. TaskLeft(Joined(u)) < TaskLeft(task[h])
    <3>1. TaskLeft(task[h]) = 5 + (IF task[h].block = NoHash THEN 1 ELSE 0) + 1
      BY <1>2, <2>1 DEF TaskLeft
    <3>2. CASE u.block = NoHash
      <4>1. Joined(u) = u /\ TaskLeft(u) = 6
        BY <2>2, <3>2 DEF Joined, TaskLeft
      <4>2. QED
        BY <2>2, <3>1, <3>2, <4>1
    <3>3. CASE u.block # NoHash
      <4>1. Joined(u).stage = "block"
        BY <2>2, <3>3 DEF Joined, Tasks
      <4>2. TaskLeft(Joined(u)) = 5
        BY <4>1 DEF TaskLeft
      <4>3. QED
        BY <2>2, <3>1, <3>3, <4>2
    <3>4. QED
      BY <3>2, <3>3
  <2>4. QED
    BY <1>1, <1>2, <2>1, <2>3 DEF TaskMoves
<1>5. QED
  BY <1>3, <1>4

\* A task that does anything else goes to a later stage.
LEMMA StoreMoves ==
  ASSUME IndInv, NEW h \in Heights, TaskStep(h) \/ TraceFails(h),
         ~ FetchBlock(h), ~ FetchReceipts(h)
  PROVE  task[h].stage # "idle" /\ TaskMoves(h)
<1>1. task \in [Heights -> Tasks] /\ task[h] \in Tasks
  BY TaskFacts DEF TaskTypes
<1>2. UNCHANGED <<pc, next, to>>
  BY DEF TaskStep, TaskFrame, AcquirePermit, InsertBlock, InsertTransactions,
     InsertEvents, InsertTraceLogs, InsertFailedTransactions, TraceFails, rangeVars
<1>3. PICK s \in Stages : /\ task' = [task EXCEPT ![h].stage = s]
                          /\ \/ task[h].stage = "queued" /\ s = "fetch"
                             \/ task[h].stage = "block" /\ s = "transactions"
                             \/ task[h].stage = "transactions" /\ s = "events"
                             \/ task[h].stage = "events" /\ s \in {"traces", "done"}
                             \/ task[h].stage = "traces" /\ s \in {"failed", "done"}
                             \/ task[h].stage = "failed" /\ s = "done"
  <2>1. CASE AcquirePermit(h)
    BY <2>1 DEF AcquirePermit, Stages
  <2>2. CASE InsertBlock(h)
    BY <2>2 DEF InsertBlock, Stages
  <2>3. CASE InsertTransactions(h)
    BY <2>3 DEF InsertTransactions, Stages
  <2>4. CASE InsertEvents(h)
    BY <2>4 DEF InsertEvents, Finish, Stages
  <2>5. CASE InsertTraceLogs(h)
    BY <2>5 DEF InsertTraceLogs, Stages
  <2>6. CASE InsertFailedTransactions(h)
    BY <2>6 DEF InsertFailedTransactions, Finish, Stages
  <2>7. CASE TraceFails(h)
    BY <2>7 DEF TraceFails, Finish, Stages
  <2>8. QED
    BY <2>1, <2>2, <2>3, <2>4, <2>5, <2>6, <2>7 DEF TaskStep
<1>4. /\ task'[h].stage = s
      /\ \A k \in Heights \ {h} : task'[k] = task[k]
  BY <1>1, <1>3 DEF Tasks
<1>5. TaskLeft(task'[h]) < TaskLeft(task[h])
  BY <1>3, <1>4 DEF TaskLeft
<1>6. task[h].stage # "idle"
  BY <1>3
<1>7. QED
  BY <1>2, <1>4, <1>5, <1>6 DEF TaskMoves

\* Each step the process takes of itself counts down, also one that would
\* change nothing: there is none.
LEMMA ProcessCountsDown ==
  ASSUME IndInv, pc \notin {"stopped", "wait"}, Process
  PROVE  Phase' < Phase \/ ScanGoesOn \/ RangeGoesOn
<1>1. pc \in {"scan", "head", "boundary", "work"}
  BY DEF IndInv, TypeOK
<1>2. Phase \in 1..3
  BY <1>1 DEF Phase
<1>3. CASE FetchChainHash
  BY <1>3, FetchLowersScan
<1>4. CASE NoFork
  BY <1>4 DEF NoFork, EndScan, Phase
<1>5. CASE WidenScan
  BY <1>5, WidenLowersScan
<1>6. CASE RollbackFork
  BY <1>6, RollbackLowersRows
<1>7. CASE FetchHead
  BY <1>7 DEF FetchHead, Phase
<1>8. CASE StartChunk \/ SaveCheckpoint
  BY <1>8, ChunkLowersRange
<1>9. CASE EndCycle \/ \E h \in Heights : BlockNotFound(h)
  <2>1. pc' \in {"stopped", "wait"}
    BY <1>9 DEF EndCycle, BlockNotFound, Exit
  <2>2. Phase' = 0
    BY <2>1 DEF Phase
  <2>3. QED
    BY <1>2, <2>2
<1>10. CASE \E h \in Heights : TaskStep(h)
  <2>1. PICK h \in Heights : TaskStep(h)
    BY <1>10
  <2>2. task[h].stage # "idle" /\ TaskMoves(h)
    BY <2>1, FetchMoves, StoreMoves
  <2>3. QED
    BY <2>2, MoveLowersRange
<1>11. CASE Start \/ Wake
  BY <1>11 DEF Start, Wake
<1>12. QED
  BY <1>3, <1>4, <1>5, <1>6, <1>7, <1>8, <1>9, <1>10, <1>11 DEF Process

\* What happens to a process in a cycle leaves it where it was, or counts down.
LEMMA EnvironmentCountsDown ==
  ASSUME IndInv, pc \notin {"stopped", "wait"}, Environment
  PROVE  Phase' < Phase \/ RangeGoesOn \/ OnlyWatches
<1>1. pc \in {"scan", "head", "boundary", "work"}
  BY DEF IndInv, TypeOK
<1>2. Phase \in 1..3
  BY <1>1 DEF Phase
<1>3. CASE Extend
  <2>1. head \in Nat /\ head' = head + 1
    BY <1>3, RowsFinite DEF Extend, IndInv, TypeOK
  <2>2. UNCHANGED <<pc, rowVars, scanVars, rangeVars, task>>
    BY <1>3 DEF Extend
  <2>3. QED
    BY <2>1, <2>2 DEF OnlyWatches
<1>4. CASE Reorg
  <2>1. head \in Heights /\ chain[head] \in Nat /\ Heights \subseteq Nat
    BY RowsFinite DEF IndInv, TypeOK, ChainOK, Branches
  <2>2. PICK fork \in 1..head : \E newHead \in fork..head :
          /\ head' = newHead
          /\ chain' = [h \in Heights |->
                         IF h < fork THEN chain[h]
                         ELSE IF h <= newHead THEN chain[head] + 1 ELSE NoHash]
    BY <1>4 DEF Reorg
  <2>3. head' = head => chain'[head] = chain[head] + 1
    BY <2>1, <2>2
  <2>4. chain' # chain \/ head' # head
    BY <2>1, <2>3
  <2>5. UNCHANGED <<pc, rowVars, scanVars, rangeVars, task>>
    BY <1>4 DEF Reorg
  <2>6. QED
    BY <2>4, <2>5 DEF OnlyWatches
<1>5. CASE CtrlC
  <2>1. faults' # faults
    BY <1>5 DEF CtrlC, IndInv, TypeOK
  <2>2. UNCHANGED <<pc, rowVars, scanVars, rangeVars, task>>
    BY <1>5 DEF CtrlC
  <2>3. QED
    BY <2>1, <2>2 DEF OnlyWatches
<1>6. CASE ScanRpcFails
  BY <1>6 DEF ScanRpcFails, EndScan, Phase
<1>7. CASE Crash
  <2>1. Phase' = 0
    BY <1>7 DEF Crash, Exit, Phase
  <2>2. QED
    BY <1>2, <2>1
<1>8. CASE \E h \in Heights : TraceFails(h)
  <2>1. PICK h \in Heights : TraceFails(h)
    BY <1>8
  <2>2. task[h].stage # "idle" /\ TaskMoves(h)
    BY <2>1, StoreMoves DEF TraceFails, FetchBlock, FetchReceipts
  <2>3. QED
    BY <2>2, MoveLowersRange
<1>9. CASE StartRange
  BY <1>9 DEF StartRange
<1>10. QED
  BY <1>3, <1>4, <1>5, <1>6, <1>7, <1>8, <1>9 DEF Environment

(***************************************************************************)
(* No cycle and no fixed range goes on for ever, for any chain and any     *)
(* scan cap, batch size and number of permits: each step inside of one     *)
(* brings it nearer to its end (worker.rs:61-82, 134-188, 246-334).        *)
(***************************************************************************)
THEOREM CyclesEnd == Spec => CycleCountsDown
<1> DEFINE Down == pc \notin {"stopped", "wait"} =>
                     Phase' < Phase \/ ScanGoesOn \/ RangeGoesOn \/ OnlyWatches
<1>1. IndInv /\ [Next]_vars => Down \/ UNCHANGED vars
  BY ProcessCountsDown, EnvironmentCountsDown DEF Next
<1>2. QED
  BY <1>1, Invariance, PTL DEF Spec, CycleCountsDown

\* The range of a cycle lies above the checkpoint, if there is one.
LEMMA RangeAbove ==
  ASSUME IndInv, FetchHead
  PROVE  checkpoint >= SaturatingSub(head, Confirmations) \/ checkpoint < to'
<1> DEFINE safe   == SaturatingSub(head, Confirmations)
           target == NextTarget(head, Confirmations, checkpoint)
<1>1. safe \in Nat /\ (checkpoint \in Nat \/ checkpoint = NoCheckpoint)
  BY ConstantsAssumption DEF IndInv, TypeOK, Heights, SaturatingSub
<1>2. to' = CapRangeTo(target, CycleCap).to /\ CycleCap \in Nat
  BY ConstantsAssumption DEF FetchHead
<1>3. CASE checkpoint = NoCheckpoint
  <2>1. target = [from |-> safe, to |-> safe]
    BY <1>1, <1>3 DEF NextTarget
  <2>2. to' = safe
    BY <1>1, <1>2, <2>1 DEF CapRangeTo
  <2>3. QED
    BY <1>1, <1>3, <2>2 DEF NoCheckpoint
<1>4. CASE checkpoint \in Nat /\ checkpoint < safe
  <2>1. target = [from |-> checkpoint + 1, to |-> safe]
    BY <1>1, <1>4 DEF NextTarget, NoCheckpoint
  <2>2. to' = safe \/ (CycleCap # 0 /\ to' = checkpoint + 1 + CycleCap - 1)
    BY <1>1, <1>2, <1>4, <2>1 DEF CapRangeTo
  <2>3. QED
    BY <1>1, <1>2, <1>4, <2>2
<1>5. QED
  BY <1>1, <1>3, <1>4

(***************************************************************************)
(* A cycle that is left to its end brings the checkpoint to the end of its *)
(* range, which lies above where it was unless it has caught up            *)
(* (worker.rs:55-88, 164-206, 309-334).                                    *)
(***************************************************************************)
THEOREM CyclesAreNotInVain == Spec => CyclesAdvance
<1> DEFINE Advance ==
      /\ FetchHead => \/ checkpoint >= SaturatingSub(head, Confirmations)
                      \/ checkpoint < to'
      /\ EndCycle /\ ~cancel => to = 0 \/ checkpoint = to
<1>1. IndInv /\ [Next]_vars => Advance
  <2> SUFFICES ASSUME IndInv PROVE Advance
    OBVIOUS
  <2>1. ASSUME EndCycle, ~cancel PROVE to = 0 \/ checkpoint = to
    <3>1. pc = "boundary" /\ next > to /\ to \in Nat
      BY <2>1 DEF EndCycle, IndInv, TypeOK
    <3>2. QED
      BY <3>1 DEF IndInv, RangeOK
  <2>2. QED
    BY <2>1, RangeAbove
<1>2. QED
  BY <1>1, Invariance, PTL DEF Spec, CyclesAdvance

-----------------------------------------------------------------------------
(* There is always a step *)

\* A scan without a hash to fetch has one of the five answers.
LEMMA ScanAnswers ==
  ASSUME IndInv
  PROVE  ScanCanGo
<1> DEFINE scanned    == Window(LocalHashes, depth)
           halts      == {h \in scanned : seen[h] \in {NoHash, LocalHashes[h]}}
           mismatched == {h \in scanned : \A k \in halts : k < h}
           scan       == ClassifyFork(LocalHashes, seen, depth)
<1>1. /\ IsFiniteSet(DOMAIN LocalHashes) /\ DOMAIN LocalHashes \subseteq Rows
      /\ Rows \subseteq Heights /\ Heights \subseteq Nat
  BY RowsFinite
<1>2. scanned \subseteq DOMAIN LocalHashes
  BY DEF Window
<1>3. CASE Unseen # {}
  <2>1. IsFiniteSet(Unseen) /\ Unseen \in SUBSET Nat
    BY <1>1, <1>2, FS_Subset DEF Unseen
  <2>2. \E h \in Unseen : \A k \in Unseen : k <= h
    BY <1>3, <2>1, MaxOf
  <2>3. QED
    BY <2>2 DEF ScanCanGo
<1>4. CASE Unseen = {}
  <2>1. CASE mismatched = {}
    <3>1. scan \in {NoReorg, Inconclusive, NeedDeeper}
      BY <2>1 DEF ClassifyFork
    <3>2. QED
      BY <1>4, <3>1 DEF ScanCanGo
  <2>2. CASE mismatched # {}
    <3>1. mismatched \in SUBSET Nat /\ mismatched \subseteq Heights
      BY <1>1, <1>2
    <3>2. Min(mismatched) \in Heights
      BY <2>2, <3>1, MinOf
    <3>3. scan \in {NoReorg, Inconclusive, NeedDeeper} \/ scan = Fork(Min(mismatched))
      BY DEF ClassifyFork
    <3>4. QED
      BY <1>4, <3>2, <3>3 DEF ScanCanGo
  <2>3. QED
    BY <2>1, <2>2
<1>5. QED
  BY <1>3, <1>4

\* The permits are held by tasks that can go on, or one is free.
LEMMA ChunkGoesOn ==
  ASSUME IndInv, NEW h \in Heights, task[h].stage \notin {"idle", "done"}
  PROVE  \E k \in Heights : TaskCanGo(k)
<1>1. \A k \in Heights : TaskOK(k) /\ task[k].stage \in Stages
  BY TaskFacts DEF Tasks
<1>2. CASE Running # {}
  <2>1. PICK k \in Running : TRUE
    BY <1>2
  <2>2. /\ k \in Heights
        /\ task[k].stage \in {"fetch", "block", "transactions", "events", "traces", "failed"}
    BY <1>1, <2>1 DEF Running, Stages
  <2>3. TaskCanGo(k)
    BY <1>1, <2>2 DEF TaskOK, TaskCanGo
  <2>4. QED
    BY <2>2, <2>3
<1>3. CASE Running = {}
  <2>1. Cardinality(Running) < MaxConcurrent
    BY <1>3, FS_EmptySet, ConstantsAssumption
  <2>2. task[h].stage = "queued"
    BY <1>3 DEF Running
  <2>3. QED
    BY <2>1, <2>2 DEF TaskCanGo
<1>4. QED
  BY <1>2, <1>3

\* With the invariant the process has a step in every phase.
LEMMA AlwaysAStep == IndInv => NeverStuck
BY ScanAnswers, ChunkGoesOn DEF NeverStuck

\* The same after a step.
LEMMA AlwaysAStepNext == IndInv' => NeverStuck'
BY AlwaysAStep, PTL

\* The process is never stuck: every scan has its answer, and the permits are
\* never all held by tasks that wait (worker.rs:246-334, 344-371).
THEOREM NoCycleStuck == Spec => []NeverStuck
BY AlwaysAStep, Invariance, PTL

=============================================================================
