------------------------------- MODULE Indexer -------------------------------
(***************************************************************************)
(* The indexer process: its follow mode (WorkerPool::follow and what it    *)
(* calls in crates/indexer/src/worker.rs and crates/db/src/queries.rs) and *)
(* its fixed-range mode (main.rs), which share one checkpoint, running one *)
(* after the other against a chain that grows and reorganizes, with RPC    *)
(* failures, Ctrl-C, crashes and restarts.                                 *)
(*                                                                         *)
(* One block of the chain is a height and the branch it belongs to (see    *)
(* FollowDecisions).  Every block is given one failed transaction that     *)
(* emits events; a row of a transaction-scoped table is named by the       *)
(* height and the branch of the block its receipt came from.               *)
(***************************************************************************)
EXTENDS FollowDecisions

CONSTANTS
  MaxHeight,       \* bound: highest block the chain reaches
  MaxBranch,       \* bound: number of branches, so MaxBranch - 1 reorgs
  MaxFaults,       \* bound: RPC failures, crashes and Ctrl-C together
  MaxRanges,       \* bound: fixed-range runs, the one before included
  Backfill,        \* highest block a fixed-range run may have indexed before
  Confirmations,   \* --confirmations
  BatchSize,       \* blocks per chunk
  MaxConcurrent,   \* permits of the worker pool's semaphore
  CycleCap,        \* FOLLOW_CYCLE_BLOCK_CAP
  ScanCap          \* REORG_SCAN_CAP

ASSUME ConstantsAssumption ==
  /\ MaxHeight \in Nat /\ MaxBranch \in Nat \ {0} /\ MaxFaults \in Nat
  /\ MaxRanges \in Nat
  /\ Backfill \in 0..MaxHeight
  /\ Confirmations \in Nat /\ CycleCap \in Nat
  /\ BatchSize \in Nat \ {0} /\ MaxConcurrent \in Nat \ {0}
  /\ ScanCap \in Nat \ {0}

Heights  == 0..MaxHeight
Branches == 1..MaxBranch
Hashes   == Branches \cup {NoHash}

VARIABLES
  \* the chain, as the RPC node sees it
  chain,        \* branch of the canonical block of each height, NoHash above the head
  head,         \* eth_blockNumber
  \* the database
  blockHash,    \* block.block_hash of each height, NoHash when there is no row
  txs,          \* transaction rows of each height
  events,       \* swap_event, liquidity_event and token_transfer rows
  traces,       \* trace_log: how many copies of the call tree of a transaction
  failed,       \* failed_transaction rows
  checkpoint,   \* indexer_checkpoint.last_processed_block of chain 1
  \* the indexer process
  pc,           \* where the follow loop is
  ranged,       \* the process is a fixed-range run
  cancel,       \* the flag the Ctrl-C watcher sets
  seen,         \* chain hashes this scan has fetched
  depth,        \* how many rows this scan compares
  next, to,     \* the rest of the range index_range works on
  last,         \* last block of the chunk in progress
  task,         \* the process_block task of each height
  faults,       \* faults so far
  ranges,       \* fixed-range runs so far
  \* history, read by properties only
  origin,       \* where indexing began with no checkpoint to resume from
  processed,    \* heights whose process_block returned, less those rolled back
  jumped,       \* heights a rollback moved the checkpoint up over
  skipped       \* heights between a checkpoint and a fixed range above it

chainVars   == <<chain, head>>
rowVars     == <<blockHash, txs, events, traces, failed>>
scanVars    == <<seen, depth>>
rangeVars   == <<next, to, last>>
modeVars    == <<ranged, ranges>>
historyVars == <<origin, processed, jumped, skipped>>
vars == <<chainVars, modeVars, rowVars, checkpoint, pc, cancel, scanVars, rangeVars,
          task, faults, historyVars>>

-----------------------------------------------------------------------------
(* Tasks *)

NotFetched == -1      \* the receipts of a task before they arrive

Idle == [stage |-> "idle", block |-> NoHash, receipts |-> NotFetched]

Stages == {"idle", "queued", "fetch", "block", "transactions", "events",
           "traces", "failed", "done"}

NoTasks == [h \in Heights |-> Idle]

\* The tasks that hold a permit of the semaphore.
Running == {h \in Heights : task[h].stage \notin {"idle", "queued", "done"}}

\* The transactions a list of receipts names; no receipts, no transactions.
TxsOf(receipts) == {receipts} \ {NoHash}

-----------------------------------------------------------------------------
(* The local rows a scan compares *)

Rows == {h \in Heights : blockHash[h] # NoHash}

RowHashes == [h \in Rows |-> blockHash[h]]

\* recent_block_hashes: the ScanCap highest rows that have a hash.
LocalHashes == [h \in Window(RowHashes, ScanCap) |-> blockHash[h]]

Unseen == {h \in Window(LocalHashes, depth) : seen[h] = NoHash}

NothingSeen == [h \in Heights |-> NoHash]

-----------------------------------------------------------------------------
(***************************************************************************)
(* A follow process starts on an empty database, or on one where a         *)
(* fixed-range run has indexed the blocks 1..b and left its checkpoint.    *)
(***************************************************************************)
Init ==
  \E b \in 0..Backfill :
    LET done == 1..b IN
    /\ chain = [h \in Heights |-> IF h <= Backfill THEN 1 ELSE NoHash]
    /\ head = Backfill
    /\ blockHash = [h \in Heights |-> IF h \in done THEN 1 ELSE NoHash]
    /\ txs = [h \in Heights |-> IF h \in done THEN {1} ELSE {}]
    /\ events = txs
    /\ traces = [h \in Heights |-> [v \in Branches |->
                   IF h \in done /\ v = 1 THEN 1 ELSE 0]]
    /\ failed = txs
    /\ checkpoint = IF b = 0 THEN NoCheckpoint ELSE b
    /\ pc = "stopped"
    /\ cancel = FALSE
    /\ seen = NothingSeen
    /\ depth = 1
    /\ next = 1 /\ to = 0 /\ last = 0
    /\ task = NoTasks
    /\ faults = 0
    /\ origin = 1
    /\ processed = done
    /\ jumped = {}
    /\ skipped = {}
    /\ ranged = FALSE
    /\ ranges = IF b = 0 THEN 0 ELSE 1

-----------------------------------------------------------------------------
(* The chain *)

Extend ==
  /\ head < MaxHeight
  /\ head' = head + 1
  /\ chain' = [chain EXCEPT ![head + 1] = chain[head]]
  /\ UNCHANGED <<modeVars, rowVars, checkpoint, pc, cancel, scanVars,
                 rangeVars, task, faults, historyVars>>

(***************************************************************************)
(* The blocks from `fork` on are replaced by those of a branch never seen  *)
(* before; the new branch may at first be the shorter one.  Genesis stays. *)
(***************************************************************************)
Reorg ==
  /\ chain[head] < MaxBranch
  /\ \E fork \in 1..head : \E newHead \in fork..head :
       /\ head' = newHead
       /\ chain' = [h \in Heights |->
                      IF h < fork THEN chain[h]
                      ELSE IF h <= newHead THEN chain[head] + 1 ELSE NoHash]
  /\ UNCHANGED <<modeVars, rowVars, checkpoint, pc, cancel, scanVars,
                 rangeVars, task, faults, historyVars>>

-----------------------------------------------------------------------------
(* Entering a cycle *)

\* detect_fork starts over, with one row compared.
BeginScan ==
  /\ pc' = "scan"
  /\ seen' = NothingSeen
  /\ depth' = 1

Start ==
  /\ pc = "stopped"
  /\ BeginScan
  /\ UNCHANGED <<chainVars, modeVars, rowVars, checkpoint, cancel, rangeVars,
                 task, faults, historyVars>>

\* The poll interval has passed, or a newHeads tick has come.
Wake ==
  /\ pc = "wait"
  /\ BeginScan
  /\ UNCHANGED <<chainVars, modeVars, rowVars, checkpoint, cancel, rangeVars,
                 task, faults, historyVars>>

-----------------------------------------------------------------------------
(* detect_fork *)

\* detect_fork has found no fork: what it had fetched is dropped.
EndScan ==
  /\ pc' = "head"
  /\ seen' = NothingSeen
  /\ depth' = 1

(***************************************************************************)
(* The next chain hash of the window, from the tip down.  A height beyond  *)
(* the head has no block, and the scan ends without a verdict.             *)
(***************************************************************************)
FetchChainHash ==
  /\ pc = "scan"
  /\ \E h \in Unseen :
       /\ \A k \in Unseen : k <= h
       /\ IF h <= head
          THEN seen' = [seen EXCEPT ![h] = chain[h]] /\ UNCHANGED <<pc, depth>>
          ELSE EndScan
  /\ UNCHANGED <<chainVars, modeVars, rowVars, checkpoint, cancel, rangeVars,
                 task, faults, historyVars>>

\* rpc_with_retry gives up on a hash: no verdict either.
ScanRpcFails ==
  /\ pc = "scan"
  /\ Unseen # {}
  /\ faults < MaxFaults
  /\ faults' = faults + 1
  /\ EndScan
  /\ UNCHANGED <<chainVars, modeVars, rowVars, checkpoint, cancel, rangeVars,
                 task, historyVars>>

\* Every hash of the window is known and says the chain has not reorganized.
NoFork ==
  /\ pc = "scan"
  /\ Unseen = {}
  /\ ClassifyFork(LocalHashes, seen, depth) \in {NoReorg, Inconclusive}
  /\ EndScan
  /\ UNCHANGED <<chainVars, modeVars, rowVars, checkpoint, cancel, rangeVars,
                 task, faults, historyVars>>

\* NeedDeeper comes only below the lowest row, so the next depth is a larger one
\* and the code's fallback for an unchanged depth is out of reach.
WidenScan ==
  /\ pc = "scan"
  /\ Unseen = {}
  /\ ClassifyFork(LocalHashes, seen, depth) = NeedDeeper
  /\ depth' = NextScanDepth(depth, Cardinality(DOMAIN LocalHashes))
  /\ UNCHANGED <<chainVars, modeVars, rowVars, checkpoint, pc, cancel, seen,
                 rangeVars, task, faults, historyVars>>

-----------------------------------------------------------------------------
(* rollback_from_block *)

\* Mutant: one block too many.
ClearedOffByOne(table, from, empty) ==
  [h \in Heights |-> IF h >= from - 1 THEN empty ELSE table[h]]

Cleared(table, from, empty) ==
  [h \in Heights |-> IF h >= from THEN empty ELSE table[h]]

(***************************************************************************)
(* One transaction: the rows of every block from `from` on go, and the     *)
(* checkpoint row, if there is one, is set to from - 1 whatever it was.    *)
(***************************************************************************)
RollbackFromBlock(from) ==
  LET resume == IF from - 1 >= 0 THEN from - 1 ELSE 0 IN
  /\ events' = Cleared(events, from, {})
  /\ traces' = Cleared(traces, from, [v \in Branches |-> 0])
  /\ failed' = Cleared(failed, from, {})
  /\ txs' = Cleared(txs, from, {})
  /\ blockHash' = Cleared(blockHash, from, NoHash)
  /\ checkpoint' = IF checkpoint = NoCheckpoint THEN NoCheckpoint ELSE resume
  /\ processed' = {h \in processed : h < from}
  /\ skipped' = {h \in skipped : h < from}
  /\ jumped' = {h \in jumped : h < from}
               \cup {h \in Heights : checkpoint # NoCheckpoint
                                     /\ checkpoint < h /\ h < from}

\* The scan has found the fork: roll back and go round again without waiting.
RollbackFork ==
  /\ pc = "scan"
  /\ Unseen = {}
  /\ \E f \in Heights :
       /\ ClassifyFork(LocalHashes, seen, depth) = Fork(f)
       /\ RollbackFromBlock(f)
  /\ BeginScan
  /\ UNCHANGED <<chainVars, modeVars, cancel, rangeVars, task, faults, origin>>

-----------------------------------------------------------------------------
(* index_range *)

\* The head and the checkpoint decide the range; the cycle takes its first blocks.
FetchHead ==
  /\ pc = "head"
  /\ LET range == CapRangeTo(NextTarget(head, Confirmations, checkpoint), CycleCap)
     IN  /\ next' = range.from
         /\ to' = range.to
         /\ origin' = IF checkpoint = NoCheckpoint THEN range.from ELSE origin
  /\ pc' = "boundary"
  /\ UNCHANGED <<chainVars, modeVars, rowVars, checkpoint, cancel, scanVars,
                 last, task, faults, processed, jumped, skipped>>

\* Mutant: a range begins where it is told, whatever has been indexed.
StartRangeAsTold ==
  /\ pc = "stopped"
  /\ ranges < MaxRanges
  /\ ranges' = ranges + 1
  /\ ranged' = TRUE
  /\ \E from, until \in Heights :
       /\ from <= until
       /\ next' = from
       /\ to' = until
       /\ origin' = IF checkpoint = NoCheckpoint THEN from ELSE origin
       /\ skipped' = IF checkpoint = NoCheckpoint THEN skipped
                     ELSE skipped \cup {h \in Heights : checkpoint < h /\ h < from}
  /\ pc' = "boundary"
  /\ UNCHANGED <<chainVars, rowVars, checkpoint, cancel, scanVars, last, task,
                 faults, processed, jumped>>

\* main with --from-block: a range that the checkpoint reaches into is resumed
\* after the checkpoint; heights between the checkpoint and the range are not.
StartRange ==
  /\ pc = "stopped"
  /\ ranges < MaxRanges
  /\ ranges' = ranges + 1
  /\ ranged' = TRUE
  /\ \E from, until \in Heights :
       LET resume == IF checkpoint >= from THEN checkpoint + 1 ELSE from IN
       /\ resume <= until
       /\ next' = resume
       /\ to' = until
       /\ origin' = IF checkpoint = NoCheckpoint THEN resume ELSE origin
       /\ skipped' = IF checkpoint = NoCheckpoint THEN skipped
                     ELSE skipped \cup {h \in Heights : checkpoint < h /\ h < resume}
  /\ pc' = "boundary"
  /\ UNCHANGED <<chainVars, rowVars, checkpoint, cancel, scanVars, last, task,
                 faults, processed, jumped>>

\* A chunk: one task per block, none of them started yet.
StartChunk ==
  /\ pc = "boundary"
  /\ next <= to
  /\ ~cancel
  /\ last' = IF next + BatchSize - 1 < to THEN next + BatchSize - 1 ELSE to
  /\ task' = [h \in Heights |->
                IF next <= h /\ h <= last' THEN [Idle EXCEPT !.stage = "queued"]
                ELSE Idle]
  /\ pc' = "work"
  /\ UNCHANGED <<chainVars, modeVars, rowVars, checkpoint, cancel, scanVars,
                 next, to, faults, historyVars>>

\* Mutant: join_next is awaited once, not until the set is empty.
SaveCheckpointEarly ==
  /\ pc = "work"
  /\ \E h \in Heights : task[h].stage = "done"
  /\ checkpoint' = last
  /\ next' = last + 1
  /\ task' = NoTasks
  /\ pc' = "boundary"
  /\ UNCHANGED <<chainVars, modeVars, rowVars, cancel, scanVars, to, last,
                 faults, historyVars>>

\* Mutant: the next chunk begins with the last block of this one.
SaveCheckpointOverlap ==
  /\ pc = "work"
  /\ \A h \in Heights : task[h].stage \in {"idle", "done"}
  /\ checkpoint' = last
  /\ next' = last
  /\ task' = NoTasks
  /\ pc' = "boundary"
  /\ UNCHANGED <<chainVars, modeVars, rowVars, cancel, scanVars, to, last,
                 faults, historyVars>>

\* All tasks of the chunk have returned: the checkpoint moves to its end.
SaveCheckpoint ==
  /\ pc = "work"
  /\ \A h \in Heights : task[h].stage \in {"idle", "done"}
  /\ checkpoint' = last
  /\ next' = last + 1
  /\ task' = NoTasks
  /\ pc' = "boundary"
  /\ UNCHANGED <<chainVars, modeVars, rowVars, cancel, scanVars, to, last,
                 faults, historyVars>>

\* Nothing of the range is left.
EndRange == next' = 1 /\ to' = 0 /\ last' = 0 /\ ranged' = FALSE

\* Mutant: only the select would notice the signal.
EndCycleUncancelled ==
  /\ pc = "boundary"
  /\ next > to \/ cancel
  /\ pc' = "wait"
  /\ EndRange
  /\ UNCHANGED <<chainVars, ranges, rowVars, checkpoint, cancel, scanVars,
                 task, faults, historyVars>>

\* index_range has returned; a cancelled process, or one that had this range
\* only, stops here instead of waiting.
EndCycle ==
  /\ pc = "boundary"
  /\ next > to \/ cancel
  /\ IF cancel \/ ranged THEN pc' = "stopped" /\ cancel' = FALSE
                         ELSE pc' = "wait" /\ UNCHANGED cancel
  /\ EndRange
  /\ UNCHANGED <<chainVars, ranges, rowVars, checkpoint, scanVars, task, faults,
                 historyVars>>

-----------------------------------------------------------------------------
(* process_block *)

\* What every step of a task leaves alone.
TaskFrame == UNCHANGED <<chainVars, modeVars, checkpoint, pc, cancel, scanVars,
                         rangeVars, faults, origin, jumped, skipped>>

AcquirePermit(h) ==
  /\ task[h].stage = "queued"
  /\ Cardinality(Running) < MaxConcurrent
  /\ task' = [task EXCEPT ![h].stage = "fetch"]
  /\ UNCHANGED <<rowVars, processed>> /\ TaskFrame

\* Mutant: the first answer is enough.
JoinedEarly(t) == IF t.block # NoHash \/ t.receipts # NotFetched
                  THEN [t EXCEPT !.stage = "block"] ELSE t

\* try_join!: the task goes on when both answers are in.
Joined(t) == IF t.block # NoHash /\ t.receipts # NotFetched
             THEN [t EXCEPT !.stage = "block"] ELSE t

FetchBlock(h) ==
  /\ task[h].stage = "fetch"
  /\ task[h].block = NoHash
  /\ h <= head
  /\ task' = [task EXCEPT ![h] = Joined([@ EXCEPT !.block = chain[h]])]
  /\ UNCHANGED <<rowVars, processed>> /\ TaskFrame

\* A node that does not have the block answers null, which becomes no receipts.
FetchReceipts(h) ==
  /\ task[h].stage = "fetch"
  /\ task[h].receipts = NotFetched
  /\ task' = [task EXCEPT ![h] = Joined([@ EXCEPT !.receipts = chain[h]])]
  /\ UNCHANGED <<rowVars, processed>> /\ TaskFrame

\* ON CONFLICT (block_number) DO NOTHING: the first hash stays.
InsertBlock(h) ==
  /\ task[h].stage = "block"
  /\ blockHash' = [blockHash EXCEPT ![h] = IF @ = NoHash THEN task[h].block ELSE @]
  /\ task' = [task EXCEPT ![h].stage = "transactions"]
  /\ UNCHANGED <<txs, events, traces, failed, processed>> /\ TaskFrame

InsertTransactions(h) ==
  /\ task[h].stage = "transactions"
  /\ txs' = [txs EXCEPT ![h] = @ \cup TxsOf(task[h].receipts)]
  /\ task' = [task EXCEPT ![h].stage = "events"]
  /\ UNCHANGED <<blockHash, events, traces, failed, processed>> /\ TaskFrame

\* The task has no failed transaction left to store.
Finish(h) ==
  /\ task' = [task EXCEPT ![h].stage = "done"]
  /\ processed' = processed \cup {h}

\* insert_swap_events, insert_liquidity_events, insert_token_transfers.
InsertEvents(h) ==
  /\ task[h].stage = "events"
  /\ events' = [events EXCEPT ![h] = @ \cup TxsOf(task[h].receipts)]
  /\ IF task[h].receipts = NoHash
     THEN Finish(h)
     ELSE task' = [task EXCEPT ![h].stage = "traces"] /\ UNCHANGED processed
  /\ UNCHANGED <<blockHash, txs, traces, failed>> /\ TaskFrame

\* trace_log has no conflict rule: each insert adds the call tree once more.
InsertTraceLogs(h) ==
  /\ task[h].stage = "traces"
  /\ traces' = [traces EXCEPT ![h][task[h].receipts] = @ + 1]
  /\ task' = [task EXCEPT ![h].stage = "failed"]
  /\ UNCHANGED <<blockHash, txs, events, failed, processed>> /\ TaskFrame

\* Mutant: the transaction is stored without its call tree.
TraceFailsKept(h) ==
  /\ task[h].stage = "traces"
  /\ faults < MaxFaults
  /\ faults' = faults + 1
  /\ task' = [task EXCEPT ![h].stage = "failed"]
  /\ UNCHANGED <<chainVars, modeVars, rowVars, checkpoint, pc, cancel,
                 scanVars, rangeVars, historyVars>>

\* debug_traceTransaction fails: the transaction is left out, the block goes on.
TraceFails(h) ==
  /\ task[h].stage = "traces"
  /\ faults < MaxFaults
  /\ faults' = faults + 1
  /\ Finish(h)
  /\ UNCHANGED <<chainVars, modeVars, rowVars, checkpoint, pc, cancel,
                 scanVars, rangeVars, origin, jumped, skipped>>

InsertFailedTransactions(h) ==
  /\ task[h].stage = "failed"
  /\ failed' = [failed EXCEPT ![h] = @ \cup TxsOf(task[h].receipts)]
  /\ Finish(h)
  /\ UNCHANGED <<blockHash, txs, events, traces>> /\ TaskFrame

TaskStep(h) ==
  \/ AcquirePermit(h)
  \/ FetchBlock(h)
  \/ FetchReceipts(h)
  \/ InsertBlock(h)
  \/ InsertTransactions(h)
  \/ InsertEvents(h)
  \/ InsertTraceLogs(h)
  \/ InsertFailedTransactions(h)

-----------------------------------------------------------------------------
(* The end of a process *)

\* The process is gone; the database keeps what was written.
Exit ==
  /\ pc' = "stopped"
  /\ cancel' = FALSE
  /\ task' = NoTasks
  /\ seen' = NothingSeen
  /\ depth' = 1
  /\ EndRange
  /\ UNCHANGED <<chainVars, ranges, rowVars, checkpoint, historyVars>>

\* A crash, or an RPC or database error that `?` hands to main.
Crash ==
  /\ pc # "stopped"
  /\ faults < MaxFaults
  /\ faults' = faults + 1
  /\ Exit

\* The block is not on the chain any more: its fetch runs out of retries.
BlockNotFound(h) ==
  /\ task[h].stage = "fetch"
  /\ task[h].block = NoHash
  /\ h > head
  /\ UNCHANGED faults
  /\ Exit

(***************************************************************************)
(* The watcher sets the flag.  A process that is waiting also races the    *)
(* signal in its select and stops at once, unless the signal came just     *)
(* before the select began to listen.  A fixed-range run has no watcher,   *)
(* and dies of the signal as in Crash.                                     *)
(***************************************************************************)
CtrlC ==
  /\ pc # "stopped"
  /\ ~ranged
  /\ ~cancel
  /\ faults < MaxFaults
  /\ faults' = faults + 1
  /\ \/ cancel' = TRUE /\ UNCHANGED pc
     \/ pc = "wait" /\ pc' = "stopped" /\ UNCHANGED cancel
  /\ UNCHANGED <<chainVars, modeVars, rowVars, checkpoint, scanVars, rangeVars,
                 task, historyVars>>

-----------------------------------------------------------------------------

\* What the process does of itself.
Process ==
  \/ Start \/ Wake
  \/ FetchChainHash \/ NoFork \/ WidenScan \/ RollbackFork
  \/ FetchHead \/ StartChunk \/ SaveCheckpoint \/ EndCycle
  \/ \E h \in Heights : TaskStep(h) \/ BlockNotFound(h)

\* What happens to it.
Environment ==
  \/ Extend \/ Reorg \/ StartRange
  \/ ScanRpcFails \/ Crash \/ CtrlC
  \/ \E h \in Heights : TraceFails(h)

Next == Process \/ Environment

(***************************************************************************)
(* The runtime keeps running the process, its timer fires, and an operator *)
(* or the container's restart starts it again.  Nothing is assumed of the  *)
(* chain, of the faults or of fixed-range runs.                            *)
(***************************************************************************)
Spec == Init /\ [][Next]_vars /\ WF_vars(Process)

-----------------------------------------------------------------------------
(* Properties *)

Tasks == [stage : Stages, block : Hashes, receipts : Hashes \cup {NotFetched}]

\* Every variable has its type.
TypeOK ==
  /\ chain \in [Heights -> Hashes] /\ head \in Heights
  /\ blockHash \in [Heights -> Hashes]
  /\ txs \in [Heights -> SUBSET Branches]
  /\ events \in [Heights -> SUBSET Branches]
  /\ traces \in [Heights -> [Branches -> Nat]]
  /\ failed \in [Heights -> SUBSET Branches]
  /\ checkpoint \in Nat \cup {NoCheckpoint}
  /\ pc \in {"stopped", "scan", "head", "boundary", "work", "wait"}
  /\ cancel \in BOOLEAN
  /\ seen \in [Heights -> Hashes] /\ depth \in Nat
  /\ next \in Nat /\ to \in Nat /\ last \in Nat
  /\ task \in [Heights -> Tasks]
  /\ faults \in Nat
  /\ ranged \in BOOLEAN /\ ranges \in Nat
  /\ origin \in Nat
  /\ processed \in SUBSET Heights /\ jumped \in SUBSET Heights
  /\ skipped \in SUBSET Heights

(***************************************************************************)
(* The separate inserts of process_block and the deletes of                *)
(* rollback_from_block never leave a row without the rows it depends on:   *)
(* what a reader sees of a failed transaction has its call tree, and every *)
(* row has its transaction and its block (worker.rs:380-480).              *)
(***************************************************************************)
RowDependencies ==
  \A h \in Heights :
    /\ \A v \in failed[h] : traces[h][v] > 0
    /\ \A v \in Branches : traces[h][v] > 0 => v \in events[h]
    /\ events[h] \subseteq txs[h]
    /\ txs[h] # {} => blockHash[h] # NoHash

(***************************************************************************)
(* Resuming from the checkpoint loses nothing, however the process was     *)
(* stopped: of the blocks from where indexing began to the checkpoint,     *)
(* only those a rollback has moved the checkpoint up over, or a fixed      *)
(* range above the checkpoint has left out, can be without a completed     *)
(* process_block (worker.rs:76-80, queries.rs:892-899, main.rs:133-151).   *)
(***************************************************************************)
CheckpointCovered ==
  checkpoint # NoCheckpoint =>
    \A h \in Heights :
      origin <= h /\ h <= checkpoint => h \in processed \cup jumped \cup skipped

\* The process as IndexLedger sees it.
Progress == INSTANCE IndexLedger WITH
  None <- NoCheckpoint, done <- processed, gap <- jumped \cup skipped,
  mark <- checkpoint

(***************************************************************************)
(* Cycles, fixed ranges, crashes and restarts make progress that only a    *)
(* rollback takes back: the checkpoint never falls otherwise, and rises a  *)
(* chunk at a time, over heights that are done (worker.rs:55-88,           *)
(* queries.rs:773-792 and 892-899, main.rs:133-151).                       *)
(***************************************************************************)
ImplementsProgress == Progress!Spec

(***************************************************************************)
(* A rollback deletes no block on a guess: for each block row it deletes,  *)
(* this very scan has fetched a chain hash and found it different          *)
(* (worker.rs:283-296).                                                    *)
(***************************************************************************)
NoBlindRollback ==
  [][\A h \in Heights :
       blockHash[h] # NoHash /\ blockHash'[h] = NoHash =>
         seen[h] \notin {NoHash, blockHash[h]}]_vars

(***************************************************************************)
(* When the chain and the faults have come to rest, the checkpoint reaches *)
(* the last confirmed block and stays there: the cycle cap, rollbacks and  *)
(* restarts lose no progress for good (worker.rs:134-242).                 *)
(***************************************************************************)
CatchesUp ==
  <>[](checkpoint >= SaturatingSub(head, Confirmations))

(***************************************************************************)
(* When the chain and the faults have come to rest, the highest stored     *)
(* block, unless it is beyond the head, is the block of the chain: the one *)
(* comparison that every scan makes is never left unrepaired.              *)
(***************************************************************************)
TipCorrected ==
  <>[](\A h \in Rows : (\A k \in Rows : k <= h) /\ h <= head
                         => blockHash[h] = chain[h])

(***************************************************************************)
(* Ctrl-C always ends the process, in whatever phase of a cycle it comes   *)
(* (worker.rs:67-75, 184-188, 223-236).                                    *)
(***************************************************************************)
CancelStops == cancel ~> pc = "stopped"

\* The phases of a cycle, down to its end.
Phase == CASE pc = "scan"                 -> 3
           [] pc = "head"                 -> 2
           [] pc \in {"boundary", "work"} -> 1
           [] OTHER                       -> 0

\* What a scan can still do: rows to compare and hashes to fetch.
ScanLeft == SaturatingSub(Cardinality(DOMAIN LocalHashes), depth)
            + Cardinality({h \in Heights : seen[h] = NoHash})

\* The steps a task can still take, an answer to wait for being one.
TaskLeft(t) ==
  CASE t.stage = "queued"       -> 8
    [] t.stage = "fetch"        -> 5 + (IF t.block = NoHash THEN 1 ELSE 0)
                                     + (IF t.receipts = NotFetched THEN 1 ELSE 0)
    [] t.stage = "block"        -> 5
    [] t.stage = "transactions" -> 4
    [] t.stage = "events"       -> 3
    [] t.stage = "traces"       -> 2
    [] t.stage = "failed"       -> 1
    [] OTHER                    -> 0

\* The scan goes on: over fewer rows after a rollback, or with less left to do.
ScanGoesOn ==
  /\ pc = "scan" /\ pc' = "scan"
  /\ \/ Rows' \subseteq Rows /\ Rows' # Rows
     \/ Rows' = Rows /\ ScanLeft' < ScanLeft

\* The range goes on: a chunk is over, or begins, or one task of it moves.
RangeGoesOn ==
  /\ Phase = 1 /\ Phase' = 1 /\ to' = to
  /\ \/ next < next' /\ next' <= to + 1
     \/ next' = next /\ pc = "boundary" /\ pc' = "work"
     \/ /\ next' = next /\ pc = "work" /\ pc' = "work"
        /\ \E h \in Heights :
             /\ TaskLeft(task'[h]) < TaskLeft(task[h])
             /\ \A k \in Heights \ {h} : task'[k] = task[k]

\* The chain moves, or Ctrl-C comes: the process is where it was.
OnlyWatches ==
  /\ <<chain', head', faults'>> # <<chain, head, faults>>
  /\ UNCHANGED <<pc, rowVars, scanVars, rangeVars, task>>

(***************************************************************************)
(* No cycle and no fixed range goes on for ever, whatever the chain and    *)
(* the node do meanwhile.  Each step inside of one brings it nearer to its *)
(* end: a later phase, or fewer rows after a rollback, or less to compare  *)
(* and to fetch, or fewer blocks of the range, or fewer steps of one task. *)
(* The rollback that goes round again, the widening and the chunks are     *)
(* where a loop could spin (worker.rs:61-82, 134-188, 246-334).            *)
(***************************************************************************)
CycleCountsDown ==
  [][pc \notin {"stopped", "wait"} =>
       Phase' < Phase \/ ScanGoesOn \/ RangeGoesOn \/ OnlyWatches]_vars

(***************************************************************************)
(* And no cycle that is left to its end is in vain: unless the checkpoint  *)
(* has caught up, the range lies above it, and when the last chunk is done *)
(* it is the end of the range, over which a crash, an error or Ctrl-C      *)
(* would have left it behind (worker.rs:55-88, 164-206, 309-334).          *)
(***************************************************************************)
CyclesAdvance ==
  [][/\ FetchHead => \/ checkpoint >= SaturatingSub(head, Confirmations)
                     \/ checkpoint < to'
     /\ EndCycle /\ ~cancel => to = 0 \/ checkpoint = to]_vars

(***************************************************************************)
(* What the safety of the loop rests on, beyond the invariants above.      *)
(***************************************************************************)

\* Up to the head there are blocks, and genesis is never replaced.
ChainOK ==
  /\ \A h \in Heights : h <= head => chain[h] \in Branches
  /\ chain[0] = 1
  /\ {blockHash[0], seen[0], task[0].block} \subseteq {NoHash, 1}

\* A task has what its stage needs, and its rows are there as far as it has come.
TaskOK(h) ==
  LET t == task[h] IN
  /\ t.stage \in {"queued", "fetch"} => t.block = NoHash \/ t.receipts = NotFetched
  /\ t.stage \in {"block", "transactions", "events", "traces", "failed"} =>
       t.block \in Branches /\ t.receipts \in Hashes
  /\ t.stage \in {"transactions", "events", "traces", "failed"} =>
       blockHash[h] # NoHash
  /\ t.stage \in {"events", "traces", "failed"} => TxsOf(t.receipts) \subseteq txs[h]
  /\ t.stage \in {"traces", "failed"} => t.receipts \in Branches \cap events[h]
  /\ t.stage = "failed" => traces[h][t.receipts] > 0
  /\ t.stage = "done" => h \in processed

\* The range begins where the checkpoint ends or leaves out what is skipped.
BeginsRight ==
  /\ to \in Heights
  /\ checkpoint = NoCheckpoint => origin = next
  /\ checkpoint # NoCheckpoint =>
       /\ checkpoint < next
       /\ \A h \in Heights : checkpoint < h /\ h < next => h \in skipped

\* There are tasks only in a chunk, one for each of its blocks, and the range
\* under work goes with the checkpoint, which ends up at the end of it.
RangeOK ==
  /\ pc # "work" => \A h \in Heights : task[h].stage = "idle"
  /\ pc = "work" =>
       /\ next <= last /\ last <= to
       /\ \A h \in Heights : next <= h /\ h <= last => task[h].stage # "idle"
  /\ pc \in {"boundary", "work"} /\ next <= to => BeginsRight
  /\ pc = "boundary" /\ to > 0 /\ next > to => checkpoint = to

(***************************************************************************)
(* The inductive invariant: the checkpoint and the rows are safe because   *)
(* tasks, rows and range go together at every step (worker.rs:55-88,       *)
(* 307-334, 341-500).                                                      *)
(***************************************************************************)
IndInv ==
  /\ TypeOK /\ ChainOK /\ RangeOK
  /\ \A h \in Heights : TaskOK(h)
  /\ RowDependencies /\ CheckpointCovered

\* The scan can fetch, or it has an answer that one of its steps acts on.
ScanCanGo ==
  LET scan == ClassifyFork(LocalHashes, seen, depth) IN
  \/ \E h \in Unseen : \A k \in Unseen : k <= h
  \/ Unseen = {} /\ scan \in {NoReorg, Inconclusive, NeedDeeper}
  \/ Unseen = {} /\ \E f \in Heights : scan = Fork(f)

\* There is a permit for the task, an answer to wait for or a row to store.
TaskCanGo(h) ==
  \/ task[h].stage = "queued" /\ Cardinality(Running) < MaxConcurrent
  \/ /\ task[h].stage = "fetch"
     /\ task[h].block = NoHash \/ task[h].receipts = NotFetched
  \/ task[h].stage \in {"block", "transactions", "events", "traces", "failed"}

(***************************************************************************)
(* The process always has a step of its own: no scan is left without an    *)
(* answer and no chunk waits for tasks that wait for each other's permits  *)
(* or for an answer already taken.  In the other phases there is a step    *)
(* whatever the state (worker.rs:246-334, 344-371).                        *)
(***************************************************************************)
NeverStuck ==
  /\ pc = "scan" => ScanCanGo
  /\ pc = "work" => \/ \A h \in Heights : task[h].stage \in {"idle", "done"}
                    \/ \E h \in Heights : TaskCanGo(h)

(***************************************************************************)
(* "Last block number that was fully processed and committed"              *)
(* (migrations/20240102000001_relax_fk_and_checkpoint.sql): every block    *)
(* from where indexing began to the checkpoint has been processed.         *)
(***************************************************************************)
CheckpointIsProcessed ==
  checkpoint # NoCheckpoint =>
    \A h \in Heights : origin <= h /\ h <= checkpoint => h \in processed

(***************************************************************************)
(* "Reorgs up to REORG_SCAN_CAP (4096 blocks) are corrected to the exact   *)
(* minimum common ancestor" (docs/realtime-follow.md): once the chain is   *)
(* at rest and at least as high as the stored blocks, each of them is the  *)
(* block of the chain.                                                     *)
(***************************************************************************)
ReorgsCorrected ==
  <>[]((\A k \in Rows : k <= head) => \A h \in Rows : blockHash[h] = chain[h])

=============================================================================
