# Amarillo: TLA+ specification

Amarillo indexes an Ethereum chain into PostgreSQL, classifies the transactions
that failed, serves them through a REST API to a web and a terminal dashboard,
and posts signed webhooks about them. This directory models the parts of it
where order, failure and concurrency decide whether the result is right.
Paths below are relative to the repository (`src/` in `PROJECT.json`).

## Inventory

| Component | Code | State | Operations | Interacts with |
|---|---|---|---|---|
| Follow indexer | `crates/indexer/src/worker.rs`, `main.rs`, `crates/db/src/queries.rs` | rows of block, transaction, event, trace_log, failed_transaction; one checkpoint; in the process: scan depth, range, block tasks, cancel flag | scan for a reorg, roll back, choose a range, run chunks of concurrent block tasks, save the checkpoint, wait, stop | RPC node (calls that fail), database (separate statements), Ctrl-C |
| Reorg scan | `detect_fork`, `classify_fork`, `next_scan_depth` in `worker.rs` | hashes fetched, depth | fetch, answer, widen | block table, RPC node |
| Per-event alert dispatcher | `crates/indexer/src/alerts.rs`, alert statements in `queries.rs` | subscriptions, ledger `alert_delivery`, the tasks of each sweep | find, claim, POST, record, wait | indexer and API through the database, other dispatchers, receivers |
| Rate alert dispatcher | same files | `alert_rate_dispatch` rows, debounce and window | find by count, POST, record | same loop as above |
| Decoder | `crates/decoder/src` | none (functions) | event logs, revert reasons, parsing and flattening of call trees, classifier, called function | called by block tasks; what it cannot decode is left out of the rows |
| Schema, triggers | `migrations/`, `sql/triggers` | keys, conflict rules; a trigger that stores failed transactions, one that refuses blocks from the future | fired by inserts | indexer (demo seed installs the triggers) |
| REST API | `crates/api/src` | none; reads, and writes subscriptions and labels | list, get, create, deactivate, rotate, label | database, dashboards |
| Terminal dashboard | `crates/tui/src` | screen, filters, page, responses | keys, fetches in the background | API |
| Web dashboard | `web/src` | same kind | same kind | API |
| Analytics | `sql/procedures`, `sql/views`, `sql/olap` | aggregates | queries | database |

What is hard in it:

* The chain moves while the indexer works. The reorg scan, the reading of the
  head and every fetch of a block see it at different moments.
* The rows of a block are stored by separate statements and a chunk by
  concurrent tasks, while progress is a single number. A process may die, or
  stop on an RPC or database error, between any two of these.
* The rollback deletes data on the word of an unreliable node.
* Several dispatchers share a ledger, and a POST cannot be in the same
  transaction as the record of it.
* Sweeps and dashboards work from what they read earlier, and one answer of the
  API is put together from several statements while the indexer writes.
* What the node returns is wider than the columns it goes to, may not decode, may
  be null, and may be of another branch than the answer before.

What makes the parts correct:

* one height: when it counts as indexed every decodable log of the receipts the
  node gave for it is a row, every failed transaction stored has its call tree, in
  order and once, and the API's answer about it agrees with itself; and a height
  whose block fits the tables gets there;
* indexer: no row without those it depends on; resuming from the checkpoint
  loses nothing; a rollback deletes only what is known to be orphaned; the tip
  is reached and repaired; Ctrl-C ends it;
* scan: its answer is that of a full comparison, at a cost of the depth of the
  reorg, and it returns;
* dispatcher: one poster per pair; delivered is final; duplicates only when a
  success is lost; every wanted pair is delivered in the end.

`PROJECT.json` lists the hazards at their lines with the properties that look
for each, and says of the others why none does yet.

## Modules

| Module | What it is |
|---|---|
| `FollowDecisions` | the pure functions of the follow loop: `next_target`, `cap_range_to`, `classify_fork`, `next_scan_depth` |
| `Indexer` | the indexer process, follow mode and fixed-range mode, with its database, the chain, faults and restarts |
| `ReorgRepair` | `Indexer` with a history variable: what its scans have settled about the last reorg |
| `IndexLedger` | abstract: the indexer's progress, indexed heights and a checkpoint |
| `ForkScan` | `detect_fork` alone, from every table and chain |
| `Decoder` | the pure functions from logs, outputs and reasons to rows |
| `CallTrace` | parsing and flattening of a call tree, with a reference by paths; recursive, so used by TLC only |
| `BlockIngest` | one height in detail: `process_block` call by call and statement by statement, the chain under it, rollback, the triggers, a client of the API |
| `BlockLedger` | abstract: the rows of a height grow towards what the answers of a pass call for, and go all at once |
| `AlertDispatch` | any number of dispatchers, the ledger, the API's and the indexer's writes |
| `AlertLedger` | abstract: a pair is in one hand at a time until it is delivered |
| `RateAlerts` | any number of dispatchers, rate subscriptions, the window, the debounce |
| `TuiApp` | the terminal dashboard: keys, filter, paging, requests and their answers |
| `MCIndexer`, `MCReorgRepair`, `MCForkScan`, `MCBlockIngest`, `MCAlertDispatch`, `MCRateAlerts`, `MCTuiApp` | instances for TLC |
| `FollowDecisionsProofs`, `IndexerProofs`, `ReorgRepairProofs`, `ForkScanProofs`, `BlockIngestProofs`, `AlertDispatchProofs`, `RateAlertsProofs`, `TuiAppProofs` | lemmas and theorems |

`Indexer` and `BlockIngest` are two views of the same indexer. `Indexer` has many
heights, concurrent tasks and one failed transaction per block; `BlockIngest`
has one height and everything a block can hold. What `Indexer` does to a height
(a pass, cut short anywhere, repeated, rolled back) is what `BlockIngest` takes
as its environment; in both the node may answer null receipts, and a reorg may come
between any two calls.

Definitions whose comment begins with a defect ("Mutant: ...", "Records every
outcome as a failure", ...) are variants of the definition after them. No
specification uses them; each breaks the property it is listed with in
`PROJECT.json`, which shows that the property depends on that definition.

### FollowDecisions and Indexer

The hash of a block is abstracted to the number of the branch it belongs to:
within one height two hashes are equal exactly when the branches are. `0` is an
absent hash. Each block has one transaction, failed, with events, so that every
table has something to lose; rows are named by height and branch. The code names
a transaction by its hash alone (`ON CONFLICT (tx_hash) DO NOTHING`, queries.rs:107):
one that two blocks of one height share is in `BlockIngest`; one that a reorg moves
to another height, whose row then stays with the old one as long as that is stored, is
not expressible in either module.

| Code | Model |
|---|---|
| `WorkerPool::follow`, one iteration | `pc` = scan, head, boundary, work, wait; `stopped` between processes |
| `detect_fork`: `local`, `chain`, `depth` | `LocalHashes`, `seen`, `depth`; `FetchChainHash`, `NoFork`, `WidenScan`, `ScanRpcFails` |
| `rollback_from_block` (one transaction) | `RollbackFork` / `RollbackFromBlock`, the unconditional checkpoint update included |
| head, checkpoint, `next_target`, `cap_range_to` | `FetchHead` |
| `index_range`, cancel check per chunk | `StartChunk`, `SaveCheckpoint`, `EndCycle` |
| `process_chunk`: spawned tasks, semaphore, `join_next` | `task`, `AcquirePermit`, the guard of `SaveCheckpoint` |
| `process_block`: two fetches joined, then one statement after the other | `FetchBlock`, `FetchReceipts`, `InsertBlock`, `InsertTransactions`, `InsertEvents`, `InsertTraceLogs`, `InsertFailedTransactions`, `TraceFails` |
| `ON CONFLICT DO NOTHING`; none on `trace_log` | first hash stays; sets of rows; counted copies of a call tree |
| null block is an error, null receipts are an empty list | `BlockNotFound` ends the process; `FetchReceipts` may give `NoHash` |
| the Ctrl-C watcher and the `select!` | `CtrlC` |
| any error handed on by `?`, or a crash | `Crash` |
| `main` with a range: resume after the checkpoint or begin where told, `index_range`, end | `StartRange`, the same chunks, `EndCycle` with `ranged` |

The chain grows (`Extend`) and is replaced from any height above genesis
(`Reorg`), also by a branch that is shorter at first. `origin`, `processed`,
`jumped` and `skipped` are history: where indexing began, which blocks have been
processed, over which a rollback moved the checkpoint up, and which a fixed range
above the checkpoint left out.

A fixed-range run (`ranged`) starts instead of a follow process, on the same
database and checkpoint, any time none runs; it scans for no reorg, has no
Ctrl-C watcher (a signal kills it, as `Crash` does) and ends after its range. The
next follow process resumes from the checkpoint it left. Two indexers at a time
on one database are not modelled: nothing in the code keeps them apart, and
nothing says they may run together.

The abstract `IndexLedger` sees `processed` as what is done, `jumped` and
`skipped` as gaps, and the checkpoint: saving it is an `Advance`, a rollback takes
back every height from the fork on, everything else but the end of a block's task
and the start of a range is a stutter. It says what no invariant of the state
does: the checkpoint never falls without a rollback, in either mode.

Three inserts of events are one step; nothing reads between them. RPC calls
answer or fail; the code gives them no timeout. A tick of the newHeads
subscription is the same `Wake` as the poll timer. The database is the one
`migrations/` builds; the triggers of `sql/triggers` are in `BlockIngest`.

### ReorgRepair

A scan that meets a stored block equal to the chain's looks no further down. That
is right only while the stored blocks are linked to each other as those of a
chain are, and nothing in the database makes them so: a block is stored by its
height, not under its parent. `ReorgRepair` asks how far the promise "reorgs are
corrected to the exact minimum common ancestor" (`docs/realtime-follow.md`)
goes. It adds no behaviour to `Indexer` and takes none away; `RepairNext` is
`Next` with a watcher that keeps one history variable, `trust`:

| `trust` | Meaning |
|---|---|
| "sure" | no reorg since a scan found none, or since the start |
| "unsure" | a reorg, and no scan has begun since |
| "checking" | a reorg, and no other since the current or last scan began |
| "blind" | a block was fetched while "unsure" or "checking", at any time so far |

The indexer gets blind in three ways: a reorg between the scan of a cycle and
a fetch of its chunks (the case of `reorg_missed`), a scan that ends without a
verdict, after which the cycle goes on to index, and a fixed-range run after a
reorg, which scans for none. Short of these, `NoReorgMeansNone` and
`RollbackExact` say that the promise is kept, also over crashes, restarts,
half-stored chunks and reorgs to a shorter branch. Being blind is not an error:
later blocks may happen to be linked. It is where the argument of the scan ends.

### ForkScan

The same scan against a chain at rest, from every initial state: any subset of
heights stored, each row of the old or the new branch, any fork, any head.
`Indexer` and `ReorgRepair` show what the scan does to a run of the system;
`ForkScan` shows that its answer is right, on rows of any kind, linked or not.

### Decoder, CallTrace and BlockIngest

| Code | Model |
|---|---|
| `decode_log`, `decode_swap`, `decode_mint`, `decode_burn`, `decode_transfer` | `DecodeLog` and its parts: a log is its topic, whether the ABI accepts it, its amounts and ticks |
| `decode_revert_reason`, `decode_abi_string` | `DecodeRevertReason`: an output is its shape, the needles of the classifier in its text, and whether that holds a NUL character, which `from_utf8_lossy` keeps |
| `classify_error` | `Rules`, in the order of the code, and `Classify` |
| the `match` on the classifier's string in `process_failed_txs` | `StoredCategory` |
| `parse_call_frame`, `flatten_call_frame` | `ParseCallFrame`, `FlattenCallFrame`; a child that does not parse goes with all below it, a value beyond u128 becomes 0 |
| `process_block` | `stage`: two calls by number, in any order (`FetchHeader`, `FetchReceipts`), then one action per statement |
| `unwrap_or_default` on the receipts | `NoTxs`: null receipts are those of an empty block, and no fault |
| a transaction row from a receipt and the header's entry at its index | `ListedTxs`: of the receipts of another branch, those that have such an entry |
| a value beyond NUMERIC(38,0), a tick CHECK, the foreign key on `transaction` | `StorableRow`; `RejectEvents`, `RejectTraceLogs`: the statement and the pass fail |
| a NUL in a TEXT column | `StorableReason`, `RejectFailedTransactions` |
| `fn_trg_block_timestamp_validate` | `FromFuture`, `RejectBlock`, where `triggers`; `future` holds the blocks whose time has not come |
| `process_failed_txs` | `TraceTx`, `TraceFails`, one transaction after the other, each asked for by hash of the chain as it is then (`TraceOf`); `InsertTraceLogs`, `InsertFailedTransactions` |
| the node's chain | `block`, `Reorg`: any of `Rivals` takes the place of the block; transactions may be in both, with another place and outcome |
| `ON CONFLICT DO NOTHING`; none on `trace_log` | `InsertRows`, `InsertFailedTransactions`; `InsertTraceLogs` appends |
| `fn_trg_transaction_check_failed` | `Stub`, in `InsertTransactions`, where `triggers` |
| any error handed on by `?`, a crash | `Fail`; the pass starts again |
| `index_range` past the height, `rollback_from_block` | `SaveCheckpoint`, `Rollback` |
| `get_failed_tx` | `reader`: `GetFailedTransaction`, `ListTraceLogs`, `GetFirstErrorFrame`, `Reply` |

A pass over a height, the chain and a read by the API interleave step by step. What
the node answers is not assumed to be complete or of one block. `sources` is
history: the blocks that it has answered from since the last rollback, and
`OneSource` says that there has been one only and that the last pass has its
receipts. Without it a height can count as indexed and hold

* no transaction, event or failure at all: null receipts (worker.rs:365);
* the row of one branch at a log's place of another, by `ON CONFLICT DO NOTHING`;
* no row of a reverted transaction, because its block was gone when it was traced.

These are what the code does, and the properties say so: `EventsComplete` promises
a row at the place of every log the pass was answered, and the log's own row
under `OneSource` only; `MissingOnlyByFault` and `DetailConsistent` have it as their
condition; `BlockLedger` promises no more than what the two answers of one pass call
for.

Three kinds of refusals send every pass over a block back at the same statement: an
amount or call value too wide, ticks in the wrong order, a NUL in a revert reason.
Two more last for a while only: a timestamp ahead of the database's clock, and a log
whose transaction the shorter header of another branch did not list.
`StorableIsIndexed` is about blocks that `Fits` says are free of the first three, and
shows that nothing else stops a height for good.
An amount of a log stands for all its numbers (a swap's `liquidity` is as wide as its
amounts and goes to a column as narrow).

Where the triggers are installed the stub they store stays for good, because the
classified row meets a conflict; the properties about classified rows leave that
case out, and `FailedRows` in `IndInv` states it. The triggers that keep user
profiles, an audit log and notifications change nothing the model has. `SwapSides`
leaves out a swap too small to give any token0 out: its amount0 is zero and is taken
for the side that came in.

A tree stored again is appended; copies behind what any request would read (the cap
and the first frame in error) are not kept (`Appended`), so that repeated passes
have finitely many states.

`RevertedAssumption` is about the node: callTracer marks the root frame of a
transaction that has been reverted. The length that an ABI string announces is
assumed not to overflow the index arithmetic of `decode_abi_string`.

The abstract `BlockLedger` has the rows that the two answers of the pass under way
call for (`must`: block, listed transactions, decodable logs; a row of another branch
at the same key counts) and those that any answer since the last rollback allows
(`may`, with the trees and rows of failed transactions). `Ledger` maps `rows` to what
the tables hold and `indexed` to the checkpoint having passed the height. A call
is an `Answer`, each insert a `Store`, a failure or a refused statement a `GiveUp`,
`SaveCheckpoint` the `Complete`; reorgs, the clock and the reads of the API are
stutters.

### AlertDispatch

| Code | Model |
|---|---|
| `dispatch_loop` | `pc[w]` = find, sweep, idle, down |
| `find_pending_alert_matches` | `Excluded`, `Pending`, `Selections` (lowest hashes first, ties in any order), `FindPending` |
| `JoinSet` with at most `MAX_CONCURRENT_POSTS` tasks | `Spawned` |
| `try_claim_alert_match` | `Claimable`, `TryClaim`; `ClaimFails` when the database does |
| the guard of the URL, the check of the secret | `RefuseUrl` for `UnsafeSubs` |
| `post_signed` | `PostAccepted`, `PostRefused`, `PostAnswerLost` |
| `record_alert_delivery` | `Record`; `RecordFails` when the database does |
| `NOW()`, `CLAIM_STALE_AFTER_SECS` | `age` in the ledger, `Tick` |
| a task's batch entry (URL, secret) | the `secret` a task keeps from `FindPending` |
| API: create, deactivate, rotate | `CreateSubscription`, `DeactivateSubscription`, `RotateSecret` |
| indexer: failed transaction stored, rolled back | `StoreFailedTx`, `RollBack` |

The anti-join selects claims as old as `StaleAfter`, the claim takes only older
ones; the model keeps both. `Hold <= StaleAfter` is an assumption: a task
records within the time its claim excludes others. The code makes it likely
(request timeout 10 s, pool acquisition 30 s by sqlx's default, stale after
60 s) and nothing enforces it; `SinglePoster` and `DeliveredIsFinal` rest on it.
`received` and `unrecorded` are history: POSTs a receiver has accepted, and
those of them whose success is lost.

`AlertLedger` is what the dispatchers do to a pair, which is less than the documents
promise (see `alert_repeated` below). `Delivery` maps a pair to
"taken" while a live task holds its claim, "sent" or "failed" while that task
knows an outcome it has not recorded, "delivered" once that is recorded, and
"open" otherwise, the claim of a dead worker included. Sweeps, batches, ages and
claims that get stale are stutters; a crash lets go of several pairs at once.

Left out: `attempts`, error texts, the bytes of payload and signature, DNS, and
the rate sweep that follows each per-event sweep, which is in `RateAlerts`.

### RateAlerts

| Code | Model |
|---|---|
| `dispatch_loop` | `pc[w]` as in `AlertDispatch`; `Interrupt` is the Ctrl-C it waits for |
| `find_pending_rate_alert_matches` | `Recent` and `Burst` (JOIN, window, HAVING), `Debounced` (NOT EXISTS), `Due`, `Selected` (ORDER BY, LIMIT), `FindPending` |
| `JoinSet` with at most `MAX_CONCURRENT_POSTS` tasks | `Spawned` |
| `dispatch_rate_item` | `RefuseUrl` or `Post`, then `Record` or `RecordFails` |
| `alert_rate_dispatch` | `latest`: the youngest row of a subscription, the only one the debounce can depend on |
| `NOW()` | `Tick` raises every age; `txAge` is the age of a block, which an indexer that lags stores late |
| API: create, deactivate; indexer: store, roll back | `CreateSubscription`, `DeactivateSubscription`, `StoreFailedTx`, `RollBack` |

Nothing is claimed: two dispatchers may both find a subscription due and both
POST. Ages are counted up to what a window or a debounce can tell apart, so the
model needs no bound on time. `lastPost` is history: how long ago a dispatcher
last POSTed for a subscription, and whether that has been recorded. The two
sweeps of one loop share nothing but the loop, and each module has only its own.

### TuiApp

| Code | Model |
|---|---|
| `App` | the variables; a `Loadable` is its state, the list also its rows, total and the filter they were asked for |
| `spawn_fetch_active`, `begin` | `Requests`, `SpawnFetch`, `Begin` |
| spawned tasks and the channel | `pending`, a bag: two equal requests may be under way; `UnderWay` is the set of them one by one |
| `ingest`, `settle`, `clamp_selection` | `Receive`, `IngestOverview`, `IngestList`, `IngestDetail`, `ClampSelection` |
| `map_key`, `apply` | one action per key; `Key` is the overlay that swallows keys. Tab, Shift+Tab, 1 to 3 and Esc on Detail are `GotoScreen` |
| `run`: `select!` over keys, ticker, channel | `Next`; `Poll` is a tick |

A page is a set of transactions with the newest first. The API reads page and
total by two statements while rows come and go, so an answer is any page with
any total; which transactions match a filter is not modelled. `filter.window` is
a place in the cycle of windows. `prev_screen` is written and never read (Esc
leads to the list, from wherever Detail was opened), and is left out like
scrolling, the clocks and the rendering.

## Runs

| Run | Checks | Bounds and why they are enough |
|---|---|---|
| `follow_safety` | `RowDependencies`, `CheckpointCovered`, `NoBlindRollback`, `ImplementsProgress`, `NoReorgMeansNone`, `RollbackExact`, `RepairInv` (with the `IndInv`, `TypeOK` and `NeverStuck` of `Indexer` in it) | `Indexer` under the watcher of `ReorgRepair`: heights 0..3, up to 3 of them indexed before by a fixed-range run, or one such run at any later time, one reorg anywhere (also below what is stored, also shorter), one fault, chunks of 2 with two permits, cap 3, one confirmation, scan cap 3, so that the scan widens 1, 3; restart in a half-stored chunk after a reorg, a range that leaves a gap, a reorg that a scan answers and one that makes the indexer blind all occur (780 000 states). A second fault makes 4.4 million of them; they pass too, in more time than a run should take, and what the run checks is proved for any number of faults |
| `follow_progress` | `CatchesUp`, `TipCorrected`, `CancelStops`, `CycleCountsDown` | heights 0..3, one reorg, one fault, one fixed-range run in chunks of 2, cap 1: a backlog of up to 3 blocks takes as many cycles; the chain starts at its highest and grows again after a reorg has made it shorter |
| `fork_scan` | `ExactWhenLinked`, `RollsBackStaleTop`, `LazyFetches`, `Returns`, `IndInv` (with `TypeOK` in it) | every table of up to 6 rows: windows 1, 4, 6, all kinds of gaps. A scan ends, so a final state is no deadlock |
| `alert_safety` | `SinglePoster`, `DeliveredIsFinal`, `DuplicatesOnlyByLoss`, `IndInv` (with `SweepGoesOn` in it), `ImplementsPromise` | 2 workers, 2 pairs, one task at a time, 2 faults (a claim or a record that fails, a lost answer, a crash), 1 rotation; claims get stale while their worker lives or is dead |
| `alert_progress` | `EventuallyDelivered` | a good and an always refused subscription, 2 transactions, the first of them in a pair with either: batches of 2 of the 3 pairs, of which the refused one, of the lower hash, has a place in every sweep; two POSTs at a time, one fault |
| `checkpoint_skips` | `CheckpointIsProcessed` is violated | see below |
| `reorg_missed` | `ReorgsCorrected` is violated | see below |
| `rate_alerts` | `SelectedHasRested`, `SustainedRateAlerts`, `IndInv` (with `DebounceRespected` in it) | 2 workers, one subscription (refused or not), 2 transactions, a window of 1 and a debounce of 2 time units, one crash; time and the API are unbounded |
| `dashboard` | `TypeOK`, `BusyWhilePending`, `LoadingIsFetched`, `SelectionOnRow`, `AnswersSettle` | 2 transactions on a page, a total of two pages, of which the second has no next, one category beside all, 2 requests under way: two of Overview, or an old and a new one of the list or of Detail. The program ends, so a final state is no deadlock |
| `block_ingest` | `EventsComplete`, `SwapSides`, `TreeBeforeRow`, `SingleTree`, `MissingOnlyByFault`, `DetailConsistent`, `CallTreeInOrder`, `ImplementsLedger`, `StorableIsIndexed`, `IndInv` | twelve blocks in pairs, of which a reorg puts one in the place of the other: up to two transactions, failed or not, in both blocks of a pair at another place and with another outcome, or in one only; an empty block; trees of up to three levels, with a child that does not parse and with none, values that fit, that no column takes and that u128 does not, reasons with a NUL and without, logs of every kind and of none, of the same numbers in both blocks, ticks in the wrong order; trees above and below the cap of 3 frames; null receipts at any call; with the triggers, where either block may be from the future, and without; one failure, one reorg between any two steps, any number of rollbacks after it, one client (174 000 states). An indexed height may rest, so that state is no deadlock |
| `alert_repeated` | `ExactlyOnce` is violated | see below |
| `root_cause_top` | `RootCauseIsOrigin` is violated | see below |

`alert_progress` needs room in a batch: with as many pairs that fail for good as
`Batch`, and hashes below all others, the anti-join returns the same failing
pairs in every sweep and no other pair is reached. `SustainedRateAlerts` needs
the same: as many subscriptions due in every sweep as the batch holds, with lower
ids, would keep the others out.

### Where the code differs from what is said of it

* `checkpoint_skips`. The column comment calls the checkpoint the last block
  "fully processed and committed", and the document says a rollback "rewinds"
  it. Blocks 1 and 2 are a chunk; block 2 is stored, block 1 is not, the process
  dies; block 2 is replaced; at the restart the scan says `Fork(2)` and the
  rollback sets the checkpoint to 1, which was never indexed. `CheckpointCovered`
  says that this is the only way it can happen.
* `reorg_missed`. Reorgs of up to 4096 blocks are said to be corrected exactly.
  The scan runs before the indexing of a cycle. A reorg in between, deeper than
  the confirmations, leaves stale rows below rows of the new branch. The tip
  matches from then on, and no scan looks below a match. `ExactWhenLinked` is
  what holds of the scan: it is exact on rows that are linked. `RollbackExact` is
  what holds of the loop: the correction is exact as long as no block is fetched
  between a reorg and the scan that answers it.
* `alert_repeated`. `docs/api-alerts.md`, the header of `alerts.rs` and the comment
  on `record_alert_delivery` promise that a webhook is delivered exactly once per
  matching transaction. The POST and the record of it are two steps; when the
  receiver has accepted the POST and its answer is lost, the record fails or the
  process dies in between, the pair is selected and posted again. What holds is
  `DuplicatesOnlyByLoss`: a receiver sees at most one POST more than there were such
  losses; so delivery is at least once.
* `root_cause_top`. The document says that the root cause is the earliest frame
  of the call tree in error, "where the revert actually originated". The tree is
  in pre-order and a revert marks the root frame, so the earliest frame in error
  is always the root, whichever call below it failed.

Two more differ and have no run, because they are read off a single step:

* `classify_error` calls its value one that is matched with the enum
  `ErrorCategory`, and puts a reason into its finer slippage categories first
  (`classifier.rs:8-16`). The `match` in `process_failed_txs` (worker.rs:587-594) has
  five arms and a default: `INSUFFICIENT_ALLOWANCE` and the three finer slippage
  categories are stored as `UNKNOWN` (`StoredCategory`), which the API's filter by
  category then misses. The repository's README shows a row with
  `SLIPPAGE_AMOUNT_OUT`.
* `docs/api-alerts.md:189-190` says of a rotation that the next webhook the dispatcher
  sends is signed with the new key. A sweep signs with the secrets it read when it
  began, so those it has still to send carry the old one (`FindPending`).

Where nothing is contradicted, but a reader may expect more than the code gives:
a rate alert that failed is recorded and starts the debounce
like one that was delivered (`SustainedRateAlerts` is what holds); a block indexed
again after a crash between its call trees and its checkpoint has them twice
(`SingleTree` says when it cannot); a height whose receipts were null counts as
indexed and stays empty until a rollback.

## Fairness

* Indexer: `WF_vars(Process)`. The runtime keeps polling the one process, its
  timer fires, and whoever runs it starts it again. Nothing is assumed of the
  chain or of faults, which are bounded: `CatchesUp` and `TipCorrected` are
  about what follows when they rest. Nothing makes a fixed-range run start; one that
  runs is part of `Process`.
* BlockIngest: `WF_vars(Pass)`. A process that failed is started again and works
  on the height. `WF_vars(ClockCatchesUp)`: time passes, and a block's timestamp does
  not. Failures and reorgs are bounded; what the node answers, the client and the
  rollbacks are free.
* ForkScan: weak fairness of the loop, not of an RPC failure.
* AlertDispatch: weak fairness of `Tick`, of each step of each worker's loop and
  of each task. A task's fairness does not choose the outcome of its POST; that
  it succeeds in the end follows from the bound on faults. `Start` is fair: a
  dispatcher that ended is started again.
* TuiApp: `WF_vars(Poll)` and weak fairness of each answer: `select!` polls its
  branches in random order, and the client's timeout ends every request. Nothing
  is assumed of the user; `AnswersSettle` says what follows when they rest.
* RateAlerts: as AlertDispatch. The outcome of a POST and of its record is never
  assumed: a sustained burst is dispatched again also if all of them fail.

## Proofs

Every theorem is for all values of the constants that satisfy the named
assumptions of its module. What it says is also checked by a run on a small
instance, as a property or as a part of an invariant of the run, except for
`CyclesAdvance`, `SweepCountsDown`, `PassMovesOn`, `OnlyStorableIndexed` and
`FinerSlippageFirst`: these follow from invariants the runs check and from single
steps, and have no run of their own.

* `FollowDecisionsProofs`: lemmas about `Window`, `ClassifyFork`,
  `NextScanDepth`, e.g. that a fork at `f` means that all stored rows from `f`
  on are fetched and different (`ForkMismatch`).
* `IndexerProofs`: `Invariance` (`Spec => []IndInv`), and from it
  `TypeCorrect`, `RowsDependable`, `CheckpointSafe`, `RollbackNotBlind` and
  `ProgressRefinement` (`Spec => ImplementsProgress`).
  `RowDependencies` alone is not inductive: that `InsertEvents` finds its
  transaction depends on what the task stored before. `TaskOK` says, for every
  stage, which rows of its block are there. `CheckpointCovered` needs
  `RangeOK`: in a chunk every block of it has a task, a task that is done has
  processed its block, and the chunk begins right after the checkpoint, or leaves
  out only blocks that are in `skipped` (`BeginsRight`).
  `ChainOK` keeps genesis out of every rollback.
  Three more are about the course of a cycle. `CyclesEnd` (`Spec => CycleCountsDown`):
  each step inside a cycle lowers a measure that is compared part by part:
  the phase; in the scan the stored rows (a rollback goes round again, with fewer),
  then the hashes not fetched and the rows below the window; in the range the
  blocks left, then whether their chunk has begun, then the steps its tasks have
  left. That a widening lowers it (`WidenLowersScan`) needs that `NeedDeeper` comes
  only while rows lie below the window, which is what the comment in
  `detect_fork` says of its fallback (worker.rs:294-300: out of reach).
  `NoCycleStuck` (`Spec => []NeverStuck`): the scan always has a hash to fetch or
  an answer (`ScanAnswers`); in a chunk, tasks that hold permits wait only for an
  answer not yet taken, which is why `TaskOK` says of a task in `fetch` that one is
  missing, and with no permit held a queued task gets one. `CyclesAreNotInVain`
  (`Spec => CyclesAdvance`): a range lies above the checkpoint unless that has caught
  up, and `RangeOK` has the checkpoint at the end of a range that is done.
* `ReorgRepairProofs`: `TrustInvariance` (`RepairSpec => []RepairInv`, with
  `NeverStuck` by `AlwaysAStep`),
  and from it `NoReorgSpeaksForAll` and `RollbackIsExact`, for reorgs of any number
  and depth. Neither property is inductive. `Linked` is what the scan relies on:
  where the indexer holds the chain's hash at a height, stored or fetched by a task,
  all it holds below is the chain's too. A reorg keeps it: it replaces a whole top
  of the chain by a branch that is new, so no hash that is held agrees up
  there. The chain may also grow by a block, of the branch of its tip, at a height
  where a hash of an older, longer branch is still held: `NewestOnChain` says that
  a hash of the newest branch is held only where the chain has it. A fetch keeps
  `Linked` while trust is "sure", because then everything held is the chain's; in
  "unsure" and "checking" it does not, which is why the indexer is blind from
  there. When a scan says `NoReorg` the highest stored row is the chain's, and by
  `Linked` so are all others (`ScanSpeaksForAll`); when it says `Fork(f)`, the row
  below `f` is the chain's and by `Linked` all further down are (`AgreesBelowFork`).
  The step case takes the lemmas of `IndexerProofs` on single steps
  (`StepKeepsIndInv`, `RowGoesByRollback`), which are stated apart for it. `WatchedLoop`
  says that the run of `follow_safety` is one of the indexer: its invariants and
  action properties, which `IndexerProofs` proves of `Indexer`, need no fairness.
* `ForkScanProofs`: `ScanInvariance` (`Spec => []IndInv`), and from it `ForkExact`, `LinkedExact`,
  `FetchesLazily` and `TypeCorrect`. While the scan has not answered, what it fetched is a top
  part of the rows, and it widens only when all of that differs.
* `BlockIngestProofs`: `Invariance`, and from it `EventsCompleteAlways`,
  `TreeBeforeRowAlways`, `SingleTreeAlways`, `MissingOnlyByFaultAlways`,
  `DetailConsistentAlways`, `SwapSidesAlways`; `LedgerRefinement`
  (`Spec => ImplementsLedger`); `FinerSlippageFirst`, about the order of the rules.
  The properties are about the end of a pass, so the invariant says what each
  stage has stored (`StageRows`, `TracedRows`), what the pass has in memory
  (`Memory`), and that rows are only those of answers since the last rollback
  (`RowsOfSources`, `TraceRows`): an earlier pass leaves a part of what this
  one stores again, perhaps of another branch. Under `OneSource` all of them come
  from one block, and a row at a log's place is the log's own because the logs of a
  block have numbers of their own (`BlocksAssumption`). `ReaderParts` says what a request has read so far; it holds on
  through the indexer's inserts because a tree only grows by whole copies.
  `RevertedAssumption` gives the root cause of every tree.
  `OnlyStorableIndexedAlways` and `PassesEnd` (`Spec => PassMovesOn`) say which blocks
  get indexed: only those whose numbers and reasons fit, because a statement with one
  that does not would have been refused (`StageRows`, `TracedRows`), of the receipts
  it was answered and as far as no failure has left a trace out; and a pass that is
  answered from such a block, whose time has come, is never sent back by a statement,
  so that only failures, reorgs and rollbacks can repeat it.
* `AlertDispatchProofs`: `Invariance`, and from it `OnePoster`,
  `DuplicatesBounded`, `DeliveredFinal`. The ledger row of a live task is
  claimed and exactly as old as the task's claim (`ClaimsHeld`); with
  `Hold <= StaleAfter` no one else can claim it, so a record meets only its own
  claim. `Accounted` counts every accepted POST as lost, recorded, or known to
  the one task that made it. `PromiseRefinement` (`Spec => ImplementsPromise`)
  goes action by action: `Places` says from the invariant that a live task is the
  only one at its pair, so `Delivery` is decided by that task, and an action
  moves it as one step of `AlertLedger` does. `SweepNeverStuck` and `SweepsEnd`
  (`Spec => SweepCountsDown`) say that a sweep ends: while no task is live, the pair of
  the lowest hash has a place (`PlaceForFirst`), and a task has a claim, a POST and a
  record before it at most, which nobody else prolongs.

* `RateAlertsProofs`: `Invariance`, and from it `SilentWhileDebounced`. The
  property speaks of a task that is queued, the debounce of the ledger at an
  earlier moment, when the sweep began. `LedgerIsYounger` joins them: the
  youngest row of a subscription is never older than a recorded POST, so a
  sweep that finds it old enough finds the dispatcher's own POST old enough, and
  ages only grow until the task runs. `SelectionRests` (`Spec => SelectedHasRested`)
  follows from the same invariant for the POSTs of every dispatcher: without a
  claim, the ledger alone keeps a sweep from what another one has recorded.

* `TuiAppProofs`: `MarkOnRow`, `LoadingEnds`, `SpinnerCounts`
  (`Spec => []BusyWhilePending`) and `TypeCorrect`. The first needs that only a
  loaded list has rows (`RowsAreLoaded`): a fetch clears a list that is not
  loaded and leaves the mark. The second needs that the requests are a bag, from
  which an answer takes one and only of its own kind. The third counts
  `UnderWay`, the requests one by one: the sum over a bag is recursive in the
  library and out of the prover's reach, the cardinality of that set is not. A
  fetch adds one pair per request (`SentOneByOne`) and an answer takes one away
  (`AnsweredOne`). `TypeCorrect` needs that what a list was asked for is a filter,
  that its rows are a page, and that an answered total covers the offset of
  `next_page` (`TypeInv`).

Only model-checked: `CallTreeInOrder`, because the flattening is recursive;
`BlockIngest` takes it as a parameter, so its theorems hold for any flattening,
and `SingleTreeAlways` says that what is stored is what that operator returned,
once per pass. And liveness (`CatchesUp`, `TipCorrected`, `CancelStops`, `Returns`,
`EventuallyDelivered`, `SustainedRateAlerts`, `AnswersSettle`,
`StorableIsIndexed`), which the prover does not do. What of them is about single
steps is proved: `CyclesEnd`, `NoCycleStuck` and `CyclesAreNotInVain` for the
indexer (`CancelStops`, `CatchesUp`), `SweepNeverStuck` and `SweepsEnd` for the
sweeps (`EventuallyDelivered`), `PassesEnd` for a height (`StorableIsIndexed`). From
there to "in the end" it takes fairness, ENABLED and an induction over the
measure, and that step is TLC's. The violations are traces of TLC.

## Not modelled, and what could follow

Modelled, checked and proved: the follow and fixed-range indexer, the reorg scan,
the rows of one height with decoder, triggers and the API's answer, both
dispatchers, the terminal dashboard; abstract specifications of the
indexer's progress, of one height and of the per-event dispatchers, each with the
proof that it is implemented.

Could follow, in this order:

1. Two indexer processes on one database.
2. The lists of the API: a page and its total are read by two statements.
3. The web pages that fetch, cancel and page as the terminal does; labels;
   authentication as a gate of the API's actions.

Not planned: the decoding of call data in `abi.rs` (bytes to text; the name only
decides the label of a row), HMAC bytes, DNS resolution, validation of
subscription fields, rendering, HTTP plumbing, analytical queries and the
stored procedures, which no component calls, client examples and
scripts: no state or order of their own that a model would tell apart, or outside
the program.
