---------------------------- MODULE BlockIngest ----------------------------
(***************************************************************************)
(* One height of the chain, from the answers of the node to what the API   *)
(* serves: process_block of crates/indexer/src/worker.rs asks for the      *)
(* block and, by another call, for its receipts, decodes the logs, traces  *)
(* the reverted transactions and stores the rows, one statement of its own *)
(* per table; a pass that fails or dies is repeated from the start; the    *)
(* chain may replace the block between any two calls; a rollback empties   *)
(* the height; meanwhile GET /v1/failed-tx/{tx_hash} reads the rows of one *)
(* transaction, by statements of its own too.                              *)
(*                                                                         *)
(* The follow loop around process_block (which height, when, reorg scan,   *)
(* checkpoints of chunks) is Indexer; here its part is to repeat the pass, *)
(* to roll back and to save the checkpoint.  A block is a function from    *)
(* its transactions to records                                             *)
(*   [index, status, logs, trace]                                          *)
(* with the place of the transaction in the block, status "success" or     *)
(* "reverted", the sequence of its logs (those of Decoder), and what       *)
(* debug_traceTransaction says of it.  A transaction may be in several     *)
(* blocks of the height, with another outcome in each; that it be mined at *)
(* another height is left to Indexer.                                      *)
(***************************************************************************)
EXTENDS Decoder, FiniteSets

CONSTANTS
  Txs,                \* transactions that blocks of this height may hold
  Blocks,             \* the blocks the node may have at this height
  Rivals,             \* Rivals[b]: those that a reorg may put in the place of b
  Frame,              \* the rows a call tree can have
  ParseTrace(_),      \* parse_trace: the frames of a trace, << >> for an error
  MaxNumeric,         \* the largest amount a NUMERIC column takes
  MaxCallTreeFrames,  \* MAX_CALL_TREE_FRAMES
  TriggerChoices,     \* whether sql/triggers is installed: a set of booleans
  MaxFaults,          \* RPC and database failures and crashes in a behaviour
  MaxReorgs           \* reorgs of the height in a behaviour

ASSUME BoundsAssumption ==
  /\ MaxNumeric \in Nat
  /\ MaxCallTreeFrames \in Nat
  /\ MaxFaults \in Nat
  /\ MaxReorgs \in Nat
  /\ TriggerChoices \subseteq BOOLEAN

\* Transactions have places 1 to n, logs numbers of their own, and a trace that
\* parses has a root; its frames are rows of trace_log.
ASSUME BlocksAssumption ==
  \A b \in Blocks :
    /\ DOMAIN b \subseteq Txs
    /\ Rivals[b] \subseteq Blocks
    /\ \A t \in DOMAIN b :
         /\ b[t].index \in 1 .. Cardinality(DOMAIN b)
         /\ \A u \in DOMAIN b : b[u].index = b[t].index => u = t
         /\ \A i \in DOMAIN b[t].logs :
              /\ b[t].logs[i].a0 \in Int /\ b[t].logs[i].a1 \in Int
              /\ \A j \in DOMAIN b[t].logs :
                   b[t].logs[j].log_index = b[t].logs[i].log_index => j = i
         /\ ParseTrace(b[t].trace) \in Seq(Frame)

\* callTracer marks the root frame of a transaction that has been reverted.
ASSUME RevertedAssumption ==
  \A b \in Blocks : \A t \in DOMAIN b :
    b[t].status = "reverted" /\ ParseTrace(b[t].trace) # << >> =>
      ParseTrace(b[t].trace)[1].error = TRUE

VARIABLES
  block,        \* the block that the chain has at this height
  future,       \* blocks whose timestamp is more than 15 s ahead of the database's clock,
                \* kept where the triggers look at it
  triggers,     \* whether the triggers are installed
  header,       \* what get_block_by_number has told the pass
  receipts,     \* what get_block_receipts has told the pass (the last one, if it is over)
  blockRow,     \* the block whose row is stored, in a set
  txRows,       \* transaction: the transactions stored
  events,       \* swap_event, liquidity_event and token_transfer, in one set
  traceLog,     \* trace_log: the frames of each transaction by trace_id
  failedRow,    \* failed_transaction, by transaction
  stage,        \* what the pass does next; "idle": no process works on the height
  pending,      \* reverted transactions the pass has still to trace
  traced,       \* the frames of the others, << >> for those left out
  reader,       \* the request of a client of the API
  sources,      \* history: blocks the node has answered from since the last rollback
  passes,       \* history: passes since the last rollback (2: two or more)
  faults,       \* bound: failures so far
  reorgs        \* bound: reorgs so far

tableVars == <<blockRow, txRows, events, traceLog, failedRow>>
chainVars == <<block, future, triggers, reorgs>>
fetchVars == <<header, receipts, sources>>
traceVars == <<pending, traced>>
vars == <<tableVars, chainVars, fetchVars, traceVars, stage, reader, passes, faults>>

\* No transactions: a block not asked for yet, and what null receipts count as.
NoTxs == [t \in {} |-> "none"]

NoTraces == [t \in Txs |-> << >>]

-----------------------------------------------------------------------------
(* What a block calls for *)

Failing(b) == {t \in DOMAIN b : b[t].status = "reverted"}

\* Mutant: the loop ends at the first log that is not one of ours.
LogRowsUntilUnknown(b, t) ==
  {[tx |-> t, log_index |-> b[t].logs[i].log_index, event |-> DecodeLog(b[t].logs[i])] :
     i \in {k \in DOMAIN b[t].logs :
              \A j \in 1 .. k : DecodeLog(b[t].logs[j]) # NoEvent}}

\* The rows of a receipt's logs; those that decode to nothing are passed over.
LogRows(b, t) ==
  {[tx |-> t, log_index |-> b[t].logs[i].log_index, event |-> DecodeLog(b[t].logs[i])] :
     i \in {k \in DOMAIN b[t].logs : DecodeLog(b[t].logs[k]) # NoEvent}}

BlockRows(b) == UNION {LogRows(b, t) : t \in DOMAIN b}

\* Transactions are built from a receipt and the header's entry at its place.
ListedTxs == {t \in DOMAIN receipts : receipts[t].index <= Cardinality(DOMAIN header)}

Batch(table) == {r \in BlockRows(receipts) : r.event.table = table}

\* The conflict target (tx_hash, log_index) of one of the three tables.
SameKey(r, s) ==
  r.event.table = s.event.table /\ r.tx = s.tx /\ r.log_index = s.log_index

\* Every amount fits its column, and the ticks pass their CHECK.
StorableEvent(event) ==
  CASE event.table = "swap_event" ->
         /\ Magnitude(event.amount0) <= MaxNumeric
         /\ Magnitude(event.amount1) <= MaxNumeric
    [] event.table = "liquidity_event" ->
         /\ event.token0_amount <= MaxNumeric
         /\ event.token1_amount <= MaxNumeric
         /\ event.tick_lower < event.tick_upper
    [] OTHER -> event.amount <= MaxNumeric

StorableTrace(frames) == \A i \in DOMAIN frames : frames[i].value <= MaxNumeric

\* The text columns of PostgreSQL take no NUL character.
StorableReason(frames) ==
  frames # << >> => ~DecodeRevertReason(frames[1].output).nul

\* A row goes in only after the transaction it refers to (foreign key).
StorableRow(r) == StorableEvent(r.event) /\ r.tx \in txRows

-----------------------------------------------------------------------------
(* Rows of failed_transaction *)

NoFunction == "none"
NoRow == [category |-> "none", reason |-> NoReason, function |-> NoFunction]

\* What the trigger on transaction stores for a reverted one.
Stub == [category |-> "UNKNOWN", reason |-> NoReason, function |-> NoFunction]

\* The root frame gives the reason and the function.
FailedTransaction(frames) ==
  LET reason == DecodeRevertReason(frames[1].output)
  IN  [category |-> StoredCategory(ClassOf(reason)),
       reason |-> reason, function |-> frames[1].input]

-----------------------------------------------------------------------------
(* Requests of GET /v1/failed-tx/{tx_hash} *)

NoFrame == [call |-> "none"]

NoRequest == [step |-> "idle", tx |-> "none", row |-> NoRow, tree |-> << >>,
              truncated |-> FALSE, cause |-> NoFrame, rolledBack |-> FALSE]

Errors(rows) == {i \in DOMAIN rows : rows[i].error}

\* The frame of lowest trace_id that has an error.
FirstErrorFrame(rows) ==
  IF Errors(rows) = {} THEN NoFrame
  ELSE rows[CHOOSE i \in Errors(rows) : \A j \in Errors(rows) : i <= j]

FirstRows(rows, limit) == SubSeq(rows, 1, IF Len(rows) < limit THEN Len(rows) ELSE limit)

\* Frames behind these rows that no request would read are not kept.
Appended(rows, frames) ==
  IF Len(rows) > MaxCallTreeFrames /\ (Errors(rows) # {} \/ Errors(frames) = {})
  THEN rows ELSE rows \o frames

-----------------------------------------------------------------------------
Init ==
  /\ block \in Blocks
  /\ triggers \in TriggerChoices
  /\ future \in IF triggers THEN {{}, {block}} ELSE {{}}
  /\ header = NoTxs
  /\ receipts = NoTxs
  /\ blockRow = {}
  /\ txRows = {}
  /\ events = {}
  /\ traceLog = [t \in Txs |-> << >>]
  /\ failedRow = [t \in Txs |-> NoRow]
  /\ stage = "idle"
  /\ pending = {}
  /\ traced = NoTraces
  /\ reader = NoRequest
  /\ sources = {}
  /\ passes = 0
  /\ faults = 0
  /\ reorgs = 0

-----------------------------------------------------------------------------
(* The chain and the clock *)

Reorg ==
  /\ reorgs < MaxReorgs
  /\ reorgs' = reorgs + 1
  /\ block' \in Rivals[block]
  /\ future' \in IF triggers THEN {future, future \cup {block'}} ELSE {future}
  /\ UNCHANGED <<tableVars, fetchVars, traceVars, triggers, stage, reader, passes,
                 faults>>

ClockCatchesUp ==
  /\ \E b \in future : future' = future \ {b}
  /\ UNCHANGED <<tableVars, fetchVars, traceVars, block, triggers, reorgs, stage, reader,
                 passes, faults>>

-----------------------------------------------------------------------------
(* process_block *)

\* The process reaches the height, for the first time or again.
StartPass ==
  /\ stage = "idle"
  /\ stage' = "fetch"
  /\ passes' = IF passes = 0 THEN 1 ELSE 2
  /\ UNCHANGED <<tableVars, chainVars, fetchVars, traceVars, reader, faults>>

\* An error ends the pass; what it had in memory is gone.
PassOver ==
  /\ stage' = "idle"
  /\ header' = NoTxs
  /\ receipts' = NoTxs
  /\ pending' = {}
  /\ traced' = NoTraces
  /\ UNCHANGED <<tableVars, chainVars, sources, reader, passes>>

\* Two calls by number, answered in any order, each from the chain as it is then.
FetchHeader ==
  /\ stage \in {"fetch", "receipts"}
  /\ header' = block
  /\ sources' = sources \cup {block}
  /\ stage' = IF stage = "fetch" THEN "header" ELSE "block"
  /\ UNCHANGED <<tableVars, chainVars, receipts, traceVars, reader, passes, faults>>

\* Null receipts become an empty list.
FetchReceipts ==
  /\ stage \in {"fetch", "header"}
  /\ \/ receipts' = block /\ sources' = sources \cup {block}
     \/ receipts' = NoTxs /\ UNCHANGED sources
  /\ stage' = IF stage = "fetch" THEN "receipts" ELSE "block"
  /\ UNCHANGED <<tableVars, chainVars, header, traceVars, reader, passes, faults>>

\* A trigger looks at the timestamp of the header.
FromFuture == triggers /\ header \in future

\* ON CONFLICT (block_number) DO NOTHING.
InsertBlock ==
  /\ stage = "block"
  /\ ~FromFuture
  /\ blockRow' = IF blockRow = {} THEN {header} ELSE blockRow
  /\ stage' = "transaction"
  /\ UNCHANGED <<txRows, events, traceLog, failedRow, chainVars, fetchVars, traceVars,
                 reader, passes, faults>>

\* A trigger refuses a row from the future, before any conflict is looked for.
RejectBlock ==
  /\ stage = "block"
  /\ FromFuture
  /\ PassOver
  /\ UNCHANGED faults

\* A trigger fires in the same statement, for rows that were not there yet.
InsertTransactions ==
  /\ stage = "transaction"
  /\ txRows' = txRows \cup ListedTxs
  /\ failedRow' = [t \in Txs |->
       IF triggers /\ t \in (ListedTxs \cap Failing(receipts)) \ txRows /\ failedRow[t] = NoRow
       THEN Stub ELSE failedRow[t]]
  /\ stage' = "swap_event"
  /\ UNCHANGED <<blockRow, events, traceLog, chainVars, fetchVars, traceVars, reader,
                 passes, faults>>

\* ON CONFLICT (tx_hash, log_index) DO NOTHING, in one of the three tables.
InsertRows(table) ==
  /\ stage = table
  /\ \A r \in Batch(table) : StorableRow(r)
  /\ events' = events \cup {r \in Batch(table) : \A s \in events : ~SameKey(r, s)}
  /\ UNCHANGED <<blockRow, txRows, traceLog, failedRow, chainVars, fetchVars, traced,
                 reader, passes, faults>>

InsertSwapEvents ==
  /\ InsertRows("swap_event")
  /\ stage' = "liquidity_event"
  /\ UNCHANGED pending

InsertLiquidityEvents ==
  /\ InsertRows("liquidity_event")
  /\ stage' = "token_transfer"
  /\ UNCHANGED pending

\* After the last events the pass goes on to the transactions that failed.
InsertTokenTransfers ==
  /\ InsertRows("token_transfer")
  /\ stage' = "traces"
  /\ pending' = Failing(receipts)

\* Mutant: the error of the statement is dropped.
RejectEventsIgnored(table) ==
  /\ stage = table
  /\ \E r \in Batch(table) : ~StorableRow(r)
  /\ stage' = "traces"
  /\ pending' = Failing(receipts)
  /\ UNCHANGED <<tableVars, chainVars, fetchVars, traced, reader, passes, faults>>

\* A value is out of range, a CHECK fails, or a log is of a transaction that the
\* shorter block of another branch did not list: the statement and the pass fail.
RejectEvents(table) ==
  /\ stage = table
  /\ \E r \in Batch(table) : ~StorableRow(r)
  /\ PassOver
  /\ UNCHANGED faults

-----------------------------------------------------------------------------
(* process_failed_txs: one transaction after the other, in receipt order *)

FirstPending(t) ==
  /\ stage = "traces"
  /\ t \in pending
  /\ \A u \in pending : receipts[t].index <= receipts[u].index

\* What debug_traceTransaction, by hash, says now; it knows the chain's block only.
TraceOf(t) == IF t \in DOMAIN block THEN ParseTrace(block[t].trace) ELSE << >>

\* Mutant: a trace that does not parse ends the loop.
TraceTxBreaks(t) ==
  /\ FirstPending(t)
  /\ pending' = IF TraceOf(t) # << >> THEN pending \ {t} ELSE {}
  /\ traced' = [traced EXCEPT ![t] = TraceOf(t)]
  /\ sources' = sources \cup {block}
  /\ UNCHANGED <<tableVars, chainVars, header, receipts, stage, reader, passes, faults>>

\* Mutant: a trace that does not parse is asked for again.
TraceTxRetries(t) ==
  /\ FirstPending(t)
  /\ TraceOf(t) # << >>
  /\ pending' = pending \ {t}
  /\ traced' = [traced EXCEPT ![t] = TraceOf(t)]
  /\ sources' = sources \cup {block}
  /\ UNCHANGED <<tableVars, chainVars, header, receipts, stage, reader, passes, faults>>

\* A transaction that the node does not know, or whose trace does not parse, is left out.
TraceTx(t) ==
  /\ FirstPending(t)
  /\ pending' = pending \ {t}
  /\ traced' = [traced EXCEPT ![t] = TraceOf(t)]
  /\ sources' = sources \cup {block}
  /\ UNCHANGED <<tableVars, chainVars, header, receipts, stage, reader, passes, faults>>

\* debug_traceTransaction fails: the transaction is left out, the pass goes on.
TraceFails(t) ==
  /\ FirstPending(t)
  /\ faults < MaxFaults
  /\ faults' = faults + 1
  /\ pending' = pending \ {t}
  /\ UNCHANGED <<tableVars, chainVars, fetchVars, traced, stage, reader, passes>>

TracesDone == stage = "traces" /\ pending = {}

Traced == {t \in Txs : traced[t] # << >>}

\* Rows that are there already stay (ON CONFLICT (tx_hash) DO NOTHING).
FailedRowsAdded ==
  [t \in Txs |-> IF t \in Traced /\ failedRow[t] = NoRow
                 THEN FailedTransaction(traced[t]) ELSE failedRow[t]]

\* Mutant: the rows of the transactions go in before their call trees.
InsertTraceLogsLast ==
  /\ TracesDone
  /\ failedRow' = FailedRowsAdded
  /\ stage' = "failed_transaction"
  /\ UNCHANGED <<blockRow, txRows, events, traceLog, chainVars, fetchVars, traceVars,
                 reader, passes, faults>>

StorableTraces == \A t \in Traced : StorableTrace(traced[t]) /\ t \in txRows

\* One statement for all of them, without a conflict rule.
InsertTraceLogs ==
  /\ TracesDone
  /\ StorableTraces
  /\ traceLog' = [t \in Txs |-> Appended(traceLog[t], traced[t])]
  /\ stage' = "failed_transaction"
  /\ UNCHANGED <<blockRow, txRows, events, failedRow, chainVars, fetchVars, traceVars,
                 reader, passes, faults>>

RejectTraceLogs ==
  /\ TracesDone
  /\ ~StorableTraces
  /\ PassOver
  /\ UNCHANGED faults

\* Mutant: a row that is there already is overwritten.
InsertFailedTransactionsUpdating ==
  /\ stage = "failed_transaction"
  /\ \A t \in Traced : StorableReason(traced[t])
  /\ failedRow' = [t \in Txs |-> IF t \in Traced THEN FailedTransaction(traced[t])
                                 ELSE failedRow[t]]
  /\ stage' = "stored"
  /\ UNCHANGED <<blockRow, txRows, events, traceLog, chainVars, fetchVars, traceVars,
                 reader, passes, faults>>

\* The foreign key has held for the call trees already.
InsertFailedTransactions ==
  /\ stage = "failed_transaction"
  /\ \A t \in Traced : StorableReason(traced[t])
  /\ failedRow' = FailedRowsAdded
  /\ stage' = "stored"
  /\ UNCHANGED <<blockRow, txRows, events, traceLog, chainVars, fetchVars, traceVars,
                 reader, passes, faults>>

\* A reason with a NUL character fails the statement, rows that conflict included.
RejectFailedTransactions ==
  /\ stage = "failed_transaction"
  /\ \E t \in Traced : ~StorableReason(traced[t])
  /\ PassOver
  /\ UNCHANGED faults

-----------------------------------------------------------------------------
(* The process around it *)

\* The checkpoint passes the height: no pass repeats it, short of a rollback.
SaveCheckpoint ==
  /\ stage = "stored"
  /\ stage' = "indexed"
  /\ UNCHANGED <<tableVars, chainVars, fetchVars, traceVars, reader, passes, faults>>

\* The RPC gives up, a statement fails or the process dies.
Fail ==
  /\ stage \notin {"idle", "indexed"}
  /\ faults < MaxFaults
  /\ faults' = faults + 1
  /\ PassOver

\* Mutant: trace_log is left out of the rollback.
RollbackKeepsTraces ==
  /\ stage \in {"idle", "indexed"}
  /\ reorgs > 0
  /\ blockRow' = {}
  /\ txRows' = {}
  /\ events' = {}
  /\ failedRow' = [t \in Txs |-> NoRow]
  /\ stage' = "idle"
  /\ header' = NoTxs
  /\ receipts' = NoTxs
  /\ pending' = {}
  /\ traced' = NoTraces
  /\ sources' = {}
  /\ passes' = 0
  /\ reader' = [reader EXCEPT !.rolledBack = (reader.step # "idle")]
  /\ UNCHANGED <<chainVars, traceLog, faults>>

\* rollback_from_block, one transaction over all tables.  The scan asks for it after
\* a reorg, of this height or of one below, and may be late or early (see Indexer).
Rollback ==
  /\ stage \in {"idle", "indexed"}
  /\ reorgs > 0
  /\ blockRow' = {}
  /\ txRows' = {}
  /\ events' = {}
  /\ traceLog' = [t \in Txs |-> << >>]
  /\ failedRow' = [t \in Txs |-> NoRow]
  /\ stage' = "idle"
  /\ header' = NoTxs
  /\ receipts' = NoTxs
  /\ pending' = {}
  /\ traced' = NoTraces
  /\ sources' = {}
  /\ passes' = 0
  /\ reader' = [reader EXCEPT !.rolledBack = (reader.step # "idle")]
  /\ UNCHANGED <<chainVars, faults>>

-----------------------------------------------------------------------------
(* get_failed_tx, one action per statement on the rows the indexer writes *)

\* Of a request, the rest of the state sees nothing.
Undisturbed ==
  UNCHANGED <<tableVars, chainVars, fetchVars, traceVars, stage, passes, faults>>

\* A transaction without a row is answered 404.
GetFailedTransaction(t) ==
  /\ reader.step = "idle"
  /\ failedRow[t] # NoRow
  /\ reader' = [NoRequest EXCEPT !.step = "tree", !.tx = t, !.row = failedRow[t]]
  /\ Undisturbed

\* Mutant: LIMIT asks for the cap itself, not for one more.
ListTraceLogsAtCap ==
  /\ reader.step = "tree"
  /\ LET rows == FirstRows(traceLog[reader.tx], MaxCallTreeFrames) IN
     reader' = [reader EXCEPT !.step = "cause", !.tree = rows,
                              !.truncated = (Len(rows) > MaxCallTreeFrames)]
  /\ Undisturbed

\* One row more than the cap is asked for, to notice that there are more.
ListTraceLogs ==
  /\ reader.step = "tree"
  /\ LET rows == FirstRows(traceLog[reader.tx], MaxCallTreeFrames + 1) IN
     reader' = [reader EXCEPT !.step = "cause",
                              !.tree = FirstRows(rows, MaxCallTreeFrames),
                              !.truncated = (Len(rows) > MaxCallTreeFrames)]
  /\ Undisturbed

GetFirstErrorFrame ==
  /\ reader.step = "cause"
  /\ reader' = [reader EXCEPT !.step = "answered",
                              !.cause = FirstErrorFrame(traceLog[reader.tx])]
  /\ Undisturbed

Reply ==
  /\ reader.step = "answered"
  /\ reader' = NoRequest
  /\ Undisturbed

-----------------------------------------------------------------------------
Pass ==
  \/ StartPass \/ FetchHeader \/ FetchReceipts
  \/ InsertBlock \/ RejectBlock \/ InsertTransactions
  \/ InsertSwapEvents \/ InsertLiquidityEvents \/ InsertTokenTransfers
  \/ RejectEvents("swap_event") \/ RejectEvents("liquidity_event")
  \/ RejectEvents("token_transfer")
  \/ \E t \in Txs : TraceTx(t)
  \/ InsertTraceLogs \/ RejectTraceLogs
  \/ InsertFailedTransactions \/ RejectFailedTransactions
  \/ SaveCheckpoint

Faults == Fail \/ \E t \in Txs : TraceFails(t)

Request ==
  \/ \E t \in Txs : GetFailedTransaction(t)
  \/ ListTraceLogs \/ GetFirstErrorFrame \/ Reply

Next == Pass \/ Faults \/ Rollback \/ Reorg \/ ClockCatchesUp \/ Request

Spec == Init /\ [][Next]_vars

\* The process is restarted when it has ended, and works on while it runs; time
\* passes.
FairSpec == Spec /\ WF_vars(Pass) /\ WF_vars(ClockCatchesUp)

-----------------------------------------------------------------------------
(* Types and the inductive invariant *)

Tables == {"swap_event", "liquidity_event", "token_transfer"}

\* The stages in which a pass has the answer of each call, and what they are before.
HeaderKnown == {"header", "block", "transaction", "traces", "failed_transaction",
                "stored", "indexed"} \cup Tables
ReceiptsKnown == (HeaderKnown \ {"header"}) \cup {"receipts"}
Stages == HeaderKnown \cup {"idle", "fetch", "receipts"}

StartsWith(rows, frames) ==
  /\ Len(frames) <= Len(rows)
  /\ \A i \in 1 .. Len(frames) : rows[i] = frames[i]

\* The traces the node may have given for a transaction since the last rollback.
Trees(t) ==
  {ParseTrace(b[t].trace) : b \in {c \in sources : t \in DOMAIN c}} \ {<< >>}

TypeOK ==
  /\ block \in Blocks
  /\ future \subseteq Blocks
  /\ triggers \in BOOLEAN
  /\ sources \subseteq Blocks
  /\ txRows \subseteq Txs
  /\ traceLog \in [Txs -> Seq(Frame)]
  /\ failedRow = [t \in Txs |-> failedRow[t]]
  /\ stage \in Stages
  /\ traced \in [Txs -> Seq(Frame)]
  /\ passes \in 0 .. 2
  /\ faults \in 0 .. MaxFaults
  /\ reorgs \in 0 .. MaxReorgs

\* What the pass has in memory comes from the node, and starts empty.
Memory ==
  /\ header \in sources \cup {NoTxs}
  /\ stage \in HeaderKnown => header \in sources
  /\ receipts \in sources \cup {NoTxs}
  /\ stage \notin ReceiptsKnown => receipts = NoTxs
  /\ pending \subseteq Failing(receipts)
  /\ stage \notin {"traces", "failed_transaction", "stored", "indexed"} =>
       traced = NoTraces
  /\ stage # "traces" => pending = {}

\* The rows stored are rows that some answer of the node calls for; numbers fit, and
\* foreign keys hold.
RowsOfSources ==
  /\ blockRow \subseteq sources
  /\ txRows \subseteq UNION {DOMAIN b : b \in sources}
  /\ events \subseteq UNION {BlockRows(b) : b \in sources}
  /\ \A r \in events : StorableRow(r)
  /\ \A t \in Txs : traceLog[t] # << >> \/ failedRow[t] # NoRow => t \in txRows
  /\ txRows # {} => blockRow # {}

\* What a pass has behind it is in the database, if perhaps from an earlier pass.
AfterTables == {"traces", "failed_transaction", "stored", "indexed"}
AfterTable(table) ==
  IF table = "swap_event" THEN AfterTables \cup {"liquidity_event", "token_transfer"}
  ELSE IF table = "liquidity_event" THEN AfterTables \cup {"token_transfer"}
  ELSE AfterTables

StageRows ==
  /\ stage \in AfterTable("swap_event") \cup {"swap_event", "transaction"} => blockRow # {}
  /\ stage \in AfterTable("swap_event") \cup {"swap_event"} => ListedTxs \subseteq txRows
  /\ \A table \in Tables : stage \in AfterTable(table) =>
       \A r \in Batch(table) : StorableRow(r) /\ \E s \in events : SameKey(r, s)

\* A call tree is of a transaction that some answer had reverted; it starts with
\* the root of a trace of it and has all its frames.
TraceRows ==
  \A t \in Txs : traceLog[t] # << >> =>
    /\ \E b \in sources : t \in Failing(b)
    /\ \E tree \in Trees(t) : StartsWith(traceLog[t], tree)

\* Without the triggers a row is the one that a trace of the transaction gives; with
\* them every stored reverted transaction has the stub, for good.
FailedRows ==
  \A t \in Txs :
    /\ ~triggers /\ failedRow[t] # NoRow =>
         /\ \E b \in sources : t \in Failing(b)
         /\ \E tree \in Trees(t) : failedRow[t] = FailedTransaction(tree)
    /\ triggers => \A b \in sources : sources = {b} =>
         failedRow[t] = IF t \in Failing(b) \cap txRows THEN Stub ELSE NoRow
    /\ failedRow[t] # NoRow => \E b \in sources : t \in Failing(b)

(***************************************************************************)
(* All the node has said since the last rollback was of one block, and it  *)
(* had its receipts: no null, no reorg halfway.                            *)
(***************************************************************************)
OneSource == sources = {receipts}

\* What the pass has traced, and what it has found missing so far.
AfterTraces == {"failed_transaction", "stored", "indexed"}
TracedRows ==
  /\ \A t \in Traced : t \in Failing(receipts) /\ traced[t] \in Trees(t)
  /\ stage \in AfterTraces =>
       \A t \in Traced : traceLog[t] # << >> /\ StorableTrace(traced[t]) /\ t \in txRows
  /\ stage \in {"stored", "indexed"} => \A t \in Traced : StorableReason(traced[t])
  /\ stage \in {"traces"} \cup AfterTraces /\ faults = 0 /\ OneSource =>
       \A t \in Failing(receipts) \ pending :
         ParseTrace(receipts[t].trace) # << >> => t \in Traced

\* The first pass finds trace_log empty.
FirstPass ==
  /\ passes = 0 => stage = "idle" /\ sources = {}
  /\ passes <= 1 /\ stage \notin AfterTraces \cup {"idle"} => \A t \in Txs : traceLog[t] = << >>

ReaderOK ==
  /\ DOMAIN reader = DOMAIN NoRequest
  /\ reader.step \in {"idle", "tree", "cause", "answered"}
  /\ reader.truncated \in BOOLEAN /\ reader.rolledBack \in BOOLEAN
  /\ reader.step # "idle" => reader.tx \in Txs
  /\ reader.step # "idle" /\ ~reader.rolledBack =>
       /\ reader.row = failedRow[reader.tx]
       /\ reader.row # NoRow

-----------------------------------------------------------------------------
(* Safety *)

(***************************************************************************)
(* When the height counts as processed, every log of the receipts it was   *)
(* answered has a row at its place, and if all answers were of one block   *)
(* it has exactly one, which says what the log says: whatever passes were  *)
(* cut short before (worker.rs:382-462, the conflict rules of              *)
(* queries.rs:182-313).  At any time a row is that of a log the node has   *)
(* shown since the last rollback (queries.rs:839-903).  Null receipts      *)
(* (worker.rs:365) leave a height processed without an event, and a reorg  *)
(* between two calls may leave the row of another branch at a log's place. *)
(***************************************************************************)
EventsComplete ==
  /\ \A r \in events : \E b \in sources :
       /\ r.tx \in DOMAIN b
       /\ \E i \in DOMAIN b[r.tx].logs :
            /\ r.log_index = b[r.tx].logs[i].log_index
            /\ r.event = DecodeLog(b[r.tx].logs[i])
  /\ stage \in {"stored", "indexed"} =>
       \A t \in DOMAIN receipts : \A i \in DOMAIN receipts[t].logs :
         LET log == receipts[t].logs[i]
             found == {s \in events : s.tx = t /\ s.log_index = log.log_index}
             expected == {DecodeLog(log)} \ {NoEvent}
         IN  /\ \A e \in expected : \E s \in found : s.event.table = e.table
             /\ OneSource => {s.event : s \in found} = expected

(***************************************************************************)
(* Of a swap's two amounts the stored amount_in is the larger and          *)
(* amount_out the other one's magnitude, whichever token came in           *)
(* (events.rs:216-221).  The exception is a swap of token1 so small that   *)
(* no token0 went out: amount0 = 0 is taken for the side that came in.     *)
(***************************************************************************)
SwapSides ==
  \A r \in events :
    LET e == r.event IN
    /\ e.table = "swap_event"
    /\ \/ e.amount0 < 0 /\ e.amount1 >= 0
       \/ e.amount0 >= 0 /\ e.amount1 <= 0
    =>
      /\ e.amount_in >= 0
      /\ e.amount_out >= 0
      /\ e.amount_in - e.amount_out = e.amount0 + e.amount1

(***************************************************************************)
(* A row of failed_transaction that its trace has given comes after the    *)
(* call tree it was made from, across passes cut short between the two     *)
(* statements, reorgs and rollbacks (worker.rs:472-480): the API never has *)
(* a failed transaction without a tree.                                    *)
(***************************************************************************)
TreeBeforeRow ==
  ~triggers => \A t \in Txs : failedRow[t] # NoRow => traceLog[t] # << >>

(***************************************************************************)
(* A call tree is stored more than once only when the block was indexed    *)
(* again without a rollback: trace_log has no conflict rule                *)
(* (queries.rs:452), and one pass inserts each tree once.                  *)
(***************************************************************************)
SingleTree ==
  passes <= 1 => \A t \in Txs : traceLog[t] \in {<< >>} \cup Trees(t)

(***************************************************************************)
(* If all the node has said was of one block, a reverted transaction whose *)
(* trace parses is missing from failed_transaction at the end of a pass    *)
(* only after a failure: process_failed_txs (worker.rs:518-546) leaves it  *)
(* out for good then.  Null receipts (365) and a reorg before the trace    *)
(* leave it out too, and are no failure to the code.                       *)
(***************************************************************************)
MissingOnlyByFault ==
  stage \in {"stored", "indexed"} /\ faults = 0 /\ OneSource =>
    \A t \in Failing(receipts) :
      ParseTrace(receipts[t].trace) # << >> => failedRow[t] # NoRow

(***************************************************************************)
(* The answer of GET /v1/failed-tx/{tx_hash} is put together from three    *)
(* statements while the indexer writes.  Unless the height is rolled back  *)
(* meanwhile, and as long as the node has answered from one block only,    *)
(* its parts agree: the row, the tree and the root cause are those of one  *)
(* trace, and the tree is whole or marked as cut at the cap                *)
(* (failed_tx.rs:35-42).                                                   *)
(***************************************************************************)
DetailConsistent ==
  reader.step = "answered" /\ ~reader.rolledBack /\ ~triggers =>
    \A b \in sources : sources = {b} =>
      LET frames == ParseTrace(b[reader.tx].trace) IN
      /\ reader.row = FailedTransaction(frames)
      /\ reader.cause = FirstErrorFrame(frames)
      /\ \A i \in DOMAIN reader.tree \cap DOMAIN frames : reader.tree[i] = frames[i]
      /\ IF reader.truncated THEN Len(reader.tree) = MaxCallTreeFrames
                             ELSE Len(reader.tree) >= Len(frames)

\* The parts of DetailConsistent as the request gathers them.
ReaderParts ==
  ~reader.rolledBack /\ ~triggers =>
    \A b \in sources : sources = {b} =>
      LET frames == ParseTrace(b[reader.tx].trace) IN
      /\ reader.step \in {"cause", "answered"} =>
           /\ reader.tree \in Seq(Frame)
           /\ \A i \in 1 .. Len(reader.tree) :
                i <= Len(frames) => reader.tree[i] = frames[i]
           /\ IF reader.truncated THEN Len(reader.tree) = MaxCallTreeFrames
                                  ELSE Len(reader.tree) >= Len(frames)
      /\ reader.step = "answered" => reader.cause = FirstErrorFrame(frames)

(***************************************************************************)
(* The inductive invariant behind the theorems: what each stage of the     *)
(* pass has stored, and what a request has read so far.                    *)
(***************************************************************************)
IndInv ==
  /\ TypeOK
  /\ Memory
  /\ RowsOfSources
  /\ StageRows
  /\ TraceRows
  /\ FailedRows
  /\ TreeBeforeRow
  /\ TracedRows
  /\ MissingOnlyByFault
  /\ FirstPass
  /\ SingleTree
  /\ ReaderOK
  /\ ReaderParts

-----------------------------------------------------------------------------
(* The abstract specification *)

EventKey(r) == <<r.event.table, r.tx, r.log_index>>

\* Before both answers are there, a pass calls for nothing.
Must ==
  IF stage \in HeaderKnown \cap ReceiptsKnown
  THEN {<<"block", 0>>} \cup {<<"tx", t>> : t \in ListedTxs}
         \cup {<<"event", EventKey(r)>> : r \in BlockRows(receipts)}
  ELSE {}

MayOf(b) ==
  {<<"block", 0>>} \cup {<<"tx", t>> : t \in DOMAIN b}
    \cup {<<"event", EventKey(r)>> : r \in BlockRows(b)}
    \cup {<<"trace", t>> : t \in Failing(b)} \cup {<<"failed", t>> : t \in Failing(b)}

May == UNION {MayOf(b) : b \in sources}

Stored ==
  {<<"block", 0>> : b \in blockRow} \cup {<<"tx", t>> : t \in txRows}
    \cup {<<"event", EventKey(r)>> : r \in events}
    \cup {<<"trace", t>> : t \in {u \in Txs : traceLog[u] # << >>}}
    \cup {<<"failed", t>> : t \in {u \in Txs : failedRow[u] # NoRow}}

Ledger == INSTANCE BlockLedger WITH must <- Must, may <- May, rows <- Stored,
                                    indexed <- (stage = "indexed")

(***************************************************************************)
(* process_block, its repetitions and rollback_from_block implement the    *)
(* ledger: rows are only added until the height is rolled back as a whole, *)
(* and the checkpoint passes it only when there is a row for all that the  *)
(* two answers of the last pass call for.                                  *)
(***************************************************************************)
ImplementsLedger == Ledger!Spec

-----------------------------------------------------------------------------
(* Liveness *)

\* Everything in the block has its place in the database.
Fits(b) ==
  /\ \A r \in BlockRows(b) : StorableEvent(r.event)
  /\ \A t \in Failing(b) : /\ StorableTrace(ParseTrace(b[t].trace))
                           /\ StorableReason(ParseTrace(b[t].trace))

(***************************************************************************)
(* A height whose block fits the tables is indexed in the end, however its *)
(* passes were cut short, by failures, by reorgs or by the timestamp check *)
(* of the triggers; a block with a number too wide for its column (the     *)
(* NUMERIC(38,0) columns of the initial schema against uint256 in the      *)
(* logs) or a NUL character in a revert reason (trace.rs:226) stops every  *)
(* pass at the same statement (queries.rs:182-356).                        *)
(***************************************************************************)
StorableIsIndexed == []<>(stage = "indexed" \/ ~Fits(block))

(***************************************************************************)
(* And only such a block: every amount in the logs that an indexed height  *)
(* was answered fits its column, and, if all answers were of one block and *)
(* no failure has left a trace out, every value of its call trees and      *)
(* every revert reason (the statements of queries.rs:207-356 and 452 fail  *)
(* as a whole, and the checkpoint waits for them, worker.rs:450-480).      *)
(***************************************************************************)
OnlyStorableIndexed ==
  stage \in {"stored", "indexed"} =>
    /\ \A r \in BlockRows(receipts) : StorableEvent(r.event)
    /\ faults = 0 /\ OneSource => Fits(receipts)

\* How many stages a pass has before it.
StagesLeft ==
  CASE stage = "idle" -> 11
    [] stage = "fetch" -> 10
    [] stage \in {"header", "receipts"} -> 9
    [] stage = "block" -> 8
    [] stage = "transaction" -> 7
    [] stage = "swap_event" -> 6
    [] stage = "liquidity_event" -> 5
    [] stage = "token_transfer" -> 4
    [] stage = "traces" -> 3
    [] stage = "failed_transaction" -> 2
    [] stage = "stored" -> 1
    [] stage = "indexed" -> 0

\* A stage is behind, or one more transaction is traced or left out.
MovesOn ==
  \/ StagesLeft' < StagesLeft
  \/ StagesLeft' = StagesLeft /\ (\E t \in pending : pending' = pending \ {t})

(***************************************************************************)
(* While all the node has said is of the block the chain has, the block    *)
(* fits and its time has come, no step sends a pass back: it ends after as *)
(* many steps as there are stages and reverted transactions, null receipts *)
(* or not, whatever earlier passes have left in the tables                 *)
(* (worker.rs:339-482, the loop of 503-549).                               *)
(***************************************************************************)
PassMovesOn ==
  [][sources \subseteq {block} /\ Fits(block) /\ block \notin future /\ Pass => MovesOn]_vars

-----------------------------------------------------------------------------
(* What the documents say *)

\* j is in the call tree below i.
Below(tree, i, j) == i < j /\ \A k \in (i + 1) .. j : tree[k].depth > tree[i].depth

(***************************************************************************)
(* The root cause of an answer is where the revert originated: no call     *)
(* below that frame has failed too.  docs/api-failed-tx.md:172-174 says    *)
(* "where the revert actually originated", get_first_error_frame           *)
(* (queries.rs:634) the frame of the tree where the revert happened.       *)
(***************************************************************************)
RootCauseIsOrigin ==
  /\ reader.step = "answered" /\ ~reader.rolledBack
  /\ ~reader.truncated /\ reader.cause # NoFrame
  =>
    \E i \in DOMAIN reader.tree :
      /\ reader.tree[i] = reader.cause
      /\ \A j \in DOMAIN reader.tree : Below(reader.tree, i, j) => ~reader.tree[j].error
=============================================================================
