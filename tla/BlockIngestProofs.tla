------------------------- MODULE BlockIngestProofs -------------------------
(***************************************************************************)
(* Proofs about BlockIngest, for any blocks, any flattening of traces and  *)
(* any number of failures, reorgs and rollbacks, null receipts and mixed   *)
(* answers included: what is stored when a height counts as indexed, what  *)
(* a client of the API can be told, and that the pass implements           *)
(* BlockLedger.  At the end, facts about the classifier.                   *)
(***************************************************************************)
EXTENDS BlockIngest, TLAPS

-----------------------------------------------------------------------------
(* Small facts *)

(* What a pass has to store depends on its two answers alone. *)
LEMMA SameAnswers ==
  ASSUME UNCHANGED <<header, receipts>>
  PROVE  /\ ListedTxs' = ListedTxs
         /\ \A table : Batch(table)' = Batch(table)
BY DEF ListedTxs, Batch

(* More answers never make a trace impossible. *)
LEMMA MoreTrees ==
  ASSUME sources \subseteq sources'
  PROVE  \A t : Trees(t) \subseteq Trees(t)'
BY DEF Trees

(* Trees are sequences of rows of trace_log, and not empty. *)
LEMMA TreesAreSeqs ==
  ASSUME sources \subseteq Blocks
  PROVE  \A t \in Txs : \A tree \in Trees(t) : tree \in Seq(Frame) /\ tree # << >>
BY BlocksAssumption DEF Trees

(* What the chain says of a transaction is a tree, or nothing. *)
LEMMA TraceIsTree ==
  ASSUME block \in Blocks, NEW t \in Txs, sources' = sources \cup {block}
  PROVE  /\ TraceOf(t) \in Seq(Frame)
         /\ TraceOf(t) # << >> => TraceOf(t) \in Trees(t)'
<1>1. CASE t \in DOMAIN block
  BY <1>1, BlocksAssumption DEF TraceOf, Trees
<1>2. CASE t \notin DOMAIN block
  BY <1>2 DEF TraceOf
<1>3. QED
  BY <1>1, <1>2

(* No row that is stored is the mark of a missing one. *)
LEMMA RowsDiffer ==
  ASSUME NEW frames
  PROVE  FailedTransaction(frames) # NoRow /\ Stub # NoRow
<1>1. \A class : StoredCategory(class) # "none"
  BY DEF StoredCategory
<1>2. FailedTransaction(frames).category # "none"
  BY <1>1 DEF FailedTransaction
<1>3. QED
  BY <1>2 DEF NoRow, Stub

(* Rows appended to a tree leave its beginning as it is. *)
LEMMA AppendKeepsStart ==
  ASSUME NEW S, NEW rows \in Seq(S), NEW more \in Seq(S), NEW frames \in Seq(S),
         StartsWith(rows, frames)
  PROVE  StartsWith(Appended(rows, more), frames)
<1>1. StartsWith(rows \o more, frames)
  BY DEF StartsWith
<1>2. QED
  BY <1>1 DEF Appended

(* What is appended to a sequence gives one, and is not lost. *)
LEMMA AppendedIsSeq ==
  ASSUME NEW S, NEW rows \in Seq(S), NEW more \in Seq(S)
  PROVE  /\ Appended(rows, more) \in Seq(S)
         /\ rows = << >> => Appended(rows, more) = more
         /\ rows # << >> \/ more # << >> => Appended(rows, more) # << >>
         /\ more = << >> => Appended(rows, more) = rows
<1>1. rows = << >> => rows \o more = more
  OBVIOUS
<1>2. more = << >> => rows \o more = rows
  OBVIOUS
<1>3. rows # << >> \/ more # << >> => rows \o more # << >>
  OBVIOUS
<1>4. rows = << >> => Len(rows) = 0
  OBVIOUS
<1>5. rows = << >> => ~(Len(rows) > MaxCallTreeFrames)
  BY <1>4, BoundsAssumption
<1>6. QED
  BY <1>1, <1>2, <1>3, <1>5 DEF Appended

(* A tree that starts with a frame in error has it as its first error. *)
LEMMA FirstErrorIsRoot ==
  ASSUME NEW rows \in Seq(Frame), rows # << >>, rows[1].error = TRUE
  PROVE  FirstErrorFrame(rows) = rows[1]
<1>1. 1 \in Errors(rows)
  BY DEF Errors
<1>2. \A i \in Errors(rows) : i \in Nat /\ 1 <= i
  BY DEF Errors
<1>3. PICK i : i = CHOOSE k \in Errors(rows) : \A j \in Errors(rows) : k <= j
  OBVIOUS
<1>4. i \in Errors(rows) /\ \A j \in Errors(rows) : i <= j
  BY <1>1, <1>2, <1>3
<1>5. i = 1
  BY <1>1, <1>2, <1>4
<1>6. QED
  BY <1>1, <1>3, <1>5 DEF FirstErrorFrame

(* What a request finds first in a tree is what the one trace has first. *)
LEMMA CauseOfTrace ==
  ASSUME IndInv, NEW t \in Txs, traceLog[t] # << >>, NEW b, sources = {b}
  PROVE  /\ t \in Failing(b)
         /\ ParseTrace(b[t].trace) \in Seq(Frame)
         /\ StartsWith(traceLog[t], ParseTrace(b[t].trace))
         /\ FirstErrorFrame(traceLog[t]) = FirstErrorFrame(ParseTrace(b[t].trace))
<1> DEFINE frames == ParseTrace(b[t].trace)
<1>1. t \in Failing(b) /\ b \in Blocks
  BY DEF IndInv, TypeOK, TraceRows
<1>2. Trees(t) \subseteq {frames}
  BY DEF Trees
<1>3. StartsWith(traceLog[t], frames) /\ frames \in Trees(t)
  BY <1>2 DEF IndInv, TraceRows
<1>4. frames \in Seq(Frame) /\ frames # << >> /\ traceLog[t] \in Seq(Frame)
  BY <1>3, TreesAreSeqs DEF IndInv, TypeOK
<1>5. frames[1].error = TRUE
  BY <1>1, <1>4, RevertedAssumption DEF Failing
<1>6. traceLog[t][1] = frames[1]
  BY <1>3, <1>4 DEF StartsWith
<1>7. FirstErrorFrame(traceLog[t]) = FirstErrorFrame(frames)
  BY <1>4, <1>5, <1>6, FirstErrorIsRoot
<1>8. QED
  BY <1>1, <1>3, <1>4, <1>7

(* The first rows of a result. *)
LEMMA FirstRowsFacts ==
  ASSUME NEW S, NEW rows \in Seq(S), NEW limit \in Nat
  PROVE  /\ FirstRows(rows, limit) \in Seq(S)
         /\ Len(FirstRows(rows, limit)) = IF Len(rows) < limit THEN Len(rows) ELSE limit
         /\ \A i \in 1 .. Len(FirstRows(rows, limit)) : FirstRows(rows, limit)[i] = rows[i]
BY DEF FirstRows

-----------------------------------------------------------------------------
(* The invariant holds at the start *)

(* Nothing is stored, no pass runs and nobody asks. *)
LEMMA InitIndInv == Init => IndInv
<1> SUFFICES ASSUME Init PROVE IndInv
  OBVIOUS
<1> USE BoundsAssumption
<1>1. TypeOK
  <2>1. /\ traceLog \in [Txs -> Seq(Frame)] /\ failedRow = [t \in Txs |-> failedRow[t]]
        /\ traced \in [Txs -> Seq(Frame)]
    BY DEF Init, NoTraces
  <2>2. triggers \in BOOLEAN /\ future \subseteq Blocks
    BY DEF Init
  <2>3. QED
    BY <2>1, <2>2 DEF Init, TypeOK, Stages
<1>2. \A t \in Txs : traceLog[t] = << >> /\ failedRow[t] = NoRow
  BY DEF Init
<1>3. stage = "idle" /\ sources = {} /\ Traced = {}
  BY DEF Init, Traced, NoTraces
<1>4. Memory
  BY <1>3 DEF Init, Memory, HeaderKnown, ReceiptsKnown, Tables
<1>5. RowsOfSources
  BY <1>2 DEF Init, RowsOfSources
<1>6. StageRows
  BY <1>3 DEF StageRows, AfterTables, AfterTable, Tables
<1>7. TraceRows /\ TreeBeforeRow /\ SingleTree
  BY <1>2 DEF TraceRows, TreeBeforeRow, SingleTree
<1>8. FailedRows /\ FirstPass
  BY <1>2, <1>3 DEF Init, FailedRows, FirstPass
<1>9. TracedRows /\ MissingOnlyByFault
  BY <1>3 DEF AfterTraces, TracedRows, MissingOnlyByFault
<1>10. ReaderOK /\ ReaderParts
  BY DEF Init, ReaderOK, ReaderParts, NoRequest
<1>11. QED
  BY <1>1, <1>4, <1>5, <1>6, <1>7, <1>8, <1>9, <1>10 DEF IndInv

-----------------------------------------------------------------------------
(* Steps that leave the rows alone *)

(* Before the node has said anything, nothing is stored. *)
LEMMA NothingUnasked ==
  ASSUME IndInv, sources = {}
  PROVE  /\ txRows = {}
         /\ \A t \in Txs : traceLog[t] = << >> /\ failedRow[t] = NoRow
         /\ reader.step # "idle" => reader.rolledBack
<1>1. \A t \in Txs : traceLog[t] = << >> /\ failedRow[t] = NoRow
  BY DEF IndInv, TraceRows, FailedRows
<1>2. txRows = {}
  BY DEF IndInv, RowsOfSources
<1>3. reader.step # "idle" => reader.rolledBack
  BY <1>1 DEF IndInv, ReaderOK
<1>4. QED
  BY <1>1, <1>2, <1>3

(* What a client has read and what the tables hold stays in order as long  *)
(* as neither changes, whatever else the node says.                        *)
LEMMA RowsKept ==
  ASSUME IndInv, sources \subseteq sources', passes' <= 1 => passes <= 1,
         UNCHANGED <<tableVars, triggers, reader>>
  PROVE  /\ RowsOfSources' /\ TraceRows' /\ FailedRows' /\ TreeBeforeRow' /\ SingleTree'
         /\ ReaderOK' /\ ReaderParts'
<1> USE DEF tableVars
<1>1. \A t : Trees(t) \subseteq Trees(t)'
  BY MoreTrees
<1>2. \A b : sources' = {b} => sources = {b} \/ sources = {}
  OBVIOUS
<1>3. RowsOfSources'
  BY DEF IndInv, RowsOfSources, StorableRow
<1>4. TraceRows'
  BY <1>1 DEF IndInv, TraceRows, StartsWith
<1>5. FailedRows'
  <2>1. ASSUME NEW t \in Txs, triggers, NEW b, sources' = {b}
        PROVE  failedRow[t] = IF t \in Failing(b) \cap txRows THEN Stub ELSE NoRow
    BY <1>2, <2>1, NothingUnasked DEF IndInv, FailedRows
  <2>2. ASSUME NEW t \in Txs, failedRow[t] # NoRow
        PROVE  /\ \E b \in sources' : t \in Failing(b)
               /\ ~triggers => \E tree \in Trees(t)' : failedRow[t] = FailedTransaction(tree)
    BY <1>1, <2>2 DEF IndInv, FailedRows
  <2>3. QED
    BY <2>1, <2>2 DEF FailedRows
<1>6. TreeBeforeRow' /\ ReaderOK'
  BY DEF IndInv, TreeBeforeRow, ReaderOK
<1>7. SingleTree'
  BY <1>1 DEF IndInv, SingleTree
<1>8. ReaderParts'
  BY <1>2, NothingUnasked DEF IndInv, ReaderParts
<1>9. QED
  BY <1>3, <1>4, <1>5, <1>6, <1>7, <1>8

(* Of a pass that is not yet, or no longer, at the tables. *)
LEMMA OutsideTables ==
  ASSUME stage' \in {"idle", "fetch", "header", "receipts", "block"},
         traced' = NoTraces
  PROVE  StageRows' /\ TracedRows' /\ MissingOnlyByFault'
<1>1. StageRows'
  BY DEF StageRows, AfterTables, AfterTable, Tables
<1>2. Traced' = {}
  BY DEF Traced, NoTraces
<1>3. TracedRows' /\ MissingOnlyByFault'
  BY <1>2 DEF TracedRows, AfterTraces, MissingOnlyByFault
<1>4. QED
  BY <1>1, <1>3

(* The chain has another block, or the clock has caught up: the tables and *)
(* the pass know nothing of it.                                            *)
LEMMA ChainStep == IndInv /\ (Reorg \/ ClockCatchesUp) => IndInv'
<1> SUFFICES ASSUME IndInv, Reorg \/ ClockCatchesUp PROVE IndInv'
  OBVIOUS
<1> USE DEF Reorg, ClockCatchesUp, fetchVars, traceVars
<1>1. TypeOK'
  <2>1. block' \in Blocks /\ future' \subseteq Blocks
    BY BlocksAssumption DEF IndInv, TypeOK
  <2>2. reorgs' \in 0 .. MaxReorgs
    BY BoundsAssumption DEF IndInv, TypeOK
  <2>3. QED
    BY <2>1, <2>2 DEF IndInv, TypeOK, tableVars
<1>2. Memory'
  BY DEF IndInv, Memory
<1>3. StageRows'
  BY SameAnswers DEF IndInv, StageRows, StorableRow, tableVars
<1>4. TracedRows' /\ MissingOnlyByFault' /\ FirstPass'
  BY DEF IndInv, TracedRows, Traced, Trees, MissingOnlyByFault, OneSource, FirstPass,
     tableVars
<1>5. QED
  BY <1>1, <1>2, <1>3, <1>4, RowsKept DEF IndInv

(* A pass begins. *)
LEMMA StartPassStep == IndInv /\ StartPass => IndInv'
<1> SUFFICES ASSUME IndInv, StartPass PROVE IndInv'
  OBVIOUS
<1> USE DEF StartPass, chainVars, fetchVars, traceVars
<1>1. TypeOK'
  BY DEF IndInv, TypeOK, Stages, tableVars
<1>2. Memory'
  BY DEF IndInv, Memory, HeaderKnown, ReceiptsKnown, Tables
<1>3. traced' = NoTraces
  BY DEF IndInv, Memory
<1>4. passes' <= 1 => passes = 0
  BY DEF IndInv, TypeOK
<1>5. FirstPass'
  BY <1>4, NothingUnasked DEF IndInv, FirstPass, AfterTraces, tableVars
<1>6. QED
  BY <1>1, <1>2, <1>3, <1>4, <1>5, OutsideTables, RowsKept DEF IndInv

(* The node has answered one of the two calls. *)
LEMMA FetchStep == IndInv /\ (FetchHeader \/ FetchReceipts) => IndInv'
<1> SUFFICES ASSUME IndInv, FetchHeader \/ FetchReceipts PROVE IndInv'
  OBVIOUS
<1> USE DEF FetchHeader, FetchReceipts, chainVars, fetchVars, traceVars
<1>1. sources \subseteq sources'
  OBVIOUS
<1>2. stage' \in {"header", "receipts", "block"}
  OBVIOUS
<1>3. TypeOK'
  BY DEF IndInv, TypeOK, Stages, HeaderKnown, tableVars
<1>4. Memory'
  <2>1. stage \in {"fetch", "header", "receipts"} /\ pending' = {} /\ traced' = NoTraces
    BY DEF IndInv, Memory
  <2>2. header' \in sources' \cup {NoTxs} /\ receipts' \in sources' \cup {NoTxs}
    BY <1>1 DEF IndInv, Memory
  <2>3. stage' \in HeaderKnown => header' \in sources'
    BY <1>1 DEF IndInv, Memory, HeaderKnown, Tables
  <2>4. stage' \notin ReceiptsKnown => receipts' = NoTxs
    BY DEF IndInv, Memory, HeaderKnown, ReceiptsKnown, Tables
  <2>5. QED
    BY <1>2, <2>1, <2>2, <2>3, <2>4 DEF Memory
<1>5. traced' = NoTraces
  BY DEF IndInv, Memory
<1>6. FirstPass'
  <2>1. stage \in {"fetch", "header", "receipts"} /\ passes # 0
    BY DEF IndInv, FirstPass
  <2>2. QED
    BY <2>1 DEF IndInv, FirstPass, AfterTraces, tableVars
<1>7. QED
  BY <1>1, <1>2, <1>3, <1>4, <1>5, <1>6, OutsideTables, RowsKept DEF IndInv

(* A statement that the database refuses, or a failure, ends the pass. *)
LEMMA PassEnds ==
  ASSUME IndInv, stage \notin {"idle", "indexed"}, faults' \in 0 .. MaxFaults, PassOver
  PROVE  IndInv'
<1> USE DEF PassOver, chainVars
<1>1. TypeOK'
  <2>1. traced' \in [Txs -> Seq(Frame)]
    BY DEF NoTraces
  <2>2. QED
    BY <2>1 DEF IndInv, TypeOK, Stages, tableVars
<1>2. Memory'
  BY DEF Memory, Failing, NoTxs, HeaderKnown, ReceiptsKnown, Tables
<1>3. FirstPass'
  BY DEF IndInv, FirstPass
<1>4. QED
  BY <1>1, <1>2, <1>3, OutsideTables, RowsKept DEF IndInv

(* One transaction is traced, or left out. *)
LEMMA TraceStep ==
  ASSUME IndInv, NEW t \in Txs, TraceTx(t) \/ TraceFails(t)
  PROVE  IndInv'
<1> USE DEF TraceTx, TraceFails, FirstPending, chainVars, fetchVars
<1>1. /\ sources \subseteq sources' /\ sources # {} /\ stage = "traces" /\ stage' = "traces"
      /\ sources' \subseteq sources \cup {block}
  BY DEF IndInv, Memory, HeaderKnown
<1>2. traced' = traced \/ traced' = [traced EXCEPT ![t] = TraceOf(t)]
  OBVIOUS
<1>3. \/ sources' = sources /\ traced' = traced
      \/ /\ sources' = sources \cup {block} /\ traced'[t] = TraceOf(t)
         /\ TraceOf(t) \in Seq(Frame)
         /\ TraceOf(t) # << >> => TraceOf(t) \in Trees(t)'
  BY TraceIsTree DEF IndInv, TypeOK
<1>4. TypeOK'
  <2>1. traced' \in [Txs -> Seq(Frame)]
    BY <1>2, <1>3 DEF IndInv, TypeOK
  <2>2. sources' \subseteq Blocks
    BY <1>1 DEF IndInv, TypeOK
  <2>3. faults' \in 0 .. MaxFaults
    BY BoundsAssumption DEF IndInv, TypeOK
  <2>4. QED
    BY <2>1, <2>2, <2>3 DEF IndInv, TypeOK, tableVars
<1>5. Memory'
  BY <1>1 DEF IndInv, Memory, HeaderKnown, ReceiptsKnown
<1>6. StageRows'
  BY <1>1, SameAnswers DEF IndInv, StageRows, StorableRow, tableVars
<1>7. TracedRows'
  <2>1. ASSUME NEW u \in Txs, traced'[u] # << >>
        PROVE  u \in Failing(receipts) /\ traced'[u] \in Trees(u)'
    <3>1. CASE u = t /\ traced' # traced
      BY <1>2, <1>3, <2>1, <3>1 DEF IndInv, Memory
    <3>2. CASE u # t \/ traced' = traced
      <4>1. traced'[u] = traced[u]
        BY <1>2, <3>2 DEF IndInv, TypeOK
      <4>2. QED
        BY <1>1, <2>1, <4>1, MoreTrees DEF IndInv, TracedRows, Traced
    <3>3. QED
      BY <3>1, <3>2
  <2>2. ASSUME faults' = 0, sources' = {receipts},
               NEW u \in Failing(receipts) \ pending', ParseTrace(receipts[u].trace) # << >>
        PROVE  u \in Txs /\ traced'[u] # << >>
    <3>1. faults = 0 /\ TraceTx(t)
      <4>1. faults \in Nat
        BY BoundsAssumption DEF IndInv, TypeOK
      <4>2. faults' # faults + 1
        BY <2>2, <4>1
      <4>3. QED
        BY <2>2, <4>2
    <3>2. sources = {receipts} /\ block = receipts
      BY <1>1, <2>2, <3>1
    <3>3. CASE u = t
      BY <1>2, <2>2, <3>1, <3>2, <3>3 DEF IndInv, TypeOK, TraceOf, Failing
    <3>4. CASE u # t
      <4>1. u \in Traced
        BY <1>1, <2>2, <3>1, <3>2, <3>4 DEF IndInv, TracedRows, AfterTraces, OneSource
      <4>2. traced'[u] = traced[u]
        BY <1>2, <3>4, <4>1 DEF IndInv, TypeOK, Traced
      <4>3. QED
        BY <4>1, <4>2 DEF Traced
    <3>5. QED
      BY <3>3, <3>4
  <2>3. QED
    BY <1>1, <2>1, <2>2 DEF TracedRows, Traced, AfterTraces, OneSource
<1>8. MissingOnlyByFault' /\ FirstPass'
  BY <1>1 DEF IndInv, MissingOnlyByFault, FirstPass, AfterTraces, tableVars
<1>9. QED
  BY <1>1, <1>4, <1>5, <1>6, <1>7, <1>8, RowsKept DEF IndInv

(* The checkpoint passes the height. *)
LEMMA SaveCheckpointStep == IndInv /\ SaveCheckpoint => IndInv'
<1> SUFFICES ASSUME IndInv, SaveCheckpoint PROVE IndInv'
  OBVIOUS
<1> USE DEF SaveCheckpoint, chainVars, fetchVars, traceVars
<1>1. TypeOK'
  BY DEF IndInv, TypeOK, Stages, HeaderKnown, tableVars
<1>2. Memory'
  BY DEF IndInv, Memory, HeaderKnown, ReceiptsKnown
<1>3. StageRows'
  BY SameAnswers DEF IndInv, StageRows, StorableRow, AfterTable, AfterTables, Tables,
     tableVars
<1>4. TracedRows'
  BY DEF IndInv, TracedRows, Traced, Trees, AfterTraces, OneSource, tableVars
<1>5. MissingOnlyByFault' /\ FirstPass'
  BY DEF IndInv, MissingOnlyByFault, OneSource, FirstPass, AfterTraces, tableVars
<1>6. QED
  BY <1>1, <1>2, <1>3, <1>4, <1>5, RowsKept DEF IndInv

-----------------------------------------------------------------------------
(* Statements that store rows *)

(* The row of the block goes in. *)
LEMMA InsertBlockStep == IndInv /\ InsertBlock => IndInv'
<1> SUFFICES ASSUME IndInv, InsertBlock PROVE IndInv'
  OBVIOUS
<1> USE DEF InsertBlock, chainVars, fetchVars, traceVars
<1>1. header \in sources
  BY DEF IndInv, Memory, HeaderKnown
<1>2. TypeOK' /\ Memory'
  BY DEF IndInv, TypeOK, Memory, Stages, HeaderKnown, ReceiptsKnown, Tables
<1>3. RowsOfSources'
  BY <1>1 DEF IndInv, RowsOfSources, StorableRow
<1>4. StageRows'
  BY DEF IndInv, StageRows, AfterTable, AfterTables, Tables
<1>5. TraceRows' /\ FailedRows' /\ TreeBeforeRow' /\ SingleTree'
  BY DEF IndInv, TraceRows, StartsWith, Trees, FailedRows, TreeBeforeRow, SingleTree
<1>6. TracedRows'
  BY DEF IndInv, TracedRows, Traced, Trees, AfterTraces
<1>7. MissingOnlyByFault' /\ FirstPass'
  BY DEF IndInv, MissingOnlyByFault, FirstPass, AfterTraces
<1>8. ReaderOK' /\ ReaderParts'
  BY DEF IndInv, ReaderOK, ReaderParts
<1>9. QED
  BY <1>2, <1>3, <1>4, <1>5, <1>6, <1>7, <1>8 DEF IndInv

(* The transactions that have a receipt go in; a trigger adds a stub for   *)
(* those that were not there and are reverted.                             *)
LEMMA InsertTransactionsStep == IndInv /\ InsertTransactions => IndInv'
<1> SUFFICES ASSUME IndInv, InsertTransactions PROVE IndInv'
  OBVIOUS
<1> USE DEF InsertTransactions, chainVars, fetchVars, traceVars
<1>1. header \in sources /\ sources # {} /\ receipts \in sources \cup {NoTxs}
  BY DEF IndInv, Memory, HeaderKnown
<1>2. ListedTxs \subseteq DOMAIN receipts /\ DOMAIN receipts \subseteq Txs
  BY <1>1, BlocksAssumption DEF IndInv, TypeOK, ListedTxs, NoTxs
<1>3. \A t \in ListedTxs : receipts \in sources
  BY <1>1, <1>2 DEF NoTxs
<1>4. \A t \in Txs : failedRow'[t] =
        IF triggers /\ t \in (ListedTxs \cap Failing(receipts)) \ txRows /\ failedRow[t] = NoRow
        THEN Stub ELSE failedRow[t]
  OBVIOUS
<1>5. TypeOK'
  <2>1. failedRow' = [t \in Txs |-> failedRow'[t]]
    OBVIOUS
  <2>2. QED
    BY <1>2, <2>1 DEF IndInv, TypeOK, Stages, HeaderKnown, Tables
<1>6. Memory'
  BY DEF IndInv, Memory, HeaderKnown, ReceiptsKnown, Tables
<1>7. RowsOfSources'
  <2>1. txRows' \subseteq UNION {DOMAIN b : b \in sources}
    BY <1>2, <1>3 DEF IndInv, RowsOfSources
  <2>2. \A t \in Txs : traceLog[t] # << >> \/ failedRow'[t] # NoRow => t \in txRows'
    BY <1>4 DEF IndInv, RowsOfSources
  <2>3. blockRow # {}
    BY DEF IndInv, StageRows
  <2>4. QED
    BY <2>1, <2>2, <2>3 DEF IndInv, RowsOfSources, StorableRow
<1>8. StageRows'
  BY DEF IndInv, StageRows, ListedTxs, AfterTables, AfterTable, Tables
<1>9. TraceRows' /\ TreeBeforeRow' /\ SingleTree'
  BY <1>4 DEF IndInv, TraceRows, StartsWith, Trees, TreeBeforeRow, SingleTree
<1>10. FailedRows'
  <2>1. ASSUME NEW t \in Txs, triggers, NEW b, sources = {b}
        PROVE  failedRow'[t] = IF t \in Failing(b) \cap txRows' THEN Stub ELSE NoRow
    <3>1. failedRow[t] = IF t \in Failing(b) \cap txRows THEN Stub ELSE NoRow
      BY <2>1 DEF IndInv, FailedRows
    <3>2. t \in ListedTxs => receipts = b
      BY <1>3, <2>1
    <3>3. QED
      BY <1>4, <2>1, <3>1, <3>2
  <2>2. ASSUME NEW t \in Txs, failedRow'[t] # NoRow
        PROVE  /\ \E b \in sources : t \in Failing(b)
               /\ ~triggers => \E tree \in Trees(t) : failedRow'[t] = FailedTransaction(tree)
    BY <1>3, <1>4, <2>2 DEF IndInv, FailedRows
  <2>3. QED
    BY <2>1, <2>2 DEF FailedRows, Trees
<1>11. TracedRows'
  BY DEF IndInv, TracedRows, Traced, Trees, AfterTraces
<1>12. MissingOnlyByFault' /\ FirstPass'
  BY DEF IndInv, MissingOnlyByFault, FirstPass, AfterTraces
<1>13. ReaderOK' /\ ReaderParts'
  BY <1>4 DEF IndInv, ReaderOK, ReaderParts
<1>14. QED
  BY <1>5, <1>6, <1>7, <1>8, <1>9, <1>10, <1>11, <1>12, <1>13 DEF IndInv

(* A row that a batch lacks is stored; for one whose key is taken there is *)
(* the row that was there.                                                 *)
LEMMA InsertRowsFacts ==
  ASSUME IndInv, NEW table \in Tables, InsertRows(table)
  PROVE  /\ events \subseteq events'
         /\ events' \subseteq UNION {BlockRows(b) : b \in sources}
         /\ \A r \in Batch(table) : StorableRow(r) /\ \E s \in events' : SameKey(r, s)
         /\ \A r \in events' : StorableRow(r)
<1>1. events \subseteq UNION {BlockRows(b) : b \in sources}
  BY DEF IndInv, RowsOfSources
<1>2. Batch(table) \subseteq UNION {BlockRows(b) : b \in sources}
  <2>1. CASE receipts \in sources
    BY <2>1 DEF Batch
  <2>2. CASE receipts = NoTxs
    BY <2>2 DEF Batch, BlockRows, NoTxs
  <2>3. QED
    BY <2>1, <2>2 DEF IndInv, Memory
<1>3. /\ events' = events \cup {r \in Batch(table) : \A s \in events : ~SameKey(r, s)}
      /\ \A r \in Batch(table) : StorableRow(r)
  BY DEF InsertRows
<1>4. \A r \in Batch(table) : SameKey(r, r)
  BY DEF SameKey
<1>5. \A r \in events : StorableRow(r)
  BY DEF IndInv, RowsOfSources
<1>6. QED
  BY <1>1, <1>2, <1>3, <1>4, <1>5

(* One of the three event tables takes its batch. *)
LEMMA InsertEventsStep ==
  ASSUME IndInv, InsertSwapEvents \/ InsertLiquidityEvents \/ InsertTokenTransfers
  PROVE  IndInv'
<1> USE DEF chainVars, fetchVars
<1>1. PICK table \in Tables :
        /\ InsertRows(table)
        /\ stage = table
        /\ stage' = IF table = "swap_event" THEN "liquidity_event"
                    ELSE IF table = "liquidity_event" THEN "token_transfer" ELSE "traces"
        /\ pending' = IF table = "token_transfer" THEN Failing(receipts) ELSE pending
  BY DEF Tables, InsertRows, InsertSwapEvents, InsertLiquidityEvents, InsertTokenTransfers
<1>2. UNCHANGED <<blockRow, txRows, traceLog, failedRow, chainVars, fetchVars, traced,
                  passes, reader, faults>>
  BY <1>1 DEF InsertRows
<1>3. /\ events \subseteq events'
      /\ events' \subseteq UNION {BlockRows(b) : b \in sources}
      /\ \A r \in Batch(table) : StorableRow(r) /\ \E s \in events' : SameKey(r, s)
      /\ \A r \in events' : StorableRow(r)
  BY <1>1, InsertRowsFacts
<1>4. TypeOK'
  BY <1>1, <1>2 DEF IndInv, TypeOK, Stages, HeaderKnown, Tables
<1>5. traced = NoTraces /\ Traced = {}
  BY <1>1 DEF IndInv, Memory, Tables, Traced, NoTraces
<1>6. Memory'
  BY <1>1, <1>2, <1>5 DEF IndInv, Memory, HeaderKnown, ReceiptsKnown, Tables
<1>7. RowsOfSources'
  BY <1>2, <1>3 DEF IndInv, RowsOfSources, StorableRow
<1>8. StageRows'
  <2>1. blockRow # {} /\ ListedTxs \subseteq txRows
    BY <1>1 DEF IndInv, StageRows, AfterTables, AfterTable, Tables
  <2>2. ASSUME NEW other \in Tables, stage' \in AfterTable(other), NEW r \in Batch(other)
        PROVE  StorableRow(r) /\ \E s \in events' : SameKey(r, s)
    <3>1. CASE other = table
      BY <1>3, <2>2, <3>1
    <3>2. CASE other # table
      <4>1. stage \in AfterTable(other)
        BY <1>1, <2>2, <3>2 DEF AfterTables, AfterTable, Tables
      <4>2. QED
        BY <1>3, <2>2, <4>1 DEF IndInv, StageRows
    <3>3. QED
      BY <3>1, <3>2
  <2>3. QED
    BY <1>2, <2>1, <2>2, SameAnswers DEF StageRows, StorableRow
<1>9. TraceRows' /\ FailedRows' /\ TreeBeforeRow' /\ SingleTree' /\ ReaderOK' /\ ReaderParts'
  <2>1. TraceRows' /\ SingleTree'
    BY <1>2 DEF IndInv, TraceRows, StartsWith, SingleTree, Trees
  <2>2. FailedRows'
    BY <1>2 DEF IndInv, FailedRows, Trees
  <2>3. TreeBeforeRow' /\ ReaderOK' /\ ReaderParts'
    BY <1>2 DEF IndInv, TreeBeforeRow, ReaderOK, ReaderParts
  <2>4. QED
    BY <2>1, <2>2, <2>3
<1>10. TracedRows'
  BY <1>1, <1>2, <1>5 DEF TracedRows, Traced, AfterTraces, Tables
<1>11. MissingOnlyByFault' /\ FirstPass'
  BY <1>1, <1>2 DEF IndInv, MissingOnlyByFault, FirstPass, AfterTraces, Tables
<1>12. QED
  BY <1>4, <1>6, <1>7, <1>8, <1>9, <1>10, <1>11 DEF IndInv

(* The call trees of the traced transactions go in, behind those of an     *)
(* earlier pass if there was one.                                          *)
LEMMA InsertTraceLogsStep == IndInv /\ InsertTraceLogs => IndInv'
<1> SUFFICES ASSUME IndInv, InsertTraceLogs PROVE IndInv'
  OBVIOUS
<1> USE DEF InsertTraceLogs, TracesDone, chainVars, fetchVars, traceVars
<1>1. \A t \in Txs : traced[t] \in Seq(Frame) /\ traceLog[t] \in Seq(Frame)
  BY DEF IndInv, TypeOK
<1>2. \A t \in Txs : traced[t] # << >> => /\ t \in Failing(receipts)
                                          /\ traced[t] \in Trees(t)
                                          /\ StorableTrace(traced[t])
                                          /\ t \in txRows
  BY DEF IndInv, TracedRows, Traced, StorableTraces
<1>3. \A t \in Txs : /\ traceLog'[t] = Appended(traceLog[t], traced[t])
                     /\ traceLog'[t] \in Seq(Frame)
                     /\ traceLog[t] = << >> => traceLog'[t] = traced[t]
                     /\ traced[t] = << >> => traceLog'[t] = traceLog[t]
                     /\ traceLog'[t] = << >> => traceLog[t] = << >> /\ traced[t] = << >>
  BY <1>1, AppendedIsSeq
<1>4. TypeOK'
  <2>1. traceLog' \in [Txs -> Seq(Frame)]
    BY <1>3
  <2>2. QED
    BY <2>1 DEF IndInv, TypeOK, Stages, HeaderKnown
<1>5. Memory'
  BY DEF IndInv, Memory, HeaderKnown, ReceiptsKnown
<1>6. RowsOfSources'
  BY <1>2, <1>3 DEF IndInv, RowsOfSources, StorableRow
<1>7. StageRows'
  BY SameAnswers DEF IndInv, StageRows, StorableRow, AfterTables, AfterTable, Tables
<1>8. TraceRows'
  <2> SUFFICES ASSUME NEW t \in Txs, traceLog'[t] # << >>
               PROVE  /\ \E b \in sources : t \in Failing(b)
                      /\ \E tree \in Trees(t) : StartsWith(traceLog'[t], tree)
    BY DEF TraceRows, StartsWith, Trees
  <2>1. CASE traceLog[t] = << >>
    <3>1. traceLog'[t] = traced[t] /\ traced[t] \in Trees(t) /\ t \in Failing(receipts)
      BY <1>2, <1>3, <2>1
    <3>2. receipts \in sources
      BY <3>1 DEF IndInv, Memory, Failing, NoTxs
    <3>3. StartsWith(traceLog'[t], traced[t])
      BY <1>1, <3>1 DEF StartsWith
    <3>4. QED
      BY <3>1, <3>2, <3>3
  <2>2. CASE traceLog[t] # << >>
    <3>1. PICK tree \in Trees(t) : StartsWith(traceLog[t], tree)
      BY <2>2 DEF IndInv, TraceRows
    <3>2. tree \in Seq(Frame)
      BY TreesAreSeqs DEF IndInv, TypeOK
    <3>3. StartsWith(traceLog'[t], tree)
      BY <1>1, <1>3, <3>1, <3>2, AppendKeepsStart
    <3>4. QED
      BY <2>2, <3>3 DEF IndInv, TraceRows
  <2>3. QED
    BY <2>1, <2>2
<1>9. FailedRows' /\ TreeBeforeRow'
  BY <1>3 DEF IndInv, FailedRows, Trees, TreeBeforeRow
<1>10. TracedRows'
  BY <1>2, <1>3 DEF IndInv, TracedRows, Traced, Trees, AfterTraces, OneSource
<1>11. MissingOnlyByFault' /\ FirstPass'
  BY DEF IndInv, MissingOnlyByFault, FirstPass, AfterTraces
<1>12. SingleTree'
  <2> SUFFICES ASSUME passes <= 1, NEW t \in Txs
               PROVE  traceLog'[t] \in {<< >>} \cup Trees(t)
    BY DEF SingleTree, Trees
  <2>1. traceLog[t] = << >>
    BY DEF IndInv, FirstPass, AfterTraces
  <2>2. QED
    BY <1>2, <1>3, <2>1
<1>13. ReaderOK' /\ ReaderParts'
  BY DEF IndInv, ReaderOK, ReaderParts
<1>14. QED
  BY <1>4, <1>5, <1>6, <1>7, <1>8, <1>9, <1>10, <1>11, <1>12, <1>13 DEF IndInv

(* The rows of the traced transactions go in where there is none yet: the  *)
(* stubs of the triggers stay.                                             *)
LEMMA InsertFailedTransactionsStep == IndInv /\ InsertFailedTransactions => IndInv'
<1> SUFFICES ASSUME IndInv, InsertFailedTransactions PROVE IndInv'
  OBVIOUS
<1> USE DEF InsertFailedTransactions, FailedRowsAdded, chainVars, fetchVars, traceVars
<1>1. \A t \in Traced : /\ t \in Failing(receipts)
                        /\ traced[t] \in Trees(t)
                        /\ traceLog[t] # << >>
                        /\ StorableReason(traced[t])
                        /\ t \in txRows
  BY DEF IndInv, TracedRows, AfterTraces
<1>2. \A t \in Txs : failedRow'[t] = IF t \in Traced /\ failedRow[t] = NoRow
                                     THEN FailedTransaction(traced[t]) ELSE failedRow[t]
  OBVIOUS
<1>3. \A t \in Traced : receipts \in sources
  BY <1>1 DEF IndInv, Memory, Failing, NoTxs
<1>4. TypeOK'
  <2>1. failedRow' = [t \in Txs |-> failedRow'[t]]
    OBVIOUS
  <2>2. QED
    BY <2>1 DEF IndInv, TypeOK, Stages, HeaderKnown
<1>5. Memory'
  BY DEF IndInv, Memory, HeaderKnown, ReceiptsKnown
<1>6. RowsOfSources'
  BY <1>1, <1>2 DEF IndInv, RowsOfSources, StorableRow
<1>7. StageRows'
  BY SameAnswers DEF IndInv, StageRows, StorableRow, AfterTables, AfterTable, Tables
<1>8. TraceRows' /\ SingleTree'
  BY DEF IndInv, TraceRows, StartsWith, Trees, SingleTree
<1>9. FailedRows'
  <2>1. ASSUME NEW t \in Txs, triggers, NEW b, sources = {b}
        PROVE  failedRow'[t] = IF t \in Failing(b) \cap txRows THEN Stub ELSE NoRow
    <3>1. failedRow[t] = IF t \in Failing(b) \cap txRows THEN Stub ELSE NoRow
      BY <2>1 DEF IndInv, FailedRows
    <3>2. t \in Traced => failedRow[t] # NoRow
      BY <1>1, <1>3, <2>1, <3>1, RowsDiffer
    <3>3. QED
      BY <1>2, <3>1, <3>2
  <2>2. ASSUME NEW t \in Txs, failedRow'[t] # NoRow
        PROVE  /\ \E b \in sources : t \in Failing(b)
               /\ ~triggers => \E tree \in Trees(t) : failedRow'[t] = FailedTransaction(tree)
    BY <1>1, <1>2, <1>3, <2>2 DEF IndInv, FailedRows
  <2>3. QED
    BY <2>1, <2>2 DEF FailedRows, Trees
<1>10. TreeBeforeRow'
  BY <1>1, <1>2 DEF IndInv, TreeBeforeRow
<1>11. TracedRows'
  BY <1>1 DEF IndInv, TracedRows, Traced, Trees, AfterTraces, OneSource
<1>12. MissingOnlyByFault'
  <2> SUFFICES ASSUME faults = 0, OneSource, NEW t \in Failing(receipts),
                      ParseTrace(receipts[t].trace) # << >>
               PROVE  failedRow'[t] # NoRow
    BY DEF MissingOnlyByFault, OneSource
  <2>1. pending = {}
    BY DEF IndInv, Memory
  <2>2. t \in Traced
    BY <2>1 DEF IndInv, TracedRows, AfterTraces
  <2>3. QED
    BY <1>2, <2>2, RowsDiffer DEF Traced
<1>13. FirstPass'
  BY DEF IndInv, FirstPass, AfterTraces
<1>14. ReaderOK' /\ ReaderParts'
  BY <1>2 DEF IndInv, ReaderOK, ReaderParts
<1>15. QED
  BY <1>4, <1>5, <1>6, <1>7, <1>8, <1>9, <1>10, <1>11, <1>12, <1>13, <1>14 DEF IndInv

(* A rollback empties the height in all tables at once. *)
LEMMA RollbackStep == IndInv /\ Rollback => IndInv'
<1> SUFFICES ASSUME IndInv, Rollback PROVE IndInv'
  OBVIOUS
<1> USE DEF Rollback, chainVars
<1>1. \A t \in Txs : traceLog'[t] = << >> /\ failedRow'[t] = NoRow
  OBVIOUS
<1>2. TypeOK'
  <2>1. /\ failedRow' = [t \in Txs |-> failedRow'[t]] /\ traceLog' \in [Txs -> Seq(Frame)]
        /\ traced' \in [Txs -> Seq(Frame)]
    BY DEF NoTraces
  <2>2. QED
    BY <2>1 DEF IndInv, TypeOK, Stages
<1>3. Memory'
  BY DEF Memory, Failing, NoTxs, HeaderKnown, ReceiptsKnown, Tables
<1>4. RowsOfSources'
  BY <1>1 DEF RowsOfSources
<1>5. TraceRows' /\ FailedRows' /\ TreeBeforeRow' /\ SingleTree' /\ FirstPass'
  BY <1>1 DEF TraceRows, FailedRows, TreeBeforeRow, SingleTree, FirstPass
<1>6. ReaderOK' /\ ReaderParts'
  <2>1. /\ reader'.step = reader.step
        /\ reader'.tx = reader.tx
        /\ reader'.truncated = reader.truncated
        /\ reader'.rolledBack = (reader.step # "idle")
        /\ DOMAIN reader' = DOMAIN reader
    BY DEF IndInv, ReaderOK, NoRequest
  <2>2. QED
    BY <2>1 DEF IndInv, ReaderOK, ReaderParts
<1>7. QED
  BY <1>2, <1>3, <1>4, <1>5, <1>6, OutsideTables DEF IndInv

-----------------------------------------------------------------------------
(* The requests of a client *)

(* A request leaves the rows alone; what is left to show is what it reads. *)
LEMMA RequestKeepsRows ==
  ASSUME IndInv, Undisturbed, ReaderOK', ReaderParts'
  PROVE  IndInv'
<1> USE DEF Undisturbed, tableVars, chainVars, fetchVars, traceVars
<1>1. TypeOK' /\ Memory' /\ RowsOfSources'
  BY DEF IndInv, TypeOK, Memory, RowsOfSources, StorableRow
<1>2. StageRows'
  BY SameAnswers DEF IndInv, StageRows, StorableRow
<1>3. TraceRows' /\ FailedRows' /\ TreeBeforeRow' /\ SingleTree'
  BY DEF IndInv, TraceRows, StartsWith, FailedRows, TreeBeforeRow, SingleTree, Trees
<1>4. TracedRows' /\ MissingOnlyByFault' /\ FirstPass'
  BY DEF IndInv, TracedRows, Traced, Trees, MissingOnlyByFault, OneSource, FirstPass
<1>5. QED
  BY <1>1, <1>2, <1>3, <1>4 DEF IndInv

(* The row of a failed transaction is read. *)
LEMMA GetFailedTransactionStep ==
  ASSUME IndInv, NEW t \in Txs, GetFailedTransaction(t)
  PROVE  IndInv'
<1> USE DEF GetFailedTransaction
<1>1. /\ reader' = [NoRequest EXCEPT !.step = "tree", !.tx = t, !.row = failedRow[t]]
      /\ failedRow[t] # NoRow
      /\ failedRow' = failedRow
  BY DEF Undisturbed, tableVars
<1>2. ReaderOK'
  BY <1>1 DEF ReaderOK, NoRequest
<1>3. ReaderParts'
  BY <1>1 DEF ReaderParts, NoRequest
<1>4. QED
  BY <1>2, <1>3, RequestKeepsRows

(* A request that was not rolled back finds the call tree of its row; if   *)
(* the node has answered from one block, it is that block's.               *)
LEMMA TreeOfRequest ==
  ASSUME IndInv, reader.step # "idle", ~reader.rolledBack, ~triggers,
         NEW b, sources = {b}
  PROVE  LET frames == ParseTrace(b[reader.tx].trace) IN
         /\ reader.tx \in Txs
         /\ traceLog[reader.tx] # << >>
         /\ traceLog[reader.tx] \in Seq(Frame)
         /\ frames \in Seq(Frame)
         /\ StartsWith(traceLog[reader.tx], frames)
         /\ FirstErrorFrame(traceLog[reader.tx]) = FirstErrorFrame(frames)
<1>1. reader.tx \in Txs /\ failedRow[reader.tx] # NoRow
  BY DEF IndInv, ReaderOK
<1>2. traceLog[reader.tx] # << >>
  BY <1>1 DEF IndInv, TreeBeforeRow
<1>3. QED
  BY <1>1, <1>2, CauseOfTrace DEF IndInv, TypeOK

(* The call tree is read, up to one row more than the cap. *)
LEMMA ListTraceLogsStep == IndInv /\ ListTraceLogs => IndInv'
<1> SUFFICES ASSUME IndInv, ListTraceLogs PROVE IndInv'
  OBVIOUS
<1> DEFINE rows == FirstRows(traceLog[reader.tx], MaxCallTreeFrames + 1)
<1>1. /\ reader' = [reader EXCEPT !.step = "cause",
                                  !.tree = FirstRows(rows, MaxCallTreeFrames),
                                  !.truncated = (Len(rows) > MaxCallTreeFrames)]
      /\ reader.step = "tree"
      /\ Undisturbed
  BY DEF ListTraceLogs
<1>2. /\ reader'.step = "cause"
      /\ reader'.tx = reader.tx
      /\ reader'.row = reader.row
      /\ reader'.rolledBack = reader.rolledBack
      /\ reader'.tree = FirstRows(rows, MaxCallTreeFrames)
      /\ reader'.truncated = (Len(rows) > MaxCallTreeFrames)
      /\ DOMAIN reader' = DOMAIN reader
  <2>1. DOMAIN reader = DOMAIN NoRequest
    BY DEF IndInv, ReaderOK
  <2> HIDE DEF rows
  <2>2. QED
    BY <1>1, <2>1 DEF NoRequest
<1>3. ReaderOK'
  <2>1. reader'.truncated \in BOOLEAN
    BY <1>2
  <2> HIDE DEF rows
  <2>2. reader'.rolledBack \in BOOLEAN
    BY <1>2 DEF IndInv, ReaderOK
  <2>3. QED
    BY <1>1, <1>2, <2>1, <2>2 DEF IndInv, ReaderOK, Undisturbed, tableVars
<1>4. ReaderParts'
  <2> SUFFICES ASSUME ~reader.rolledBack, ~triggers, NEW b, sources = {b}
               PROVE  LET frames == ParseTrace(b[reader.tx].trace) IN
                      /\ reader'.tree \in Seq(Frame)
                      /\ \A i \in 1 .. Len(reader'.tree) :
                           i <= Len(frames) => reader'.tree[i] = frames[i]
                      /\ IF reader'.truncated THEN Len(reader'.tree) = MaxCallTreeFrames
                                              ELSE Len(reader'.tree) >= Len(frames)
    BY <1>1, <1>2 DEF ReaderParts, Undisturbed, chainVars, fetchVars
  <2> DEFINE frames == ParseTrace(b[reader.tx].trace)
  <2>1. /\ traceLog[reader.tx] \in Seq(Frame)
        /\ frames \in Seq(Frame)
        /\ StartsWith(traceLog[reader.tx], frames)
    BY <1>1, TreeOfRequest
  <2>2. /\ rows \in Seq(Frame)
        /\ Len(rows) = IF Len(traceLog[reader.tx]) < MaxCallTreeFrames + 1
                       THEN Len(traceLog[reader.tx]) ELSE MaxCallTreeFrames + 1
        /\ \A i \in 1 .. Len(rows) : rows[i] = traceLog[reader.tx][i]
    BY <2>1, FirstRowsFacts, BoundsAssumption
  <2> HIDE DEF rows, frames
  <2>3. /\ reader'.tree \in Seq(Frame)
        /\ Len(reader'.tree) = IF Len(rows) < MaxCallTreeFrames
                               THEN Len(rows) ELSE MaxCallTreeFrames
        /\ \A i \in 1 .. Len(reader'.tree) : reader'.tree[i] = rows[i]
    BY <1>2, <2>2, FirstRowsFacts, BoundsAssumption
  <2>4. \A i \in 1 .. Len(reader'.tree) : i <= Len(frames) => reader'.tree[i] = frames[i]
    BY <2>1, <2>2, <2>3, BoundsAssumption DEF StartsWith
  <2>5. IF reader'.truncated THEN Len(reader'.tree) = MaxCallTreeFrames
                             ELSE Len(reader'.tree) >= Len(frames)
    <3>1. reader'.truncated <=> Len(rows) > MaxCallTreeFrames
      BY <1>2
    <3>2. Len(frames) <= Len(traceLog[reader.tx])
      BY <2>1 DEF StartsWith
    <3>3. QED
      BY <2>1, <2>2, <2>3, <3>1, <3>2, BoundsAssumption
  <2>6. QED
    BY <2>3, <2>4, <2>5 DEF frames
<1>5. QED
  BY <1>1, <1>3, <1>4, RequestKeepsRows

(* The first frame in error is read. *)
LEMMA GetFirstErrorFrameStep == IndInv /\ GetFirstErrorFrame => IndInv'
<1> SUFFICES ASSUME IndInv, GetFirstErrorFrame PROVE IndInv'
  OBVIOUS
<1>1. /\ reader.step = "cause"
      /\ reader' = [reader EXCEPT !.step = "answered",
                                  !.cause = FirstErrorFrame(traceLog[reader.tx])]
      /\ Undisturbed
  BY DEF GetFirstErrorFrame
<1>2. /\ reader'.step = "answered"
      /\ reader'.tx = reader.tx
      /\ reader'.row = reader.row
      /\ reader'.rolledBack = reader.rolledBack
      /\ reader'.tree = reader.tree
      /\ reader'.truncated = reader.truncated
      /\ reader'.cause = FirstErrorFrame(traceLog[reader.tx])
      /\ DOMAIN reader' = DOMAIN reader
  <2>1. DOMAIN reader = DOMAIN NoRequest
    BY DEF IndInv, ReaderOK
  <2>2. QED
    BY <1>1, <2>1 DEF NoRequest
<1>3. ReaderOK'
  BY <1>1, <1>2 DEF IndInv, ReaderOK, Undisturbed, tableVars
<1>4. ReaderParts'
  <2>1. ASSUME ~reader.rolledBack, ~triggers, NEW b, sources = {b}
        PROVE  reader'.cause = FirstErrorFrame(ParseTrace(b[reader.tx].trace))
    BY <1>1, <1>2, <2>1, TreeOfRequest
  <2>2. QED
    BY <1>1, <1>2, <2>1 DEF IndInv, ReaderParts, Undisturbed, chainVars, fetchVars
<1>5. QED
  BY <1>1, <1>3, <1>4, RequestKeepsRows

(* The answer is sent. *)
LEMMA ReplyStep == IndInv /\ Reply => IndInv'
<1> SUFFICES ASSUME IndInv, Reply PROVE IndInv'
  OBVIOUS
<1>1. ReaderOK' /\ ReaderParts'
  BY DEF Reply, ReaderOK, ReaderParts, NoRequest
<1>2. QED
  BY <1>1, RequestKeepsRows DEF Reply

-----------------------------------------------------------------------------
(* The invariant *)

(* A statement that is refused ends the pass. *)
LEMMA RejectStep ==
  ASSUME IndInv,
         \/ RejectBlock \/ RejectTraceLogs \/ RejectFailedTransactions
         \/ \E table \in Tables : RejectEvents(table)
  PROVE  IndInv'
<1>1. stage \notin {"idle", "indexed"} /\ PassOver /\ faults' = faults
  BY DEF RejectBlock, RejectTraceLogs, TracesDone, RejectFailedTransactions, RejectEvents,
     Tables
<1>2. faults' \in 0 .. MaxFaults
  BY <1>1 DEF IndInv, TypeOK
<1>3. QED
  BY <1>1, <1>2, PassEnds

(* Every step of the pass, of the faults, of the chain and of the requests *)
(* keeps it.                                                               *)
LEMMA NextIndInv == IndInv /\ [Next]_vars => IndInv'
<1> SUFFICES ASSUME IndInv, [Next]_vars PROVE IndInv'
  OBVIOUS
<1>1. CASE Pass
  <2>1. CASE StartPass \/ FetchHeader \/ FetchReceipts
    BY <2>1, StartPassStep, FetchStep
  <2>2. CASE \/ RejectBlock \/ RejectTraceLogs \/ RejectFailedTransactions
             \/ \E table \in Tables : RejectEvents(table)
    BY <2>2, RejectStep
  <2>3. CASE InsertBlock \/ InsertTransactions
    BY <2>3, InsertBlockStep, InsertTransactionsStep
  <2>4. CASE InsertSwapEvents \/ InsertLiquidityEvents \/ InsertTokenTransfers
    BY <2>4, InsertEventsStep
  <2>5. CASE \E t \in Txs : TraceTx(t)
    BY <2>5, TraceStep
  <2>6. CASE InsertTraceLogs \/ InsertFailedTransactions
    BY <2>6, InsertTraceLogsStep, InsertFailedTransactionsStep
  <2>7. CASE SaveCheckpoint
    BY <2>7, SaveCheckpointStep
  <2>8. QED
    BY <1>1, <2>1, <2>2, <2>3, <2>4, <2>5, <2>6, <2>7 DEF Pass, Tables
<1>2. CASE Faults
  <2>1. CASE Fail
    <3>1. faults' \in 0 .. MaxFaults
      BY <2>1, BoundsAssumption DEF Fail, IndInv, TypeOK
    <3>2. QED
      BY <2>1, <3>1, PassEnds DEF Fail
  <2>2. CASE \E t \in Txs : TraceFails(t)
    BY <2>2, TraceStep
  <2>3. QED
    BY <1>2, <2>1, <2>2 DEF Faults
<1>3. CASE Rollback \/ Reorg \/ ClockCatchesUp
  BY <1>3, RollbackStep, ChainStep
<1>4. CASE Request
  BY <1>4, GetFailedTransactionStep, ListTraceLogsStep, GetFirstErrorFrameStep, ReplyStep
     DEF Request
<1>5. CASE UNCHANGED vars
  <2>1. ReaderOK' /\ ReaderParts'
    BY <1>5 DEF vars, tableVars, chainVars, fetchVars, IndInv, ReaderOK, ReaderParts
  <2>2. QED
    BY <1>5, <2>1, RequestKeepsRows DEF vars, Undisturbed
<1>6. QED
  BY <1>1, <1>2, <1>3, <1>4, <1>5 DEF Next

(* The inductive invariant holds in every behaviour. *)
THEOREM Invariance == Spec => []IndInv
<1>1. Init => IndInv
  BY InitIndInv
<1>2. IndInv /\ [Next]_vars => IndInv'
  BY NextIndInv
<1>3. QED
  BY <1>1, <1>2, PTL DEF Spec

-----------------------------------------------------------------------------
(* What a height holds *)

(* A log that decodes to an event gives a row of one of the three tables. *)
LEMMA EventTables ==
  ASSUME NEW log, DecodeLog(log) # NoEvent
  PROVE  DecodeLog(log).table \in Tables
BY DEF DecodeLog, DecodeSwap, DecodeLiquidity, DecodeTransfer, Tables, NoEvent

(* The row of a log of a block is of one of the three batches.             *)
LEMMA RowOfLog ==
  ASSUME NEW b, NEW r \in BlockRows(b)
  PROVE  /\ r.tx \in DOMAIN b
         /\ \E i \in DOMAIN b[r.tx].logs :
              /\ r.log_index = b[r.tx].logs[i].log_index
              /\ r.event = DecodeLog(b[r.tx].logs[i])
         /\ r.event # NoEvent
         /\ r.event.table \in Tables
<1>1. PICK t \in DOMAIN b : r \in LogRows(b, t)
  BY DEF BlockRows
<1>2. PICK i \in DOMAIN b[t].logs :
        /\ DecodeLog(b[t].logs[i]) # NoEvent
        /\ r = [tx |-> t, log_index |-> b[t].logs[i].log_index,
                event |-> DecodeLog(b[t].logs[i])]
  BY <1>1 DEF LogRows
<1>3. r.tx = t /\ r.log_index = b[t].logs[i].log_index /\ r.event = DecodeLog(b[t].logs[i])
  BY <1>2
<1>4. QED
  BY <1>2, <1>3, EventTables

(* When the event statements are behind, every row that the receipts call  *)
(* for fits, and its key is in the tables.                                 *)
LEMMA BatchesAreAll ==
  ASSUME IndInv, stage \in AfterTables, NEW r \in BlockRows(receipts)
  PROVE  StorableRow(r) /\ \E s \in events : SameKey(r, s)
<1>1. r.event.table \in Tables /\ r \in Batch(r.event.table)
  BY RowOfLog DEF Batch
<1>2. stage \in AfterTable(r.event.table)
  BY DEF AfterTable
<1>3. QED
  BY <1>1, <1>2 DEF IndInv, StageRows

(* Every log of the receipts has its row when the height counts as         *)
(* processed, and the row says what the log says if there was one block.   *)
THEOREM EventsCompleteAlways == Spec => []EventsComplete
<1>1. IndInv => EventsComplete
  <2> SUFFICES ASSUME IndInv PROVE EventsComplete
    OBVIOUS
  <2>1. ASSUME NEW r \in events
        PROVE  \E b \in sources :
                 /\ r.tx \in DOMAIN b
                 /\ \E i \in DOMAIN b[r.tx].logs :
                      /\ r.log_index = b[r.tx].logs[i].log_index
                      /\ r.event = DecodeLog(b[r.tx].logs[i])
    <3>1. PICK b \in sources : r \in BlockRows(b)
      BY DEF IndInv, RowsOfSources
    <3>2. QED
      BY <3>1, RowOfLog
  <2> SUFFICES ASSUME stage \in {"stored", "indexed"},
                      NEW t \in DOMAIN receipts, NEW i \in DOMAIN receipts[t].logs
               PROVE  LET log == receipts[t].logs[i]
                          found == {s \in events : s.tx = t /\ s.log_index = log.log_index}
                          expected == {DecodeLog(log)} \ {NoEvent}
                      IN  /\ \A e \in expected : \E s \in found : s.event.table = e.table
                          /\ OneSource => {s.event : s \in found} = expected
    BY <2>1 DEF EventsComplete
  <2> DEFINE log == receipts[t].logs[i]
             found == {s \in events : s.tx = t /\ s.log_index = log.log_index}
             expected == {DecodeLog(log)} \ {NoEvent}
  <2>2. ASSUME DecodeLog(log) # NoEvent
        PROVE  \E s \in found : s.event.table = DecodeLog(log).table
    <3> DEFINE row == [tx |-> t, log_index |-> log.log_index, event |-> DecodeLog(log)]
    <3>1. row \in BlockRows(receipts)
      BY <2>2 DEF BlockRows, LogRows
    <3>2. PICK s \in events : SameKey(row, s)
      BY <3>1, BatchesAreAll DEF AfterTables
    <3>3. s \in found /\ s.event.table = DecodeLog(log).table
      BY <3>2 DEF SameKey
    <3>4. QED
      BY <3>3
  <2>3. ASSUME OneSource, NEW s \in found
        PROVE  s.event = DecodeLog(log) /\ s.event # NoEvent
    <3>1. s \in BlockRows(receipts) /\ receipts \in Blocks
      BY <2>3 DEF IndInv, TypeOK, RowsOfSources, OneSource
    <3>2. PICK j \in DOMAIN receipts[t].logs :
            /\ s.log_index = receipts[t].logs[j].log_index
            /\ s.event = DecodeLog(receipts[t].logs[j])
      BY <3>1, RowOfLog
    <3>3. j = i
      BY <3>1, <3>2, BlocksAssumption
    <3>4. QED
      BY <3>1, <3>2, <3>3, RowOfLog
  <2>4. ASSUME OneSource
        PROVE  {s.event : s \in found} = expected
    <3>1. \A s \in found : s.event = DecodeLog(log) /\ s.event # NoEvent
      BY <2>3, <2>4
    <3>2. DecodeLog(log) # NoEvent => found # {}
      BY <2>2
    <3> HIDE DEF found, log
    <3>3. QED
      BY <3>1, <3>2
  <2>5. \A e \in expected : \E s \in found : s.event.table = e.table
    BY <2>2
  <2>6. QED
    BY <2>4, <2>5
<1>2. QED
  BY <1>1, Invariance, PTL

(* A row that a trace has given never stands without its call tree. *)
THEOREM TreeBeforeRowAlways == Spec => []TreeBeforeRow
<1>1. IndInv => TreeBeforeRow
  BY DEF IndInv
<1>2. QED
  BY <1>1, Invariance, PTL

(* Short of a second pass, trace_log holds a call tree once. *)
THEOREM SingleTreeAlways == Spec => []SingleTree
<1>1. IndInv => SingleTree
  BY DEF IndInv
<1>2. QED
  BY <1>1, Invariance, PTL

(* With one block and no failure, every reverted transaction that has a    *)
(* trace has a row.                                                        *)
THEOREM MissingOnlyByFaultAlways == Spec => []MissingOnlyByFault
<1>1. IndInv => MissingOnlyByFault
  BY DEF IndInv
<1>2. QED
  BY <1>1, Invariance, PTL

(* The parts of an answer that no rollback has overtaken are those of one  *)
(* trace, however the indexer wrote between its statements.                *)
THEOREM DetailConsistentAlways == Spec => []DetailConsistent
<1>1. IndInv => DetailConsistent
  <2> SUFFICES ASSUME IndInv, reader.step = "answered", ~reader.rolledBack, ~triggers,
                      NEW b, sources = {b}
               PROVE  LET frames == ParseTrace(b[reader.tx].trace) IN
                      /\ reader.row = FailedTransaction(frames)
                      /\ reader.cause = FirstErrorFrame(frames)
                      /\ \A i \in DOMAIN reader.tree \cap DOMAIN frames :
                           reader.tree[i] = frames[i]
                      /\ IF reader.truncated THEN Len(reader.tree) = MaxCallTreeFrames
                                             ELSE Len(reader.tree) >= Len(frames)
    BY DEF DetailConsistent
  <2> DEFINE frames == ParseTrace(b[reader.tx].trace)
  <2>1. reader.tx \in Txs /\ reader.row = failedRow[reader.tx] /\ reader.row # NoRow
    BY DEF IndInv, ReaderOK
  <2>2. reader.row = FailedTransaction(frames)
    <3>1. PICK tree \in Trees(reader.tx) : reader.row = FailedTransaction(tree)
      BY <2>1 DEF IndInv, FailedRows
    <3>2. tree = frames
      BY <3>1 DEF Trees
    <3>3. QED
      BY <3>1, <3>2
  <2>3. frames \in Seq(Frame)
    BY TreeOfRequest
  <2>4. QED
    BY <2>1, <2>2, <2>3 DEF IndInv, ReaderParts
<1>2. QED
  BY <1>1, Invariance, PTL

(* Of the two amounts of a swap the larger one is stored as what came in.  *)
LEMMA SwapAmounts ==
  ASSUME NEW log, log.a0 \in Int, log.a1 \in Int,
         DecodeLog(log) # NoEvent, DecodeLog(log).table = "swap_event",
         \/ log.a0 < 0 /\ log.a1 >= 0
         \/ log.a0 >= 0 /\ log.a1 <= 0
  PROVE  LET e == DecodeLog(log) IN
         /\ e.amount_in >= 0
         /\ e.amount_out >= 0
         /\ e.amount_in - e.amount_out = e.amount0 + e.amount1
         /\ e.amount0 = log.a0 /\ e.amount1 = log.a1
<1>1. DecodeLog(log) = DecodeSwap(log)
  BY DEF DecodeLog, DecodeLiquidity, DecodeTransfer, NoEvent
<1>2. QED
  BY <1>1 DEF DecodeSwap, Magnitude

(* Whichever token came in, amount_in is what the trader paid.             *)
THEOREM SwapSidesAlways == Spec => []SwapSides
<1>1. IndInv => SwapSides
  <2> SUFFICES ASSUME IndInv, NEW r \in events, r.event.table = "swap_event",
                      \/ r.event.amount0 < 0 /\ r.event.amount1 >= 0
                      \/ r.event.amount0 >= 0 /\ r.event.amount1 <= 0
               PROVE  /\ r.event.amount_in >= 0
                      /\ r.event.amount_out >= 0
                      /\ r.event.amount_in - r.event.amount_out
                           = r.event.amount0 + r.event.amount1
    BY DEF SwapSides
  <2> PICK b \in sources : r \in BlockRows(b)
    BY DEF IndInv, RowsOfSources
  <2>1. r.event # NoEvent /\ r.tx \in DOMAIN b
    BY RowOfLog
  <2>2. PICK i \in DOMAIN b[r.tx].logs : r.event = DecodeLog(b[r.tx].logs[i])
    BY RowOfLog
  <2> DEFINE log == b[r.tx].logs[i]
  <2>3. log.a0 \in Int /\ log.a1 \in Int
    BY <2>1, BlocksAssumption DEF IndInv, TypeOK
  <2>4. DecodeLog(log) = DecodeSwap(log)
    BY <2>1, <2>2 DEF DecodeLog, DecodeLiquidity, DecodeTransfer, NoEvent
  <2>5. r.event.amount0 = log.a0 /\ r.event.amount1 = log.a1
    BY <2>2, <2>4 DEF DecodeSwap
  <2>6. QED
    BY <2>1, <2>2, <2>3, <2>5, SwapAmounts
<1>2. QED
  BY <1>1, Invariance, PTL

-----------------------------------------------------------------------------
(* The abstract specification *)

(* The answers allow every row that is stored. *)
LEMMA StoredAllowed == IndInv => Stored \subseteq May
<1> SUFFICES ASSUME IndInv PROVE Stored \subseteq May
  OBVIOUS
<1>1. \A t \in Txs : traceLog[t] # << >> => \E b \in sources : t \in Failing(b)
  BY DEF IndInv, TraceRows
<1>2. \A t \in Txs : failedRow[t] # NoRow => \E b \in sources : t \in Failing(b)
  BY DEF IndInv, FailedRows
<1>3. \A b \in sources : MayOf(b) \subseteq May
  BY DEF May
<1>4. {<<"block", 0>> : b \in blockRow} \subseteq May
  BY <1>3 DEF IndInv, RowsOfSources, MayOf
<1>5. {<<"tx", t>> : t \in txRows} \subseteq May
  BY <1>3 DEF IndInv, RowsOfSources, MayOf
<1>6. {<<"event", EventKey(r)>> : r \in events} \subseteq May
  BY <1>3 DEF IndInv, RowsOfSources, MayOf
<1>7. {<<"trace", t>> : t \in {u \in Txs : traceLog[u] # << >>}} \subseteq May
  BY <1>1, <1>3 DEF MayOf
<1>8. {<<"failed", t>> : t \in {u \in Txs : failedRow[u] # NoRow}} \subseteq May
  BY <1>2, <1>3 DEF MayOf
<1>9. QED
  BY <1>4, <1>5, <1>6, <1>7, <1>8 DEF Stored

(* And every row that a pass calls for. *)
LEMMA MustAllowed == IndInv => Must \subseteq May
<1> SUFFICES ASSUME IndInv, stage \in HeaderKnown \cap ReceiptsKnown
             PROVE  Must \subseteq May
  BY DEF Must
<1>1. header \in sources /\ receipts \in sources \cup {NoTxs}
  BY DEF IndInv, Memory
<1>2. \A b \in sources : MayOf(b) \subseteq May
  BY DEF May
<1>3. <<"block", 0>> \in May
  BY <1>1, <1>2 DEF MayOf
<1>4. \A t \in ListedTxs : <<"tx", t>> \in May
  BY <1>1, <1>2 DEF ListedTxs, NoTxs, MayOf
<1>5. \A r \in BlockRows(receipts) : <<"event", EventKey(r)>> \in May
  BY <1>1, <1>2 DEF BlockRows, NoTxs, MayOf
<1>6. QED
  BY <1>3, <1>4, <1>5 DEF Must

(* Both after a step. *)
LEMMA AllowedNext == IndInv' => (Stored \subseteq May)' /\ (Must \subseteq May)'
BY StoredAllowed, MustAllowed, PTL

(* A step after which the node has said no less allows no less. *)
LEMMA MoreAllowed ==
  /\ sources \subseteq sources' => May \subseteq May'
  /\ sources' = sources => May' = May
BY DEF May

(* The rows stored depend on the tables alone. *)
LEMMA SameTables ==
  ASSUME UNCHANGED tableVars
  PROVE  Stored' = Stored
BY DEF tableVars, Stored

(* A statement adds rows and takes none away. *)
LEMMA RowsAdded ==
  ASSUME blockRow # {} => blockRow' # {}, txRows \subseteq txRows', events \subseteq events',
         \A t \in Txs : traceLog[t] # << >> => traceLog'[t] # << >>,
         \A t \in Txs : failedRow[t] # NoRow => failedRow'[t] # NoRow
  PROVE  Stored \subseteq Stored'
<1>1. {t \in Txs : traceLog[t] # << >>} \subseteq {t \in Txs : traceLog'[t] # << >>}
  OBVIOUS
<1>2. {t \in Txs : failedRow[t] # NoRow} \subseteq {t \in Txs : failedRow'[t] # NoRow}
  OBVIOUS
<1>3. {<<"block", 0>> : b \in blockRow} \subseteq {<<"block", 0>> : b \in blockRow'}
  OBVIOUS
<1>4. QED
  BY <1>1, <1>2, <1>3 DEF Stored

(* A statement that goes through stores rows, and keeps what there was. *)
LEMMA StatementStores ==
  ASSUME IndInv, IndInv',
         \/ InsertBlock \/ InsertTransactions
         \/ InsertSwapEvents \/ InsertLiquidityEvents \/ InsertTokenTransfers
         \/ InsertTraceLogs \/ InsertFailedTransactions
  PROVE  Ledger!Store
<1>1. /\ stage \in HeaderKnown \cap ReceiptsKnown /\ stage' \in HeaderKnown \cap ReceiptsKnown
      /\ stage # "indexed" /\ stage' # "indexed"
      /\ UNCHANGED fetchVars
  BY DEF InsertBlock, InsertTransactions, InsertSwapEvents, InsertLiquidityEvents,
     InsertTokenTransfers, InsertRows, InsertTraceLogs, TracesDone,
     InsertFailedTransactions, HeaderKnown, ReceiptsKnown, Tables
<1>2. Must' = Must /\ May' = May
  BY <1>1, SameAnswers, MoreAllowed DEF Must, fetchVars
<1>3. Stored' \subseteq May
  BY <1>2, AllowedNext
<1>4. Stored \subseteq Stored'
  <2>1. CASE InsertBlock
    BY <2>1, RowsAdded DEF InsertBlock
  <2>2. CASE InsertTransactions
    <3>1. \A t \in Txs : failedRow[t] # NoRow => failedRow'[t] # NoRow
      BY <2>2 DEF InsertTransactions
    <3>2. QED
      BY <2>2, <3>1, RowsAdded DEF InsertTransactions
  <2>3. CASE InsertSwapEvents \/ InsertLiquidityEvents \/ InsertTokenTransfers
    BY <2>3, RowsAdded
       DEF InsertSwapEvents, InsertLiquidityEvents, InsertTokenTransfers, InsertRows
  <2>4. CASE InsertTraceLogs
    <3>1. ASSUME NEW t \in Txs, traceLog[t] # << >>
          PROVE  traceLog'[t] # << >>
      <4>1. traceLog[t] \in Seq(Frame) /\ traced[t] \in Seq(Frame)
        BY DEF IndInv, TypeOK
      <4>2. QED
        BY <2>4, <3>1, <4>1, AppendedIsSeq DEF InsertTraceLogs
    <3>2. QED
      BY <2>4, <3>1, RowsAdded DEF InsertTraceLogs
  <2>5. CASE InsertFailedTransactions
    <3>1. \A t \in Txs : failedRow[t] # NoRow => failedRow'[t] # NoRow
      BY <2>5 DEF InsertFailedTransactions, FailedRowsAdded
    <3>2. QED
      BY <2>5, <3>1, RowsAdded DEF InsertFailedTransactions
  <2>6. QED
    BY <2>1, <2>2, <2>3, <2>4, <2>5
<1>5. QED
  BY <1>1, <1>2, <1>3, <1>4 DEF Ledger!Store

(* The node tells the pass something: what it has to store, or a trace. *)
LEMMA AnswerComes ==
  ASSUME IndInv, IndInv',
         FetchHeader \/ FetchReceipts \/ \E t \in Txs : TraceTx(t) \/ TraceFails(t)
  PROVE  Ledger!Answer
<1>1. /\ sources \subseteq sources' /\ Stored' = Stored
      /\ stage # "indexed" /\ stage' # "indexed"
  BY SameTables DEF FetchHeader, FetchReceipts, TraceTx, TraceFails, FirstPending, fetchVars
<1>2. May \subseteq May' /\ Must' \subseteq May'
  BY <1>1, MoreAllowed, AllowedNext
<1>3. Must = {} \/ Must' = Must
  <2>1. CASE FetchHeader \/ FetchReceipts
    <3>1. stage \notin HeaderKnown \cap ReceiptsKnown
      BY <2>1 DEF FetchHeader, FetchReceipts, HeaderKnown, ReceiptsKnown, Tables
    <3>2. QED
      BY <3>1 DEF Must
  <2>2. CASE \E t \in Txs : TraceTx(t) \/ TraceFails(t)
    <3>1. UNCHANGED <<header, receipts, stage>>
      BY <2>2 DEF TraceTx, TraceFails, fetchVars
    <3>2. QED
      BY <3>1, SameAnswers DEF Must
  <2>3. QED
    BY <2>1, <2>2
<1>4. QED
  BY <1>1, <1>2, <1>3 DEF Ledger!Answer

(* A pass that is over has nothing to store any more. *)
LEMMA PassGivenUp ==
  ASSUME stage # "indexed", PassOver
  PROVE  Ledger!GiveUp
<1>1. stage' = "idle" /\ Stored' = Stored /\ May' = May
  BY SameTables, MoreAllowed DEF PassOver
<1>2. Must' = {}
  BY <1>1 DEF Must, HeaderKnown, Tables
<1>3. QED
  BY <1>1, <1>2 DEF Ledger!GiveUp

(* The checkpoint passes the height with every row that is called for.     *)
LEMMA CheckpointCompletes ==
  ASSUME IndInv, SaveCheckpoint
  PROVE  Ledger!Complete
<1> USE DEF SaveCheckpoint
<1>1. Must # {}
  BY DEF Must, HeaderKnown, ReceiptsKnown
<1>2. Must \subseteq Stored
  <2>1. blockRow # {} /\ ListedTxs \subseteq txRows
    BY DEF IndInv, StageRows, AfterTables, AfterTable
  <2>2. \A r \in BlockRows(receipts) : \E s \in events : EventKey(s) = EventKey(r)
    BY BatchesAreAll DEF AfterTables, SameKey, EventKey
  <2>3. QED
    BY <2>1, <2>2 DEF Must, Stored
<1>3. Stored' = Stored /\ May' = May /\ Must' = Must
  BY SameTables, SameAnswers, MoreAllowed DEF Must, fetchVars, HeaderKnown, ReceiptsKnown
<1>4. QED
  BY <1>1, <1>2, <1>3 DEF Ledger!Complete

(* A step of the pass, or a failure of it, is a step of the ledger. *)
LEMMA PassRefines ==
  ASSUME IndInv, IndInv', Pass \/ Faults
  PROVE  [Ledger!Next]_Ledger!ledgerVars
<1>1. CASE StartPass
  <2>1. Must = {} /\ Must' = {}
    BY <1>1 DEF StartPass, Must, HeaderKnown, Tables
  <2>2. Stored' = Stored /\ May' = May /\ stage # "indexed" /\ stage' # "indexed"
    BY <1>1, SameTables, MoreAllowed DEF StartPass, fetchVars
  <2>3. QED
    BY <2>1, <2>2 DEF Ledger!ledgerVars
<1>2. CASE FetchHeader \/ FetchReceipts \/ \E t \in Txs : TraceTx(t) \/ TraceFails(t)
  BY <1>2, AnswerComes DEF Ledger!Next
<1>3. CASE \/ RejectBlock \/ RejectTraceLogs \/ RejectFailedTransactions \/ Fail
           \/ \E table \in Tables : RejectEvents(table)
  <2>1. stage # "indexed" /\ PassOver
    BY <1>3 DEF RejectBlock, RejectTraceLogs, TracesDone, RejectFailedTransactions,
                RejectEvents, Tables, Fail
  <2>2. QED
    BY <2>1, PassGivenUp DEF Ledger!Next
<1>4. CASE SaveCheckpoint
  BY <1>4, CheckpointCompletes DEF Ledger!Next
<1>5. CASE \/ InsertBlock \/ InsertTransactions
           \/ InsertSwapEvents \/ InsertLiquidityEvents \/ InsertTokenTransfers
           \/ InsertTraceLogs \/ InsertFailedTransactions
  BY <1>5, StatementStores DEF Ledger!Next
<1>6. QED
  BY <1>1, <1>2, <1>3, <1>4, <1>5 DEF Pass, Faults, Tables

(* process_block, its repetitions and rollback_from_block implement the    *)
(* ledger: rows are only added until the height is rolled back as a whole, *)
(* and the checkpoint passes it only when there is a row for all that the  *)
(* two answers of the last pass call for.                                  *)
THEOREM LedgerRefinement == Spec => ImplementsLedger
<1>1. Init => Ledger!Init
  BY DEF Init, Ledger!Init, Stored, Must, May, HeaderKnown, Tables
<1>2. IndInv /\ IndInv' /\ [Next]_vars => [Ledger!Next]_Ledger!ledgerVars
  <2> SUFFICES ASSUME IndInv, IndInv', [Next]_vars
               PROVE  [Ledger!Next]_Ledger!ledgerVars
    OBVIOUS
  <2>1. CASE Pass \/ Faults
    BY <2>1, PassRefines
  <2>2. CASE Rollback
    <3>1. Stored' = {} /\ May' = {} /\ stage' = "idle"
      BY <2>2 DEF Rollback, Stored, May
    <3>2. Must' = {}
      BY <3>1 DEF Must, HeaderKnown, Tables
    <3>3. QED
      BY <3>1, <3>2 DEF Ledger!Next, Ledger!Replace
  <2>3. CASE Reorg \/ ClockCatchesUp \/ Request \/ UNCHANGED vars
    <3>1. UNCHANGED <<tableVars, fetchVars, stage>>
      BY <2>3 DEF Reorg, ClockCatchesUp, Request, GetFailedTransaction, ListTraceLogs,
                  GetFirstErrorFrame, Reply, Undisturbed, vars
    <3>2. Stored' = Stored /\ Must' = Must /\ May' = May
      BY <3>1, SameTables, SameAnswers, MoreAllowed DEF Must, fetchVars
    <3>3. QED
      BY <3>1, <3>2 DEF Ledger!ledgerVars
  <2>4. QED
    BY <2>1, <2>2, <2>3 DEF Next
<1>3. QED
  BY <1>1, <1>2, Invariance, PTL DEF Spec, ImplementsLedger, Ledger!Spec

-----------------------------------------------------------------------------
(* What is indexed in the end *)

(* Of a height that is indexed, every amount in the logs it was answered   *)
(* fits its column; if there was one block and no failure, so do its call  *)
(* trees and revert reasons (queries.rs:207-356 and 452).                  *)
THEOREM OnlyStorableIndexedAlways == Spec => []OnlyStorableIndexed
<1>1. IndInv => OnlyStorableIndexed
  <2> SUFFICES ASSUME IndInv, stage \in {"stored", "indexed"}
               PROVE  /\ \A r \in BlockRows(receipts) : StorableEvent(r.event)
                      /\ faults = 0 /\ OneSource => Fits(receipts)
    BY DEF OnlyStorableIndexed
  <2>1. \A r \in BlockRows(receipts) : StorableEvent(r.event)
    BY BatchesAreAll DEF AfterTables, StorableRow
  <2>2. ASSUME faults = 0, OneSource, NEW t \in Failing(receipts)
        PROVE  /\ StorableTrace(ParseTrace(receipts[t].trace))
               /\ StorableReason(ParseTrace(receipts[t].trace))
    <3> DEFINE frames == ParseTrace(receipts[t].trace)
    <3>1. CASE frames = << >>
      BY <3>1 DEF StorableTrace, StorableReason
    <3>2. CASE frames # << >>
      <4>1. t \in Traced
        BY <2>2, <3>2 DEF IndInv, Memory, TracedRows, AfterTraces
      <4>2. traced[t] = frames
        BY <2>2, <4>1 DEF IndInv, TracedRows, Trees, OneSource
      <4>3. QED
        BY <4>1, <4>2 DEF IndInv, TracedRows, AfterTraces
    <3>3. QED
      BY <3>1, <3>2
  <2>3. QED
    BY <2>1, <2>2 DEF Fits
<1>2. QED
  BY <1>1, Invariance, PTL

(* The order of the stages, in numbers.                                    *)
LEMMA OrderOfStages ==
  /\ stage = "idle" => StagesLeft = 11
  /\ stage = "fetch" => StagesLeft = 10
  /\ stage \in {"header", "receipts"} => StagesLeft = 9
  /\ stage = "block" => StagesLeft = 8
  /\ stage = "transaction" => StagesLeft = 7
  /\ stage = "swap_event" => StagesLeft = 6
  /\ stage = "liquidity_event" => StagesLeft = 5
  /\ stage = "token_transfer" => StagesLeft = 4
  /\ stage = "traces" => StagesLeft = 3
  /\ stage = "failed_transaction" => StagesLeft = 2
  /\ stage = "stored" => StagesLeft = 1
  /\ stage = "indexed" => StagesLeft = 0
BY DEF StagesLeft

LEMMA OrderOfNextStages ==
  /\ stage' = "fetch" => StagesLeft' = 10
  /\ stage' \in {"header", "receipts"} => StagesLeft' = 9
  /\ stage' = "block" => StagesLeft' = 8
  /\ stage' = "transaction" => StagesLeft' = 7
  /\ stage' = "swap_event" => StagesLeft' = 6
  /\ stage' = "liquidity_event" => StagesLeft' = 5
  /\ stage' = "token_transfer" => StagesLeft' = 4
  /\ stage' = "traces" => StagesLeft' = 3
  /\ stage' = "failed_transaction" => StagesLeft' = 2
  /\ stage' = "stored" => StagesLeft' = 1
  /\ stage' = "indexed" => StagesLeft' = 0
BY DEF StagesLeft

(* While the answers are of one block that fits, no statement refuses its  *)
(* rows.                                                                   *)
LEMMA NothingRefused ==
  ASSUME IndInv, sources \subseteq {block}, Fits(block), block \notin future
  PROVE  /\ ~RejectBlock /\ ~RejectTraceLogs /\ ~RejectFailedTransactions
         /\ \A table \in Tables : ~RejectEvents(table)
<1>1. receipts \in {block, NoTxs}
  BY DEF IndInv, Memory
<1>2. ~RejectBlock
  BY DEF RejectBlock, FromFuture, IndInv, Memory, HeaderKnown
<1>3. ASSUME NEW table \in Tables, stage = table, NEW r \in Batch(table)
      PROVE  StorableRow(r)
  <2>1. r \in BlockRows(receipts) /\ r.tx \in DOMAIN receipts
    BY RowOfLog DEF Batch
  <2>2. receipts = block /\ header = block
    BY <1>1, <1>3, <2>1 DEF IndInv, Memory, HeaderKnown, NoTxs
  <2>3. r.tx \in ListedTxs
    BY <2>1, <2>2, BlocksAssumption DEF IndInv, TypeOK, ListedTxs
  <2>4. ListedTxs \subseteq txRows
    BY <1>3 DEF IndInv, StageRows, AfterTable, AfterTables, Tables
  <2>5. QED
    BY <2>1, <2>2, <2>3, <2>4 DEF StorableRow, Fits
<1>4. ASSUME NEW t \in Traced, stage \in {"traces", "failed_transaction"}
      PROVE  StorableTrace(traced[t]) /\ StorableReason(traced[t]) /\ t \in txRows
  <2>1. t \in Failing(receipts) /\ traced[t] \in Trees(t)
    BY DEF IndInv, TracedRows
  <2>2. receipts = block /\ header = block
    BY <1>1, <1>4, <2>1 DEF IndInv, Memory, HeaderKnown, Failing, NoTxs
  <2>3. traced[t] = ParseTrace(block[t].trace)
    BY <2>1 DEF Trees
  <2>4. t \in ListedTxs
    BY <2>1, <2>2, BlocksAssumption DEF IndInv, TypeOK, ListedTxs, Failing
  <2>5. ListedTxs \subseteq txRows
    BY <1>4 DEF IndInv, StageRows, AfterTable, AfterTables
  <2>6. QED
    BY <2>1, <2>2, <2>3, <2>4, <2>5 DEF Fits
<1>5. ~RejectTraceLogs
  BY <1>4 DEF RejectTraceLogs, TracesDone, StorableTraces
<1>6. ~RejectFailedTransactions
  BY <1>4 DEF RejectFailedTransactions
<1>7. \A table \in Tables : ~RejectEvents(table)
  BY <1>3 DEF RejectEvents
<1>8. QED
  BY <1>2, <1>5, <1>6, <1>7

(* Then no step of a pass sends it back, and the loop over the reverted    *)
(* transactions has one fewer to go (worker.rs:339-549).                   *)
THEOREM PassesEnd == Spec => PassMovesOn
<1>1. IndInv /\ [Next]_vars =>
        (sources \subseteq {block} /\ Fits(block) /\ block \notin future /\ Pass => MovesOn)
  <2> SUFFICES ASSUME IndInv, sources \subseteq {block}, Fits(block), block \notin future, Pass
               PROVE  MovesOn
    OBVIOUS
  <2>1. /\ ~RejectBlock /\ ~RejectTraceLogs /\ ~RejectFailedTransactions
        /\ \A table \in Tables : ~RejectEvents(table)
    BY NothingRefused
  <2>2. CASE \E t \in Txs : TraceTx(t)
    <3>1. PICK t \in Txs : TraceTx(t)
      BY <2>2
    <3>2. t \in pending /\ pending' = pending \ {t} /\ stage' = stage
      BY <3>1 DEF TraceTx, FirstPending
    <3>3. StagesLeft' = StagesLeft
      BY <3>2 DEF StagesLeft
    <3>4. QED
      BY <3>2, <3>3 DEF MovesOn
  <2>3. CASE StartPass \/ FetchHeader \/ FetchReceipts
    BY <2>3, OrderOfStages, OrderOfNextStages
       DEF MovesOn, StartPass, FetchHeader, FetchReceipts
  <2>4. CASE InsertBlock \/ InsertTransactions
    BY <2>4, OrderOfStages, OrderOfNextStages DEF MovesOn, InsertBlock, InsertTransactions
  <2>5. CASE InsertSwapEvents \/ InsertLiquidityEvents \/ InsertTokenTransfers
    BY <2>5, OrderOfStages, OrderOfNextStages
       DEF MovesOn, InsertSwapEvents, InsertLiquidityEvents, InsertTokenTransfers, InsertRows
  <2>6. CASE InsertTraceLogs \/ InsertFailedTransactions \/ SaveCheckpoint
    BY <2>6, OrderOfStages, OrderOfNextStages
       DEF MovesOn, InsertTraceLogs, TracesDone, InsertFailedTransactions, SaveCheckpoint
  <2>7. QED
    BY <2>1, <2>2, <2>3, <2>4, <2>5, <2>6 DEF Pass, Tables
<1>2. QED
  BY <1>1, Invariance, PTL DEF Spec, PassMovesOn

-----------------------------------------------------------------------------
(* The classifier *)

(* There are nine rules. *)
LEMMA NineRules == DOMAIN Rules = 1 .. 9
<1>1. DOMAIN Rules = 1 .. Len(Rules)
  BY DEF Rules
<1>2. Len(Rules) = 9
  BY DEF Rules, Rule
<1>3. QED
  BY <1>1, <1>2

(* The first rule of which the text contains a needle gives the category. *)
LEMMA FirstRuleDecides ==
  ASSUME NEW words, NEW i \in DOMAIN Rules, Rules[i].needles \cap words # {},
         \A j \in DOMAIN Rules : j < i => Rules[j].needles \cap words = {}
  PROVE  Classify(words) = Rules[i].category
<1>1. DOMAIN Rules \subseteq Int
  BY NineRules
<1>2. i \in Matching(words) /\ \A j \in Matching(words) : i <= j
  BY <1>1 DEF Matching
<1>3. \A k \in Matching(words) : (\A j \in Matching(words) : k <= j) => k = i
  BY <1>1, <1>2 DEF Matching
<1>4. i = CHOOSE k \in Matching(words) : \A j \in Matching(words) : k <= j
  BY <1>2, <1>3
<1>5. QED
  BY <1>2, <1>4 DEF Classify

(* A reason that holds a needle of one of the three finer slippage         *)
(* categories is never classified under the generic one, whatever else its *)
(* text says (the order of the rules in classifier.rs).                    *)
THEOREM FinerSlippageFirst ==
  ASSUME NEW words, NEW i \in 3 .. 5, Rules[i].needles \cap words # {}
  PROVE  Classify(words) # "SLIPPAGE_EXCEEDED"
<1>1. DOMAIN Rules = 1 .. 9
  BY NineRules
<1>2. \A k \in 1 .. 5 : Rules[k].category # "SLIPPAGE_EXCEEDED"
  <2>1. Rules[1].category = "INSUFFICIENT_ALLOWANCE"
    BY Zenon DEF Rules, Rule
  <2>2. Rules[2].category = "INSUFFICIENT_BALANCE"
    BY Zenon DEF Rules, Rule
  <2>3. Rules[3].category = "SLIPPAGE_AMOUNT_OUT"
    BY Zenon DEF Rules, Rule
  <2>4. Rules[4].category = "SLIPPAGE_AMOUNT_IN"
    BY Zenon DEF Rules, Rule
  <2>5. Rules[5].category = "SLIPPAGE_PRICE_IMPACT"
    BY Zenon DEF Rules, Rule
  <2>6. QED
    BY <2>1, <2>2, <2>3, <2>4, <2>5
<1>3. ASSUME NEW k \in 1 .. 5, Rules[k].needles \cap words # {},
             \A j \in 1 .. (k - 1) : Rules[j].needles \cap words = {}
      PROVE  Classify(words) # "SLIPPAGE_EXCEEDED"
  BY <1>1, <1>2, <1>3, FirstRuleDecides
<1>4. CASE Rules[1].needles \cap words # {}
  BY <1>3, <1>4
<1>5. CASE Rules[1].needles \cap words = {} /\ Rules[2].needles \cap words # {}
  BY <1>3, <1>5
<1>6. CASE /\ \A j \in 1 .. 2 : Rules[j].needles \cap words = {}
           /\ Rules[3].needles \cap words # {}
  BY <1>3, <1>6
<1>7. CASE /\ \A j \in 1 .. 3 : Rules[j].needles \cap words = {}
           /\ Rules[4].needles \cap words # {}
  BY <1>3, <1>7
<1>8. CASE /\ \A j \in 1 .. 4 : Rules[j].needles \cap words = {}
           /\ Rules[5].needles \cap words # {}
  BY <1>3, <1>8
<1>9. QED
  BY <1>4, <1>5, <1>6, <1>7, <1>8
=============================================================================
