--------------------------- MODULE MCBlockIngest ---------------------------
(***************************************************************************)
(* Small blocks for BlockIngest, with call trees flattened by CallTrace.   *)
(***************************************************************************)
EXTENDS BlockIngest, CallTrace

MCTxs == {"t1", "t2"}

Returned(shape, words) ==
  [shape |-> shape, complete |-> TRUE, words |-> words, nul |-> FALSE]
NoOutput == Returned("absent", {})
TooLittle == Returned("Error", {"too little received"})
Balance == Returned("Error", {"balance", "exceeds balance", "transfer failed"})
Allowance == Returned("Error", {"insufficient", "allowance"})
Incomplete == [Returned("Error", {}) EXCEPT !.complete = FALSE]
Nul == [Returned("Error", {}) EXCEPT !.nul = TRUE]

Call(name, value, error, calls) ==
  [call |-> name, typed |-> TRUE, value |-> value, error |-> error,
   input |-> name, output |-> NoOutput, calls |-> calls]
RootCall(output, calls) == [Call("root", 1, TRUE, calls) EXCEPT !.output = output]
Untyped(json) == [json EXCEPT !.typed = FALSE]

\* A caller, two callees, the second of them failing, and a call below the first.
SwapTrace == RootCall(TooLittle, <<Call("a", 0, FALSE, <<Call("b", 1, FALSE, << >>)>>),
                                   Call("c", 1, TRUE, << >>)>>)
\* A callee of no known type, with a call of its own, between two others.
GapTrace == RootCall(Balance, <<Call("a", 0, TRUE, << >>),
                                Untyped(Call("b", 0, FALSE, <<Call("c", 0, FALSE, << >>)>>)),
                                Call("d", 4, FALSE, << >>)>>)
\* A failed call names a value that no column takes.
WideTrace == RootCall(Returned("custom", {}), <<Call("a", 3, TRUE, << >>)>>)
BareTrace == RootCall(Allowance, << >>)
PanicTrace == RootCall(Returned("Panic", {}), <<Call("a", 0, TRUE, << >>)>>)
BadTextTrace == RootCall(Incomplete, << >>)
NulTrace == RootCall(Nul, << >>)
NoTrace == Untyped(RootCall(NoOutput, << >>))
\* The trace of a transaction that went through.
FineTrace == Call("root", 1, FALSE, << >>)

Log(topic, a0, a1) == [topic |-> topic, decodes |-> TRUE, log_index |-> 0,
                       a0 |-> a0, a1 |-> a1, lower |-> 0, upper |-> 1]
NftTransfer == [Log("Transfer", 1, 0) EXCEPT !.decodes = FALSE]
BadTicks == [Log("Mint", 1, 1) EXCEPT !.upper = 0]

Success(tx, logs) == [tx |-> tx, status |-> "success", logs |-> logs, trace |-> FineTrace]
Fails(tx, trace) == [tx |-> tx, status |-> "reverted", logs |-> << >>, trace |-> trace]

Sells(tx) == Success(tx, <<Log("none", 0, 0), Log("Swap", 2, -1), Log("Transfer", 2, 0)>>)
Buys(tx) == Success(tx, <<NftTransfer, Log("Swap", -1, 2), Log("other", 0, 0),
                          Log("Mint", 1, 0), Log("Burn", 0, 1)>>)
Dust(tx) == Success(tx, <<Log("Swap", 0, 1)>>)
TooWide(tx) == Success(tx, <<Log("Transfer", 5, 0)>>)
NoRange(tx) == Success(tx, <<Log("Burn", 1, 1), BadTicks>>)

\* The block of a sequence of outcomes; its logs are numbered through.
LogsBefore(outcomes, i) ==
  FoldLeft(LAMBDA n, outcome : n + Len(outcome.logs), 0, SubSeq(outcomes, 1, i - 1))
BlockOf(outcomes) ==
  [tx \in {outcomes[i].tx : i \in DOMAIN outcomes} |->
     LET i == CHOOSE k \in DOMAIN outcomes : outcomes[k].tx = tx IN
     [index |-> i, status |-> outcomes[i].status, trace |-> outcomes[i].trace,
      logs |-> [k \in DOMAIN outcomes[i].logs |->
                  [outcomes[i].logs[k] EXCEPT !.log_index = LogsBefore(outcomes, i) + k]]]]

\* Blocks in pairs: a reorg replaces one by the other.
MCForks ==
  { \* both transactions with another place and outcome
    {BlockOf(<<Fails("t1", SwapTrace), Fails("t2", GapTrace)>>),
     BlockOf(<<Sells("t2"), Fails("t1", BareTrace)>>)},
    \* a shorter block, and logs of the same numbers
    {BlockOf(<<Dust("t1")>>), BlockOf(<<Fails("t2", SwapTrace), Buys("t1")>>)},
    \* rows that do not fit, and the empty block
    {BlockOf(<<Fails("t1", NulTrace), TooWide("t2")>>), BlockOf(<< >>)},
    {BlockOf(<<Fails("t2", NulTrace)>>), BlockOf(<<NoRange("t1"), Fails("t2", BareTrace)>>)},
    {BlockOf(<<Fails("t1", WideTrace), Dust("t2")>>), BlockOf(<<Fails("t1", PanicTrace)>>)},
    \* traces that do not parse, or give no reason
    {BlockOf(<<Fails("t1", NoTrace), Fails("t2", BareTrace)>>), BlockOf(<<Fails("t1", BadTextTrace)>>)} }

MCBlocks == UNION MCForks
MCRivals == [b \in MCBlocks |-> UNION {fork \ {b} : fork \in {f \in MCForks : b \in f}}]

\* The flattened traces, computed once.
MCFlattened ==
  [trace \in UNION {{b[t].trace : t \in DOMAIN b} : b \in MCBlocks} |-> FlattenedTrace(trace)]
MCParseTrace(trace) == MCFlattened[trace]

MCFrame == UNION {Range(MCFlattened[trace]) : trace \in DOMAIN MCFlattened}

(***************************************************************************)
(* The rows of a call tree are, after one pass, the frames of the node's   *)
(* answer in document order, each with its depth, without the subtrees     *)
(* that do not parse: the order that list_trace_logs_by_tx                 *)
(* (queries.rs:600-608) calls the linear order of the tree, against a      *)
(* reference by paths (trace.rs:104-202).                                  *)
(***************************************************************************)
CallTreeInOrder ==
  passes <= 1 => \A t \in Txs : traceLog[t] # << >> =>
    \E b \in sources : t \in DOMAIN b /\ ListsInOrder(traceLog[t], b[t].trace)
=============================================================================
