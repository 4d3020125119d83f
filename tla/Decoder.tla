------------------------------ MODULE Decoder ------------------------------
(***************************************************************************)
(* The pure functions of crates/decoder that turn what the node returns    *)
(* into rows: event logs (events.rs), the revert reason of a reverted      *)
(* transaction (trace.rs) and its error category (classifier.rs), with the *)
(* mapping of that category to the column's type in worker.rs.  The call   *)
(* tree is in CallTrace.                                                   *)
(*                                                                         *)
(* A log is a record                                                       *)
(*   [topic, decodes, log_index, a0, a1, lower, upper]                     *)
(* topic names the event whose signature is topic0 ("none": no topics at   *)
(* all); decodes says whether the ABI decoder accepts the rest of the log  *)
(* (a foreign event may share the signature, as ERC-721's Transfer does);  *)
(* log_index is its number in the block; a0, a1 are its amounts (a0 alone  *)
(* for a Transfer), lower and upper the ticks of a Mint or Burn.           *)
(***************************************************************************)
EXTENDS Integers, Sequences

Topics == {"none", "Swap", "Mint", "Burn", "Transfer", "other"}

Magnitude(n) == IF n >= 0 THEN n ELSE -n

NoEvent == [table |-> "none"]

-----------------------------------------------------------------------------
(* Event logs *)

\* Mutant: the negative amount is what came in.
DecodeSwapReversed(log) ==
  [table |-> "swap_event", amount0 |-> log.a0, amount1 |-> log.a1,
   amount_in |-> IF log.a0 >= 0 THEN log.a1 ELSE log.a0,
   amount_out |-> Magnitude(IF log.a0 >= 0 THEN log.a0 ELSE log.a1)]

\* The amounts are the changes of the pool: amount0 came in when it is zero or more,
\* amount1 otherwise, whatever the sign of the other one.
DecodeSwap(log) ==
  [table |-> "swap_event", amount0 |-> log.a0, amount1 |-> log.a1,
   amount_in |-> IF log.a0 >= 0 THEN log.a0 ELSE log.a1,
   amount_out |-> Magnitude(IF log.a0 >= 0 THEN log.a1 ELSE log.a0)]

DecodeLiquidity(log, event_type) ==
  [table |-> "liquidity_event", event_type |-> event_type,
   token0_amount |-> log.a0, token1_amount |-> log.a1,
   tick_lower |-> log.lower, tick_upper |-> log.upper]

DecodeTransfer(log) == [table |-> "token_transfer", amount |-> log.a0]

\* Logs without topics, of another event or that fail to decode are passed over.
DecodeLog(log) ==
  IF ~log.decodes THEN NoEvent
  ELSE IF log.topic = "Swap" THEN DecodeSwap(log)
  ELSE IF log.topic = "Mint" THEN DecodeLiquidity(log, "MINT")
  ELSE IF log.topic = "Burn" THEN DecodeLiquidity(log, "BURN")
  ELSE IF log.topic = "Transfer" THEN DecodeTransfer(log)
  ELSE NoEvent

-----------------------------------------------------------------------------
(* The revert reason *)

(***************************************************************************)
(* What a frame returned: shape is "absent" (no output, or not hex),       *)
(* "short" (under four bytes), "Error" or "Panic" (the two standard        *)
(* selectors) or "custom"; complete says whether the bytes after the       *)
(* selector hold what they announce (the announced length is taken not to  *)
(* overflow), words are the needles of the classifier that the text        *)
(* contains, and nul says whether it holds a NUL character, which          *)
(* from_utf8_lossy keeps.  A reason keeps both; a panic code and raw hex   *)
(* have neither.                                                           *)
(***************************************************************************)
Shapes == {"absent", "short", "Error", "Panic", "custom"}

NoReason == [some |-> FALSE, words |-> {}, nul |-> FALSE]
Reason(words, nul) == [some |-> TRUE, words |-> words, nul |-> nul]

DecodeRevertReason(output) ==
  CASE output.shape = "absent" -> NoReason
    [] output.shape = "Error"  -> IF output.complete THEN Reason(output.words, output.nul)
                                                     ELSE NoReason
    [] OTHER                   -> Reason({}, FALSE)

-----------------------------------------------------------------------------
(* The category *)

\* One rule per `if` of classify_error: any of the needles gives the category.
Rule(needles, category) == [needles |-> needles, category |-> category]

Rules ==
  << Rule({"allowance"}, "INSUFFICIENT_ALLOWANCE"),
     Rule({"stf", "insufficient", "balance", "exceeds balance", "not enough"},
          "INSUFFICIENT_BALANCE"),
     Rule({"too little received"}, "SLIPPAGE_AMOUNT_OUT"),
     Rule({"too much requested"}, "SLIPPAGE_AMOUNT_IN"),
     Rule({"price slipped", "amount out"}, "SLIPPAGE_PRICE_IMPACT"),
     Rule({"slippage"}, "SLIPPAGE_EXCEEDED"),
     Rule({"deadline", "too old", "expired", "transaction too old"},
          "DEADLINE_EXPIRED"),
     Rule({"unauthorized", "ownable", "not owner", "forbidden", "access denied"},
          "UNAUTHORIZED"),
     Rule({"transfer failed", "transfer_failed", "safe transfer",
           "safetransferfrom"}, "TRANSFER_FAILED") >>

Matching(words) == {i \in DOMAIN Rules : Rules[i].needles \cap words # {}}

\* The first rule that matches decides.
Classify(words) ==
  IF Matching(words) = {} THEN "UNKNOWN"
  ELSE LET first == CHOOSE i \in Matching(words) :
                      \A j \in Matching(words) : i <= j
       IN  Rules[first].category

ErrorCategories ==
  {"INSUFFICIENT_BALANCE", "INSUFFICIENT_ALLOWANCE", "SLIPPAGE_EXCEEDED",
   "SLIPPAGE_AMOUNT_OUT", "SLIPPAGE_AMOUNT_IN", "SLIPPAGE_PRICE_IMPACT",
   "DEADLINE_EXPIRED", "UNAUTHORIZED", "TRANSFER_FAILED", "UNKNOWN"}

\* The category worker.rs stores for a class: a match with five arms, then Unknown.
StoredCategory(class) ==
  IF class \in {"INSUFFICIENT_BALANCE", "SLIPPAGE_EXCEEDED", "DEADLINE_EXPIRED",
                "UNAUTHORIZED", "TRANSFER_FAILED"}
  THEN class ELSE "UNKNOWN"

\* The class of a reason; a transaction without one is UNKNOWN.
ClassOf(reason) == IF reason.some THEN Classify(reason.words) ELSE "UNKNOWN"
=============================================================================
