---------------------------- MODULE BlockLedger ----------------------------
(***************************************************************************)
(* What indexing one height of the chain does, whatever statements,        *)
(* failures and restarts it takes: the node's answers call for rows; rows  *)
(* are only added, and only those that some answer allows; the height      *)
(* counts as indexed only when all the rows that the answers of one pass   *)
(* call for are there; only a rollback of the height takes rows away, all  *)
(* of them at once.  That the answers are complete, or of one block, is    *)
(* not promised.                                                           *)
(***************************************************************************)
VARIABLES
  must,      \* the rows the pass under way calls for; none while it has to ask
  may,       \* the rows that the answers since the last rollback allow
  rows,      \* the rows stored
  indexed    \* the checkpoint has passed the height

ledgerVars == <<must, may, rows, indexed>>

Init == must = {} /\ may = {} /\ rows = {} /\ indexed = FALSE

\* The node answers: more is allowed, and a pass that has asked for all knows
\* what it has to store, once and for all.
Answer ==
  /\ ~indexed
  /\ may \subseteq may'
  /\ must' \subseteq may'
  /\ must = {} \/ must' = must
  /\ UNCHANGED <<rows, indexed>>

\* A pass is given up: the next one asks anew.
GiveUp ==
  /\ ~indexed
  /\ must' = {}
  /\ UNCHANGED <<may, rows, indexed>>

\* A statement stores rows.
Store ==
  /\ ~indexed
  /\ rows \subseteq rows'
  /\ rows' \subseteq may
  /\ UNCHANGED <<must, may, indexed>>

Complete ==
  /\ ~indexed
  /\ must # {} /\ must \subseteq rows
  /\ indexed' = TRUE
  /\ UNCHANGED <<must, may, rows>>

\* The height is rolled back.
Replace == must' = {} /\ may' = {} /\ rows' = {} /\ indexed' = FALSE

Next == Answer \/ GiveUp \/ Store \/ Complete \/ Replace

Spec == Init /\ [][Next]_ledgerVars
=============================================================================
