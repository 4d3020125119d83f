-------------------------- MODULE MCAlertDispatch --------------------------
(* AlertDispatch with subscriptions whose filters match every failed       *)
(* transaction, but for the refused ones.  Workers are interchangeable.    *)
EXTENDS AlertDispatch, TLC
CONSTANTS TxCount
MCTxs == 1 .. TxCount
\* A subscription that is refused matches the first transaction only.
MCPairs == {p \in Subs \X MCTxs : p[1] \in UnsafeSubs => p[2] = 1}
WorkerSymmetry == Permutations(Workers)
=============================================================================
