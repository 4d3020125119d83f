CONSTANTS
    Workers = {w1}
    Subs = {s1}
    UnsafeSubs = {}
    TxCount = 1
    Txs <- MCTxs
    Pairs <- MCPairs
    Batch = 1
    MaxPosts = 1
    StaleAfter = 1
    Hold = 1
    MaxFaults = 1
    MaxRotations = 0
SPECIFICATION Spec
INVARIANT ExactlyOnce
