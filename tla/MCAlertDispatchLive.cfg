CONSTANTS
    Workers = {w1}
    Subs = {s1, s2}
    UnsafeSubs = {s2}
    TxCount = 2
    Txs <- MCTxs
    Pairs <- MCPairs
    Batch = 2
    MaxPosts = 2
    StaleAfter = 1
    Hold = 1
    MaxFaults = 1
    MaxRotations = 0
SPECIFICATION FairSpec
PROPERTY EventuallyDelivered
