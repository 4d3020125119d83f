CONSTANTS
    Workers = {w1, w2}
    Subs = {s1}
    UnsafeSubs = {}
    TxCount = 2
    Txs <- MCTxs
    Pairs <- MCPairs
    Batch = 2
    MaxPosts = 1
    StaleAfter = 1
    Hold = 1
    MaxFaults = 2
    MaxRotations = 1
SYMMETRY WorkerSymmetry
SPECIFICATION Spec
INVARIANT IndInv
INVARIANT SinglePoster
INVARIANT DuplicatesOnlyByLoss
PROPERTY DeliveredIsFinal
PROPERTY ImplementsPromise
