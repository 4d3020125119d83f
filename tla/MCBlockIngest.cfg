SPECIFICATION FairSpec
CONSTANTS
    Txs <- MCTxs
    Blocks <- MCBlocks
    Rivals <- MCRivals
    Frame <- MCFrame
    ParseTrace <- MCParseTrace
    MaxNumeric = 2
    MaxU128 = 3
    MaxCallTreeFrames = 3
    TriggerChoices = {TRUE, FALSE}
    MaxFaults = 1
    MaxReorgs = 1
CHECK_DEADLOCK FALSE
INVARIANT IndInv
INVARIANT EventsComplete
INVARIANT SwapSides
INVARIANT TreeBeforeRow
INVARIANT SingleTree
INVARIANT MissingOnlyByFault
INVARIANT DetailConsistent
INVARIANT CallTreeInOrder
PROPERTY ImplementsLedger
PROPERTY StorableIsIndexed
