SPECIFICATION Spec
CONSTANTS
    Txs <- MCTxs
    Blocks <- MCBlocks
    Rivals <- MCRivals
    Frame <- MCFrame
    ParseTrace <- MCParseTrace
    MaxNumeric = 2
    MaxU128 = 3
    MaxCallTreeFrames = 3
    TriggerChoices = {FALSE}
    MaxFaults = 0
    MaxReorgs = 0
CHECK_DEADLOCK FALSE
INVARIANT RootCauseIsOrigin
