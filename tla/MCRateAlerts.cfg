CONSTANTS
    Workers = {w1, w2}
    Subs = {1}
    Txs = {t1, t2}
    Matches <- MCMatches
    Threshold <- MCThreshold
    Window <- MCWindow
    Debounce <- MCDebounce
    MaxWindow = 1
    Batch = 2
    MaxPosts = 1
    MaxCrashes = 1
SPECIFICATION FairSpec
INVARIANT IndInv
PROPERTY SelectedHasRested
PROPERTY SustainedRateAlerts
