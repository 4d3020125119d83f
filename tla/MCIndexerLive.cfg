SPECIFICATION Spec

CONSTANTS
  MaxHeight = 3
  MaxBranch = 2
  MaxFaults = 1
  MaxRanges = 1
  Backfill = 3
  Confirmations = 0
  BatchSize = 2
  MaxConcurrent = 1
  CycleCap = 1
  ScanCap = 3

PROPERTY CatchesUp
PROPERTY TipCorrected
PROPERTY CancelStops
PROPERTY CycleCountsDown
