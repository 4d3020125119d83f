SPECIFICATION RepairSpec

CONSTANTS
  MaxHeight = 3
  MaxBranch = 2
  MaxFaults = 1
  MaxRanges = 1
  Backfill = 3
  Confirmations = 1
  BatchSize = 2
  MaxConcurrent = 2
  CycleCap = 3
  ScanCap = 3

INVARIANT RowDependencies
INVARIANT CheckpointCovered
INVARIANT NoReorgMeansNone
INVARIANT RepairInv
PROPERTY RollbackExact
PROPERTY NoBlindRollback
PROPERTY ImplementsProgress
