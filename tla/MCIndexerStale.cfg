SPECIFICATION Spec

CONSTANTS
  MaxHeight = 4
  MaxBranch = 2
  MaxFaults = 0
  MaxRanges = 0
  Backfill = 2
  Confirmations = 1
  BatchSize = 2
  MaxConcurrent = 2
  CycleCap = 3
  ScanCap = 4

PROPERTY ReorgsCorrected
