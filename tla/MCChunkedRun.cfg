CONSTANTS
  r1 = r1
  r2 = r2
  r3 = r3
  None = None
  Runs <- MCRuns
  TotalSpins = 2
  ChunkSize = 1
SPECIFICATION RunSpec
INVARIANTS
  FinishedCountsAll
PROPERTIES
  CancelledIsResumable
  RunsEnd
CHECK_DEADLOCK FALSE
