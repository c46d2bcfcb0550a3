CONSTANTS
  RotateAt = 2
  MaxPieces = 6
SPECIFICATION JournalSpec
INVARIANTS
  FilesChain
  AckedReadable
  RefusedForCause
CHECK_DEADLOCK FALSE
