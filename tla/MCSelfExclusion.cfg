CONSTANTS
  Gamstop = Gamstop
  Oasis = Oasis
  Q1 = Q1
  Q2 = Q2
  Registries <- MCRegistries
  Queries <- MCQueries
  FailureThreshold = 2
  RecoveryTime = 1
  FailClosed = TRUE
  MaxRegistered = 1
SPECIFICATION ExclFairSpec
PROPERTIES
  ImplementsGate
  BreakerHeals
  EveryQueryEnds
CHECK_DEADLOCK FALSE
