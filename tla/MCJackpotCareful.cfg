CONSTANTS
  Mini = Mini
  Grand = Grand
  NoCap = NoCap
  Tiers <- MCTiers
  Seed <- MCSeed
  InitialPool <- MCInitialPool
  Rate <- MCRate
  Cap <- MCCap
  MaxRetries = 1
  Timeout = 1
  Wagers = {1}
  MaxPayments = 2
  MaxContributions = 2
SPECIFICATION CarefulFairSpec
INVARIANTS
  SettlementsAuthorised
  PayoutsFunded
PROPERTIES
  ImplementsPayout
  ReservationsEnd
CHECK_DEADLOCK FALSE
