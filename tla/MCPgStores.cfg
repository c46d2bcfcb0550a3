CONSTANTS
  c1 = c1
  c2 = c2
  Ann = Ann
  Chain = Chain
  Slot = Slot
  None = None
  Callers <- MCCallers
  Accounts <- MCAccounts
  Chains <- MCChains
  Sessions <- MCSessions
  StartingBalance = 3
  ReviewThreshold = 2
  LossLimit = 2
  Amounts = {2}
  Nets <- MCNets
  MaxBet = 2
  MaxClients = 2
  MaxCalls = 3
SPECIFICATION PgSpec
INVARIANTS
  StatementReplays
  ChainUnbroken
  SpinsAreCounted
  OvershootBounded
  AnswersAreKept
PROPERTIES
  CallsEnd
CHECK_DEADLOCK FALSE
