CONSTANTS
  Ann = Ann
  Paced = Paced
  Free = Free
  NoSession = NoSession
  Never = Never
  Players <- MCPlayers
  Sessions <- MCSessions
  PlayerOf <- MCPlayerOf
  Policy <- MCPolicy
  StartingBalance = 4
  ReviewThreshold = 3
  PerMinor = 10
  Bets = {2}
  GaasBets = {4, 14, 15}
  Wins = {0, 3}
  Amounts = {2, 4}
  MaxTime = 2
  MaxRequests = 5
SPECIFICATION Spec
INVARIANTS
  StatementAddsUp
  StoresAgree
  LossStopsPlay
CHECK_DEADLOCK FALSE
