CONSTANTS
  Mini = Mini
  Grand = Grand
  Lines = Lines
  Cluster = Cluster
  NoWeights = NoWeights
  NoOp = NoOp
  Games <- MCGames
  Eligible <- MCGames
  Tiers <- MCTiers
  FirstTier = Mini
  Seed <- MCSeed
  Weights <- MCWeights
  Overrides = {Grand}
  Amounts = {1, 2}
  MaxSequence = 5
SPECIFICATION CarefulSpec
INVARIANTS
  IdsStayFresh
  Conserved
PROPERTIES
  EffectsOnce
  ImplementsMeter
CHECK_DEADLOCK FALSE
