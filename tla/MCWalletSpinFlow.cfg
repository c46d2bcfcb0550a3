CONSTANTS
  Acme = Acme
  NoConfig = NoConfig
  NoInstance = NoInstance
  NoTx = NoTx
  Tenants <- MCTenants
  TenantOf <- MCTenantOf
  Spins = {"s1", "s2"}
  MaxSecret = 1
  WinAmounts = {0, 2}
  Failures = {"provider_timeout"}
  MaxTries <- FirstCalledTwice
SPECIFICATION FairSpec
INVARIANTS
  ResultTellsOutcome
  WinsBacked
PROPERTY FlowsEnd
CHECK_DEADLOCK FALSE
