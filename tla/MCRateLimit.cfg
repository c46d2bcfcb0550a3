CONSTANTS
  q1 = q1
  q2 = q2
  q3 = q3
  q4 = q4
  Requests <- MCRequests
  One = 3
  Capacity = 6
  Rate = 1
  Second = 2
  Ttl = 6
  MaxTime = 6
SPECIFICATION LimitSpec
SYMMETRY Symmetry
INVARIANTS
  WithinBudget
  BurstServed
  RetrySuffices
CHECK_DEADLOCK FALSE
