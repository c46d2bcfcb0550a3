CONSTANTS
  i1 = i1
  i2 = i2
  a1 = a1
  a2 = a2
  Requests = {r1, r2}
  Items = {i1, i2}
  Authors = {a1, a2}
  Author <- TwoAuthors
  LastPeriod = 1
  MaxCharges = 2
  MaxRows = 2
  MaxTimes = 2
SYMMETRY Symmetry
SPECIFICATION Spec
INVARIANTS
  ChargesBecomeSales
  PaidBackOnce
  ClosedRowsCover
  PaidForOnce
CHECK_DEADLOCK FALSE
