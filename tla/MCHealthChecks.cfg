CONSTANTS
  Acme = Acme
  Bolt = Bolt
  m1 = m1
  m2 = m2
  Absent = Absent
  Tenants <- MCTenants
  Listing <- MCListing
  Sweepers <- MCSweepers
  MaxVersion = 2
  MaxChanges = 3
SPECIFICATION MonitoredSpec
INVARIANTS
  RecordMatchesCache
PROPERTIES
  DownIsNoticed
CHECK_DEADLOCK FALSE
