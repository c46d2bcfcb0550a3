CONSTANTS
  s1 = s1
  s2 = s2
  Torn = Torn
  NoKey = NoKey
  Submissions <- MCSubmissions
  MaxKeys = 3
SPECIFICATION CertSpec
INVARIANTS
  LicencesVerify
  CompletedForCause
CHECK_DEADLOCK FALSE
