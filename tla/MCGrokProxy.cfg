CONSTANTS
  a1 = a1
  a2 = a2
  r1 = r1
  r2 = r2
  NoAccount = NoAccount
  Accounts <- TwoAccounts
  Requests <- TwoRequests
  Durations <- MCDurations
  MaxConcurrency = 1
  Short = 1
  Minute = 2
  FiveMinutes = 3
  Hour = 4
  RetryHeaders <- MCRetryHeaders
  Leavers = {}
  MaxTime = 2
  MaxGrants = 1
SYMMETRY Symmetry
SPECIFICATION GrokSpec
INVARIANTS
  GrokTypeOK
  LeasesFollowRequests
  BodiesClosed
  NoCallWhileCooling
  TokensFollowLeases
PROPERTIES
  CooldownNeverShortened
