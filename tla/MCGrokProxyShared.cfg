CONSTANTS
  a1 = a1
  a2 = a2
  r1 = r1
  r2 = r2
  NoAccount = NoAccount
  Accounts <- OneAccount
  Requests <- TwoRequests
  Durations <- MCDurations
  MaxConcurrency = 2
  Short = 1
  Minute = 1
  FiveMinutes = 1
  Hour = 1
  RetryHeaders <- NoRetryHeader
  Leavers <- TwoRequests
  MaxTime = 0
  MaxGrants = 2
SPECIFICATION FairGrokSpec
INVARIANTS
  RetryUsesNewerToken
PROPERTIES
  EveryRequestJudged
  LeaverLetsGo
  UsesTokenService
