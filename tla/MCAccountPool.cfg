CONSTANTS
  a1 = a1
  a2 = a2
  r1 = r1
  r2 = r2
  r3 = r3
  NoAccount = NoAccount
  Accounts <- MCAccounts
  Requests <- MCRequests
  Durations <- MCDurations
  MaxConcurrency = 2
  Minute = 2
  MaxTime = 2
SYMMETRY Symmetry
SPECIFICATION PoolSpec
INVARIANTS
  PoolTypeOK
  LeaseAccounting
  CapacityRespected
PROPERTIES
  LeastLoadedChosen
  ImplementsLeasing
