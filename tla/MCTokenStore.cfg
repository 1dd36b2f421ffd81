CONSTANTS
  a1 = a1
  a2 = a2
  g1 = g1
  g2 = g2
  Nobody = Nobody
  NoClone = NoClone
  NoAccount = NoAccount
  Entries <- AllCalls
  Accounts <- OneAccount
  Goroutines <- TwoGoroutines
  MaxGrants = 2
  MaxCrashes = 0
SPECIFICATION FairSpec
INVARIANTS
  TypeOK
  NoTornCredentials
  PresentedTokenIsCurrent
  RefreshedTokenWasSaved
PROPERTIES
  EveryCallReturns
  ImplementsService
