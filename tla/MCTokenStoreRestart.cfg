CONSTANTS
  a1 = a1
  a2 = a2
  g1 = g1
  g2 = g2
  Nobody = Nobody
  NoClone = NoClone
  NoAccount = NoAccount
  Entries <- AllCalls
  Accounts <- TwoAccounts
  Goroutines <- OneGoroutine
  MaxGrants = 2
  MaxCrashes = 2
SPECIFICATION Spec
INVARIANTS
  RotationIsDurable
