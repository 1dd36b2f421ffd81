CONSTANTS
  u1 = u1
  u2 = u2
  s1 = s1
  s2 = s2
  s3 = s3
  None = None
  Users <- MCUsers
  Sessions <- MCSessions
  Owner <- MCOwner
  Files <- OneFile
  Lifetimes <- TwoLifetimes
  SharedFiles = FALSE
  MaxRotations = 2
  MaxFaults = 0
  MaxTime = 2
SPECIFICATION Spec
INVARIANTS
  NoRollback
