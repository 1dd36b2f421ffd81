CONSTANTS
  r1 = r1
  r2 = r2
  r3 = r3
  Requests <- MCRequests
SPECIFICATION Spec
INVARIANTS
  DrainedBeforeExit
CHECK_DEADLOCK FALSE
