CONSTANTS
  r1 = r1
  r2 = r2
  r3 = r3
  Requests <- MCRequests
SPECIFICATION Spec
INVARIANTS
  StopIsNoError
PROPERTIES
  SignalStopsProcess
CHECK_DEADLOCK FALSE
