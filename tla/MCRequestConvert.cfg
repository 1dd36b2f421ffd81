CONSTANTS
  Requests <- EveryRequest
SPECIFICATION Spec
INVARIANTS
  TypeOK
  EachBlockOnce
  TurnsKeepTheirOrder
  EndpointsAgree
  ModelsResolve
  EffortHonoured
CHECK_DEADLOCK FALSE
