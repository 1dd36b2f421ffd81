CONSTANTS
  c1 = c1
  c2 = c2
  c3 = c3
  k1 = k1
  k2 = k2
  NoItem = NoItem
  NoId = NoId
  Calls <- MCCalls
  Ids <- MCIds
  MaxEvents = 5
SPECIFICATION ResponseSpec
INVARIANTS
  ResponseTypeOK
  BlocksWellFormed
  ArgumentsReachTheirCall
  FinishedOnce
  
  
CHECK_DEADLOCK FALSE
