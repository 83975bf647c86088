SPECIFICATION FairSpec
CONSTANTS
  Outputs = {"out"}
  PipeCap = 3
  Calls <- AllCalls
  ReqLen = 4
  Chunk = 2
  MaxOutput = 4
CHECK_DEADLOCK FALSE
INVARIANTS
  SmallResponseIsComplete
  ReturnsClean
PROPERTIES
  EveryCallReturns
  WorkingServerSucceeds
