SPECIFICATION FairSpec
CONSTANTS
  Outputs = {"out", "err"}
  PipeCap = 2
  Calls <- AllCalls
  StdinLens = {0, 3}
  MaxOutput = 2
  MaxStderr = 1
CHECK_DEADLOCK FALSE
INVARIANTS
  SuccessIsComplete
  StdinEofIsHonest
  ReturnsClean
PROPERTIES
  ReturnsIfStreamsKept
  WorkingChildSucceeds
