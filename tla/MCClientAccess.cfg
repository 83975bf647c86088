SPECIFICATION AccessSpec
CONSTANTS
  Conns = {c1, c2}
  Lengths <- MCLengths
  MaxBody = 8
  InitCap = 2
  Methods <- AllMethods
  Impls <- AllImpls
  FaultSets <- AllFaultSets
  Operator = {"disable", "delete"}
  Short = TRUE
CHECK_DEADLOCK FALSE
INVARIANTS
  BodyIsWhole
  NothingLeftBehind
  ErrorLeavesNothing
  AuditTellsTheEffects
  SuccessIsCommittedIfCaptured
  AuditedUnlessDeleted
  FailureIsExplained
  ReturnAgrees
  HeapIsExact
PROPERTIES
  EveryRequestEnds
  SignalEndsIt
