SPECIFICATION CallSpec
CONSTANTS
  Methods = {"tools_call"}
  Impls = {"sql_function"}
  FaultSets = {{"end_request"}}
  Operator = {}
CHECK_DEADLOCK FALSE
INVARIANT SuccessIsCommitted
