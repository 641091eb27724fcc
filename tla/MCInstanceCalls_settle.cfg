CONSTANTS
  a = a
  b = b
  x = x
  y = y
  Instances = {a, b}
  Calls = {x, y}
  Kinds = {"method", "memory"}
  Errors = {"constructor", "load", "method"}
  MaxOps = 1
SPECIFICATION FairSpec
INVARIANT PendingIsInFlight
PROPERTY MethodsSettle
CHECK_DEADLOCK FALSE
