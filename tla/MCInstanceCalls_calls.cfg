CONSTANTS
  a = a
  b = b
  x = x
  y = y
  Instances = {a, b}
  Calls = {x, y}
  Kinds = {"method", "setter"}
  Errors = {"constructor"}
  MaxOps = 2
SPECIFICATION Spec
SYMMETRY Symmetry
INVARIANTS
  TypeOK
  ResultIsOwn
  PendingIsInFlight
  InitIsAnswered
PROPERTIES
  CallOrder
  ImplementsAsyncCalls
CHECK_DEADLOCK FALSE
