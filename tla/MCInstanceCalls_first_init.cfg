CONSTANTS
  a = a
  b = b
  x = x
  y = y
  Instances = {a}
  Calls = {x}
  Kinds = {"method"}
  Errors = {"load"}
  MaxOps = 1
SPECIFICATION Spec
INVARIANTS
  InitIsAnswered
CHECK_DEADLOCK FALSE
