CONSTANTS
  Contents = {p, q}
  MaxCrossings = 3
SPECIFICATION Spec
INVARIANT ValuesSurvive
CHECK_DEADLOCK FALSE
