CONSTANTS
  a = a
  b = b
  f = f
  g = g
  s = s
  t = t
  x = x
  y = y
  Instances = {a, b}
  Functions = {f, g}
  WorkerFunctions = {s, t}
  Methods <- ClassMethods
  Throws = {f, t}
  Calls = {x, y}
  MaxPasses = 2
  MaxOps = 1
SPECIFICATION FairSpec
INVARIANTS
  TypeOK
  RemoteFunctionIsOwn
  ResultIsOfHandle
  
  RunsOnce
PROPERTIES
  
  ProgramCallsAreAsyncCalls
CHECK_DEADLOCK FALSE
