SPECIFICATION Spec
CONSTANTS
  Requests = {r1}
  WithEvent = {r1}
  AppThreads = {a1}
INVARIANT WorkerEndsFirst
CHECK_DEADLOCK FALSE
