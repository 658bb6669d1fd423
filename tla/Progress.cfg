SPECIFICATION ProgressSpec
CONSTANTS
  Requests = {r1, r2, r3}
  WithEvent = {r1, r2}
  AppThreads = {a1, a2}
  Callers = {r1, r2}
INVARIANTS IrqTested CompletedInOrder HeldIsAlive ReleaseFinishes
PROPERTIES EveryCommandIsAnswered EveryEventIsSignalled ReleasedIsFreed
CHECK_DEADLOCK FALSE
