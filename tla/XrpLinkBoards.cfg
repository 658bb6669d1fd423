SPECIFICATION BoardsSpec
CONSTANTS
  Requests = {r1, r2, r3}
  HostIrq = "edge"
  DevIrq = "edge"
  SharedIrq = TRUE
  MaxCompletions = 1
  CanHalt = TRUE
  HasFirmware = TRUE
  FirmwareReboot = {TRUE}
  Timeouts = TRUE
  Signals = FALSE
  HostFaults = TRUE
  Outcomes = {"ok", "fail"}
  ExitOnFailure = TRUE
  MaxCalls <- MCMaxCalls
SYMMETRY RequestSymmetry
INVARIANTS ResponseIsOwn NoUseAfterUnmap LoadedRunsOnce LoadedSyncsFirst ExclusiveArea LinkInvOnBoards
PROPERTY ImplementsExchange
CHECK_DEADLOCK FALSE
