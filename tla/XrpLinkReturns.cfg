SPECIFICATION FairSpec
CONSTANTS
  Requests = {r1, r2}
  HostIrq = "edge"
  DevIrq = "level"
  SharedIrq = TRUE
  MaxCompletions = 1
  CanHalt = TRUE
  HasFirmware = TRUE
  FirmwareReboot = {TRUE, FALSE}
  Timeouts = TRUE
  Signals = TRUE
  HostFaults = TRUE
  Outcomes = {"ok", "nomem"}
  ExitOnFailure = TRUE
PROPERTY EveryCallReturns
CHECK_DEADLOCK FALSE
