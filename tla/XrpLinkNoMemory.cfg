SPECIFICATION Spec
CONSTANTS
  Requests = {r1, r2}
  HostIrq = "edge"
  DevIrq = "edge"
  SharedIrq = FALSE
  MaxCompletions = 0
  CanHalt = TRUE
  HasFirmware = TRUE
  FirmwareReboot = {TRUE}
  Timeouts = FALSE
  Signals = FALSE
  HostFaults = FALSE
  Outcomes = {"ok", "nomem"}
  ExitOnFailure = FALSE
INVARIANT ResponseIsOwn
CHECK_DEADLOCK FALSE
