SPECIFICATION Spec
CONSTANTS
  Requests = {r1, r2}
  HostIrq = "edge"
  DevIrq = "edge"
  SharedIrq = FALSE
  MaxCompletions = 0
  CanHalt = TRUE
  HasFirmware = TRUE
  FirmwareReboot = {TRUE}
  Timeouts = FALSE
  Signals = TRUE
  HostFaults = FALSE
  Outcomes = {"ok"}
  ExitOnFailure = FALSE
INVARIANT NoUseAfterUnmap
CHECK_DEADLOCK FALSE
