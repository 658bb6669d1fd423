SPECIFICATION FairSpec
CONSTANTS
  Devices = {d1, d2}
  AppThreads = {a1}
  Requests = {r1, r2}
  Host = {h}
  Device = {v}
  Big = {r2}
  Unknown = {r2}
  WithGroup = {r1}
  On <- MCOn
  Access <- MCAccess
  d1 = d1
  d2 = d2
  r1 = r1
  r2 = r2
  h = h
  v = v
  Inline = 0
  Pool = 4
  MaxGroup = 1
  MaxHolds = 1
  MaxMaps <- MCMaxMaps
INVARIANTS  HeldBuffersLive
PROPERTIES  EveryCommandCompletes
CHECK_DEADLOCK FALSE
