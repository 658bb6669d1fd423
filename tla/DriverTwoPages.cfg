SPECIFICATION Spec
CONSTANTS
  PAGE_SIZE = 4
  WORD = 2
  Width = 128
  Phys <- MCPhys
  SysMem <- MCSysMem
  Devices = {d1}
  Files = {f1}
  Boards <- MCBoardsTwoPages
  Machines <- MCMachines
  MaxHandles = 2
  MaxLost = 1
  MaxNodeId = 2
INVARIANT BootedIsImage
