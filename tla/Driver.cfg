SPECIFICATION Spec
CONSTANTS
  PAGE_SIZE = 4
  WORD = 2
  Width = 128
  Phys <- MCPhys
  SysMem <- MCSysMem
  Devices = {d1, d2}
  Files = {f1, f2}
  Boards <- MCBoards
  Machines <- MCMachines
  MaxHandles = 2
  MaxLost = 1
  MaxNodeId = 2
SYMMETRY MCSymmetry
INVARIANTS  UsageCounted PowerFollowsUse BootedIsImage
 
