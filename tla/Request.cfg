SPECIFICATION CommandsSpec
CONSTANTS
  h1 = h1
  h2 = h2
  Ids = {1, 2, 3, 4}
  Handlers = {h1, h2}
  MaxSize = 6
  NBuffers = 2
  XRP_DSP_CMD_INLINE_BUFFER_COUNT = 1
  MAX_STACK_BUFFERS = 1
  Inputs <- MCInputs
  Frames <- MCFrames
  Pool <- MCPool
  AddressMap <- MCAddressMap
  KernelFrames <- MCKernelFrames
  Layouts <- MCLayouts
INVARIANTS TypeOK ReferencesReturned UninitialisedOnlyIfMapFailed  RestIsKept  WritesAreShared TableIsMap RegisteredIsCalled
PROPERTY StatusIsHonest
CHECK_DEADLOCK FALSE
