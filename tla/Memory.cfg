SPECIFICATION MemorySpec
CONSTANTS
  PAGE_SIZE = 2
  Start = 1
  PoolSize = 10
  Width = 32
  PhysWidth = 64
  Sizes = {1, 3}
  Aligns = {1, 4}
  Threads = {t1, t2}
  Files = {f1}
  Addrs = {a1, a2}
  Requests = {r1}
SYMMETRY MCSymmetry
INVARIANTS HoldersCounted PoolIsWhole Partition FreeListIsFixed
PROPERTIES AllocIsFirstFit 
