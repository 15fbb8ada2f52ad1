CONSTANTS
  FRAME_SIZE = 2
  MaxAddr = 31
  MAX_RESERVED_RANGES = 0
  MemoryMap <- MCMemoryMap
  Reservable = {}
  NoFrame = NoFrame
  Scribble = Scribble
  FrameCount = 8
  PAGE_SIZE = 2
  USER_MAX = 16
  HEAP_BASE = 4
  MMAP_BASE = 8
  KernelHeap <- MCKernelHeap
  Tables = {0, 1, 2, 3}
  TablesOf <- MCTablesOf
  Programs <- MCPrograms
  BrkArgs = {3, 5, 7}
  MapAddrs = {3, 11, 15}
  Lengths = {2, 3}
  Protections <- MCProtections
  MmapLimit = 18
  NoBrk = NoBrk
SPECIFICATION FairSpaceSpec
INVARIANTS
  FramesAccounted
  ProcessPagesExact
PROPERTIES
  KernelHeapStable
  GrownBreakIsBacked
  FrameSpec
  CleanupReclaims
  KernelReturns
CHECK_DEADLOCK FALSE
