CONSTANTS
  FRAME_SIZE = 2
  MaxAddr = 31
  MAX_RESERVED_RANGES = 2
  MemoryMap <- MCMemoryMap
  Reservable <- MCReservable
  NoFrame = NoFrame
  Scribble = Scribble
SPECIFICATION FrameSpec
INVARIANTS
  NoDoubleAllocation
  FreeListIntact
  OnlyUsableFrames
  NoneMeansExhausted
PROPERTY
  ScanMatchesLoop
