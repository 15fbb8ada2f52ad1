CONSTANTS
  FRAME_SIZE = 2
  MaxAddr = 31
  MAX_RESERVED_RANGES = 2
  MemoryMap <- MCMemoryMap
  Reservable <- MCUnalignedReservable
  NoFrame = NoFrame
  Scribble = Scribble
SPECIFICATION FrameSpec
INVARIANT
  ReservedNeverAllocated
