CONSTANTS
  Files = {f1, f2}
  Goal <- MCGoal
  DiskSizes = {6, 16, 20, 25}
  BPG = 10
  IPB = 4
  DPB = 4
  INODE_RATIO = 8
  MIN_INODES = 4
  MIN_IPG = 2
  MIN_TOTAL = 6
  MIN_TRAILING = 1
  MIN_FIRST = 2
  PPB = 2
  NDIRECT = 1
  MAX_FILE_SIZE = 16
  Data <- MCData
  Offsets = {0, 5, 13}
  Sizes = {2, 7}
  MaxOps = 4
SPECIFICATION BlocksSpec
INVARIANTS
  BlocksOwnedOnce
  CountersAgree
  NothingPastEnd
PROPERTIES
  ImplementsStore
CHECK_DEADLOCK FALSE
