CONSTANTS
  SECTORS = 3
  Data = {1, 2}
  MAX_SECTORS_PER_CMD = 2
  LBA48 = TRUE
  Requests <- MCRequests
  NoData = 0
SPECIFICATION FairSpec
PROPERTIES
  ImplementsBlocks
  RequestsEnd
