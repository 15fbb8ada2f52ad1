CONSTANTS
  p = p
  q = q
  Paths <- MCPaths
  Disks <- MCDisks
  Data <- MCData
  OpenFlags <- MCFlags
  Fds = {0, 3, 4}
  MaxFds = 5
  MaxSize = 2
  MaxFiles = 4
  MaxSteps = 6
SPECIFICATION Spec
INVARIANTS
  PathsStayTrue
  ListingComplete
PROPERTIES
  AppendsKeep
CHECK_DEADLOCK FALSE
