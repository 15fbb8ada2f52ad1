CONSTANTS
  a = a
  b = b
  Names <- MCNames
  Targets <- MCTargets
  Typed <- MCTyped
  NINODES = 5
  NBLOCKS = 5
  PER_BLOCK = 3
  NDIRECT = 1
  MAX_LINKS = 4
  MAX_SYMLOOP = 2
SPECIFICATION TreeSpec
INVARIANTS
  EntriesLive
  LinksExact
  TreeIntact
  CountersTrue
  TextualPathsRight
PROPERTIES
  LastNameFrees
CHECK_DEADLOCK FALSE
