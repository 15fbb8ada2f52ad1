CONSTANTS
  MIN_ORDER = 1
  MAX_ORDER = 3
  MAX_ZONES = 3
  NODE_SIZE = 1
  Heaps <- MCHeaps
  Layouts <- MCLayouts
  NoBlock = NoBlock
SPECIFICATION BuddySpec
INVARIANTS
  ZonesPartitioned
  FullyCoalesced
  ZonesTileHeap
PROPERTY
  ImplementsHeap
