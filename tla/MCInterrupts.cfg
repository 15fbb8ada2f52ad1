CONSTANTS
  Scancodes = {"prefix", "char", "toggle", "print", "bp", "analyze", "alloc", "run", "panic", "reboot"}
  ROWS = 3
  MaxKeys = 2
SPECIFICATION FairSpec
INVARIANTS
  StuckOnlyWhileStarting
  LostOnlyWhileMarking
PROPERTIES
  KeysGetThrough
CHECK_DEADLOCK FALSE
