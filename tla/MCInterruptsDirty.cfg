CONSTANTS
  Scancodes = {"char"}
  ROWS = 3
  MaxKeys = 1
SPECIFICATION Spec
INVARIANT
  CleanMeansShown
CHECK_DEADLOCK FALSE
