CONSTANTS
  COLUMNS = 4
  ROWS = 2
  CHAR_HEIGHT = 2
  EXTRA = 1
  RING = 4
  TAB_SIZE = 2
  INPUT_SIZE = 4
  SCROLL_LINES = 1
  Keys = {"k"}
  Outputs <- MCOutputs
  MaxSteps = 6
SPECIFICATION Spec
INVARIANTS
  ScreenShowsViewport
  HistoryExact
  InputIsWhatIsShown
CHECK_DEADLOCK FALSE
