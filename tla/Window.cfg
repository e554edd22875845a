SPECIFICATION Spec
CONSTANTS
  Width = 4
  Height = 3
  FbWidth = 5
  MaxWindows = 3
  None = None
INVARIANT TopWindowShown
CHECK_DEADLOCK FALSE
