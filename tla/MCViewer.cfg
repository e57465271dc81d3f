SPECIFICATION Spec
CONSTANTS
  Cap = 1
  Pages <- MCPages
  Keys = {"q", "tab", "other"}
  MaxKeys = 2
  MaxResizes = 1
  MaxTicks = 2
  MaxFailures = 1
INVARIANTS FramesInOrder SavedOnExit
PROPERTIES ShutsDown KeysHandled
CHECK_DEADLOCK FALSE
