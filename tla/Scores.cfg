SPECIFICATION MCSpec
CONSTANTS
  Site = {"A", "B"}
  File = {"f"}
  Settings <- MCSettings
  NoCompleteDown = {"A"}
  Denied = {}
  MaxPair = 2
  MaxAll = 2
  MaxFailures = 1
  MaxXfer = 1
INVARIANTS
  FailedInv
  Remembered
  OutdatedMarked
CHECK_DEADLOCK FALSE
