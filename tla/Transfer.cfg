CONSTANTS
  Modes <- SafeModes
  MaxTime = TRUE
SPECIFICATION Spec
INVARIANTS
  TransferInv
  NoAssertFails
  NoSilentWait
  Verdict
PROPERTIES
  EventuallyIdle
