CONSTANTS
  Modes <- EarlyUploadModes
  MaxTime = TRUE
SPECIFICATION Spec
INVARIANTS
  NoAssertFails
