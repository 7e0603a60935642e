SPECIFICATION MCSpec
CONSTANTS
  Race = {"r1", "r2"}
  Ask <- MCAsk
  MaxFlight = 1
  Site = {"a", "b", "c"}
  Timed = {"b"}
  Affil = {"c"}
  Upload = {"a", "b", "c"}
  MaxHistory = 1
  MaxPrepared = 1
  ExpiryTime = 0
  SoftChecks = 0
  HardChecks = 2
  EmptyDirs = TRUE
  Key <- MCKey
  MaxScore = 1
  RESIZE_CHUNK = 1
  Capacity = 3
INVARIANTS
  SpreadInv
  ContainerInv
PROPERTIES
  QuietJobEnds
  SortSorts
  ImplementsTable
CHECK_DEADLOCK FALSE
