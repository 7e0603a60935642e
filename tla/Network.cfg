SPECIFICATION NetworkSpec
CONSTANTS
  MaxConnectors = 3
  MaxLogins = 2
  MaxQueue = 2
  WelcomeTicks = 1
  Sites <- MCSites
  MaxSends = 3
  MaxPauses = 3
  Signals = {winch, chld}
  NumSlots = 10
  Name <- MCNames
  LowerOf <- MCLower
  Similar = {"a"}
  Size = {0, 1}
  MAX_LIST_FAILURES_BEFORE_STATE_FAILED = 2
INVARIANTS
  ConnectInv
  SocketInv
  SignalsAccounted
  FileListInv
PROPERTIES
  ChangeMarked
CHECK_DEADLOCK FALSE
