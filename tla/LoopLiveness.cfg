CONSTANTS
  Socks = {s1, s2}
  NumSlots = 0
  Posters = {}
  OverloadSize = 3
  ReadySize = 1
  DirectDelete = TRUE
  KeepsUp = TRUE
  MaxQueue = 3
  MaxTasks = 0
SPECIFICATION FairSpec
PROPERTIES
  PausedIsResumed
  IoComesBack
