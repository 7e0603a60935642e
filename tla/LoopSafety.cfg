CONSTANTS
  Socks = {s1}
  NumSlots = 1
  Posters = {t1}
  OverloadSize = 3
  ReadySize = 1
  DirectDelete = FALSE
  KeepsUp = FALSE
  MaxQueue = 3
  MaxTasks = 1
SPECIFICATION Spec
INVARIANTS
  EventsAccounted
  PauseRemembered
  ExternalHandshake
  FlushFindsNothing
