SPECIFICATION ServicesSpec
CONSTANTS
  RestSites = {s1}
  MaxConns = 2
  MaxClients = 2
  MaxRequests = 3
  MaxTimeout = 1
  MaxBlocks = 2
  AsyncRaw = FALSE
  File = {"h", "g", "i", "n"}
  Where <- MCWhere
  Deny = {"n"}
  MaxSlots = 3
  MAX_TRANSFER_ATTEMPTS_BEFORE_SKIP = 2
  MaxUser = 2
  SiteNames = {"A", "B"}
  SectionNames = {"S", "T"}
  Given <- GivenPaths
  Bytes = {0, 19, 20}
INVARIANTS
  RestInv
  JobInv
  InterfacesAgree
PROPERTIES
  DoneMeansDelivered
CHECK_DEADLOCK FALSE
