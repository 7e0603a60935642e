SPECIFICATION BrowseSpec
CONSTANTS BPath = {p, q}
          BName = {a}
          SplitPath = {p}
          MaxRequests = 3
          MaxSplitRequests = 1
INVARIANTS
  BrowseInv
PROPERTIES
  DeletedIsAsked
CHECK_DEADLOCK FALSE
