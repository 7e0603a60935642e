SPECIFICATION ScreensSpec
CONSTANTS
  Rows = {24, 30}
  LegendModes = {"DISABLED", "STATIC"}
  MaxDepth = 3
  MaxSites = 2
  SiteNames = {"A", "B"}
  SectionNames = {"S", "T"}
  SlotCounts = {1, 5}
  MaxKeys = 1
  Aspects = {"pairs", "sections", "slots"}
  Passphrase = {"k1", "k2"}
INVARIANTS
  UiInv
  ConfigInv
  SettingsInv
PROPERTIES
  ConfirmedIsAsked
CHECK_DEADLOCK FALSE
