CONSTANTS
  Conns = {c1, c2, c3}
  MaxDown <- Limits
  MaxUp = 1
  LeaveFree = TRUE
  UsesLIST = FALSE
  SameSite = FALSE
SYMMETRY Symmetry
SPECIFICATION Spec
INVARIANTS
  SlotLimitsKept
  SlotsExact
  SlotPromise
  SlotsNoAssert
