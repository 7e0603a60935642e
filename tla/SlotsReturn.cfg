CONSTANTS
  Conns = {c1, c2}
  MaxDown <- Limits
  MaxUp = 1
  LeaveFree = FALSE
  UsesLIST = TRUE
  SameSite = TRUE
SPECIFICATION Spec
INVARIANTS
  Books
PROPERTIES
  SlotsComeBack
