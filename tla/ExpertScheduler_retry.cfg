CONSTANTS
  NLayer = 2
  NExpert = 2
  RamSlots = {r1, r2}
  DevSlots = {}
  Elems = {x1, x2}
  NSlices = 1
  ReadErrors = TRUE
  SubmitErrors = FALSE
  None = None
SPECIFICATION Spec
SYMMETRY Symmetry
INVARIANTS
  RetryHasRoom
CHECK_DEADLOCK TRUE
