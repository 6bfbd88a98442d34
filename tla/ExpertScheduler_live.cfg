CONSTANTS
  NLayer = 2
  NExpert = 2
  RamSlots = {r1, r2}
  DevSlots = {d1}
  Elems = {x1}
  NSlices = 2
  ReadErrors = TRUE
  SubmitErrors = TRUE
  None = None
SPECIFICATION FairSpec
PROPERTIES
  PinLayerReturns
CHECK_DEADLOCK TRUE
