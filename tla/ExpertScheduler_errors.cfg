CONSTANTS
  NLayer = 2
  NExpert = 2
  RamSlots = {r1, r2}
  DevSlots = {d1}
  Elems = {x1, x2}
  NSlices = 1
  ReadErrors = TRUE
  SubmitErrors = TRUE
  None = None
SPECIFICATION Spec
SYMMETRY Symmetry
INVARIANTS
  TypeOK
  OneCopyOneSlot
  EverySlotComesBack
  ReadyIsResident
  RequestAccounted
  RefcountExact
  ComputeHoldsLayer
PROPERTIES
  NoSlotOnlyBehindTransfer
  PinnedSlotKept
  PinServiceSpec
CHECK_DEADLOCK TRUE
