CONSTANTS
  Sector = 4
  HeaderLen = 5
  MaxSubTensors = 16
  RingFloor = 2
  Scheds = {"main", "draft"}
  Converted = "main"
  Sources <- MCSources
  SourceOf <- MCSourceOf
  Formats <- MCFormats
  Pools <- MCPools
  MaskBits = 2
  MaxEvents = 2
  MaxSpent = 0
  None = None
SPECIFICATION DenseSpec
INVARIANTS
  EventHasOwner
CHECK_DEADLOCK TRUE
