CONSTANTS
  Host = Host
  Align = 2
  A = A
  B = B
  NL = 4
  Graphs <- MCGraphs
  Devices = {A, B}
  Pinned = {A}
  Ordered = {A}
  MaxEpoch = 2
SPECIFICATION Spec
INVARIANTS
  TypeOK
  FreshReads
  OutputFresh
  SyncPinned
  AllRelayed
  PackLowest
CHECK_DEADLOCK FALSE
