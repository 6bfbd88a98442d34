CONSTANTS
  Host = Host
  Align = 2
  A = A
  B = B
  NL = 3
  Graphs <- MCGraphs
  Devices = {A, B}
  Pinned = {A}
  Ordered = {}
  MaxEpoch = 2
SPECIFICATION Spec
INVARIANTS
  FreshReads
CHECK_DEADLOCK FALSE
