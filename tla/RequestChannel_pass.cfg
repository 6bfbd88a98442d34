SPECIFICATION FairSpec
CONSTANTS
  e1 = e1
  e2 = e2
  Producers <- MCThreads
  Threads <- MCThreads
  Requests <- MCRequests
  Cap = 2
  MaxPush = 3
  MaxItems = 2
  NoRequest = NoRequest
  Nobody = Nobody
INVARIANTS
  TypeOK
  CellExclusive
  NoStoreAfterReturn
  ReturnSettled
PROPERTIES
  FifoSpec
  SettledReturns
\* The push bound is reached, and a thread whose wake was lost sleeps on.
CHECK_DEADLOCK FALSE
