SPECIFICATION Spec
CONSTANTS
  e1 = e1
  e2 = e2
  Producers <- MCThreads
  Threads <- MCThreads
  Requests <- MCRequests
  Cap = 2
  MaxPush = 3
  MaxItems = 2
  NoRequest = NoRequest
  Nobody = Nobody
INVARIANT
  FailureWakes
\* A thread may sleep for good.
CHECK_DEADLOCK FALSE
