SPECIFICATION FairSpec
CONSTANTS
  a = a
  b = b
  c = c
  k1 = k1
  k2 = k2
  k3 = k3
  Request <- MCRequest
  Client <- MCClient
  Debounce = 2
CHECK_DEADLOCK FALSE
INVARIANTS EveryRequestAccounted
PROPERTIES EveryRequestRuns EveryCallReturns
