SPECIFICATION FairSpec
CONSTANTS
  r1 = r1
  r2 = r2
  r3 = r3
  w1 = w1
  w2 = w2
  w3 = w3
  Reader <- MCReader
  Writer <- MCWriter
CHECK_DEADLOCK FALSE
INVARIANT ReadersExcludeWriter
PROPERTY WaiterIsAnswered
