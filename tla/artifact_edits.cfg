SPECIFICATION Spec
CONSTANTS
  Last = 3
  c1 = c1
  c2 = c2
  c3 = c3
  Absent = Absent
  Foreign = Foreign
  Content <- MCContent
  Plans <- MCPlans
  InitialTree <- MCInitialTree
  MaxTxns = 2
  MaxCrashes = 1
  MaxFaults = 1
  MaxEdits = 1
CHECK_DEADLOCK FALSE
INVARIANTS LateEditNotAccepted
PROPERTIES OutsideBytesOnlyLostInWindow
