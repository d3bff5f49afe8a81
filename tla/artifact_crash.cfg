SPECIFICATION FairSpec
CONSTANTS
  Last = 3
  c1 = c1
  c2 = c2
  c3 = c3
  Absent = Absent
  Foreign = Foreign
  Content <- MCContent
  Plans <- MCPlans
  InitialTree <- MCInitialTree
  MaxTxns = 3
  MaxCrashes = 3
  MaxFaults = 2
  MaxEdits = 0
CHECK_DEADLOCK FALSE
INVARIANTS PriorRecoverable MarkerNamesCompleteTree
PROPERTIES AnswerMatchesTree ImplementsAtomicTree JournalResolves
