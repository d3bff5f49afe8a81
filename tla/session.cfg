SPECIFICATION FairSpec
CONSTANTS
  Reader = {r1}
  Attempts = 2
  MaxEvents = 2
  MaxInvalid = 2
  MaxRevision = 12
CHECK_DEADLOCK FALSE
INVARIANT ReaderSeesItsGeneration
INVARIANT SettledIsCurrent
INVARIANT ClosedHoldsNothing
PROPERTY NothingStaleIsPublished
PROPERTY CloseReturns
PROPERTY ChangesArePublished
