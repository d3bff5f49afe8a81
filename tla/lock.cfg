SPECIFICATION FairSpec
CONSTANTS
  p1 = p1
  p2 = p2
  p3 = p3
  project = project
  rootA = rootA
  entryA = entryA
  rootB = rootB
  entryB = entryB
  Proc = {p1, p2, p3}
  LockPath <- MCLockPath
  Claims <- MCClaims
  Nobody = Nobody
  MaxCrashes = 2
  MaxFaults = 1
CHECK_DEADLOCK FALSE
INVARIANT SharedOnlyAfterRace
PROPERTY ReleaseKeepsReplacement
PROPERTY EveryStartIsAnswered
