SPECIFICATION FairSpec
CONSTANTS
  Digest = {d1, d2}
  MaxBuilds = 3
  MaxCrashes = 3
INVARIANTS OneEntryPerRoot ResumesAccepted
 
