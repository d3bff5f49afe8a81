SPECIFICATION Spec
CONSTANTS
  Owner = {1, 2}
  Path = {11, 12}
  Version = {1, 2}
  MaxCrashes = 1
  MaxFaults = 1
INVARIANTS NothingIsOrphaned NewManifestIsComplete
PROPERTIES CommitIsComplete FailureRestores
