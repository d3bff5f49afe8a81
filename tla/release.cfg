SPECIFICATION Spec
CONSTANTS
  archive = archive
  receipt = receipt
  Reviewed <- MCReviewed
  Extra = Extra
  Absent = Absent
  Other = Other
  None = None
  MaxMain = 2
  MaxFaults = 3
  MaxEdits = 2
  Attempts = 2
INVARIANTS SuccessIsExact OneSource PublishedIsReviewed
PROPERTIES ReleaseCompletes
