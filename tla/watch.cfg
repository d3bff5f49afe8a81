SPECIFICATION FairWatchSpec
CONSTANTS
  Path <- MCPath
  Dir <- MCDir
  Home <- MCHome
  Root = "project"
  MaxEdits = 2
  MaxErrors = 2
CHECK_DEADLOCK FALSE
INVARIANT AnswerIsCurrent
PROPERTY ChangeReachesHost
