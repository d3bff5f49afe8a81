SPECIFICATION PlanSpec
CONSTANTS
  Edge <- MCEdge
  Names <- MCNames
  Globals <- MCGlobals
  None = None
  MaxEdges = 4
CHECK_DEADLOCK FALSE
INVARIANTS MentionsReachTheirExport RequestsInEncounterOrder EveryBindingDeclaredOnce
