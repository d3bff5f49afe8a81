------------------------ MODULE MCArtifactTransaction ------------------------
\* A plan of three transitions: two artifacts and the commit marker.  The first
\* generation creates, the second updates one file and removes the other, the
\* third creates it again and leaves one file alone.
EXTENDS ArtifactTransactionSafety

CONSTANTS c1, c2, c3

MCTree(a, b, m) == <<a, b, m>>

Gen0 == MCTree(Absent, Absent, Absent)
Gen1 == MCTree(c1, c1, c1)
Gen2 == MCTree(c2, Absent, c2)
Gen3 == MCTree(c2, c1, c3)

MCContent == {c1, c2, c3}
MCPlans == {[prior |-> Gen0, next |-> Gen1], [prior |-> Gen1, next |-> Gen2],
            [prior |-> Gen2, next |-> Gen3]}
MCInitialTree == Gen0
==============================================================================
