--------------------------- MODULE MCLifetimeLock ---------------------------
\* Two processes of one entry and one of another output root of the project.
EXTENDS LifetimeLock

CONSTANTS p1, p2, p3, project, rootA, entryA, rootB, entryB

MCLockPath == {project, rootA, entryA, rootB, entryB}
ClaimsOf(p) == IF p = p3 THEN <<project, rootB, entryB>> ELSE <<project, rootA, entryA>>
MCClaims == [p \in Proc |-> ClaimsOf(p)]
=============================================================================
