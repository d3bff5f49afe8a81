------------------------- MODULE MCReconciledWatch -------------------------
EXTENDS ReconciledWatch

\* Two inputs in one directory and one in another.
MCPath == 1..3
MCHome == [p \in MCPath |-> IF p = 3 THEN "lib" ELSE "src"]
MCDir == {"src", "lib"}
=============================================================================
