------------------------- MODULE MCToolingRelease -------------------------
\* Two of the four reviewed files: one is compared, uploaded or changed before
\* the other.
EXTENDS ToolingRelease

CONSTANTS archive, receipt

MCReviewed == {archive, receipt}
=============================================================================
