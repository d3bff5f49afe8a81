------------------------ MODULE MCSerializedDirtyLoop ------------------------
\* Three requests and three callers, each of which waits or closes.
EXTENDS SerializedDirtyLoop

CONSTANTS a, b, c, k1, k2, k3

MCRequest == {a, b, c}
MCClient  == {k1, k2, k3}
==============================================================================
