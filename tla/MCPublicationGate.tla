-------------------------- MODULE MCPublicationGate --------------------------
\* Three readers and three publications of one gate.
EXTENDS PublicationGate, TLC

CONSTANTS r1, r2, r3, w1, w2, w3

MCReader == {r1, r2, r3}
MCWriter == {w1, w2, w3}
==============================================================================
