----------------------- MODULE MCOwnedHaxeWaitServer -----------------------
EXTENDS OwnedHaxeWaitServer

CONSTANTS h0, h1, h2, d1, d2
MCHost == {h0, h1, h2}
MCDigest == {d1, d2}

\* One host asks for two digests and may start a second server.
MCAsks == [h \in MCHost |-> IF h = h1 THEN MCDigest ELSE {d1}]
MCMaxStarts == [h \in MCHost |-> IF h = h1 THEN 2 ELSE 1]
=============================================================================
