------------------------- MODULE MCCodeWalkParallel -------------------------
EXTENDS CodeWalkParallel, MCCodeTree
=============================================================================
