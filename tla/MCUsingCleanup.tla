--------------------------- MODULE MCUsingCleanup ---------------------------
EXTENDS UsingCleanup

CONSTANTS f, g

Symmetry == Permutations(Names)
=============================================================================
