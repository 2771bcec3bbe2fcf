------------------------------- MODULE MCGcHeap -------------------------------
EXTENDS GcHeap

CONSTANTS s1, s2, g1

Symmetry == Permutations(Stack)
=============================================================================
