-------------------------- MODULE MCCUDASanitizer ---------------------------
EXTENDS CUDASanitizerInv, TLC

CONSTANTS t1, t2

MCThreads  == {t1, t2}
MCSizes    == {1, 2}
MCRedzones == {0, 1}
MCPointers == 0 .. 4
MCAccesses == {0, 1, 2}
Symmetry   == Permutations(MCThreads)

=============================================================================
