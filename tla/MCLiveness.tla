----------------------------- MODULE MCLiveness -----------------------------
EXTENDS CUDASanitizer

CONSTANTS t1, t2

MCThreads  == {t1, t2}
MCSizes    == {1}
MCRedzones == {0}
MCPointers == {0, 1, 2}
MCAccesses == {0, 1}

=============================================================================
