----------------------------- MODULE MCClients ------------------------------
EXTENDS CUDASanitizerClients

CONSTANTS t1, t2

MCThreads  == {t1, t2}
MCSizes    == {1}
MCRedzones == {1}
MCPointers == 0 .. 4
MCAccesses == {0, 1, 2}

=============================================================================
