----------------------------- MODULE MCWordEdge -----------------------------
(* Byte counts near the largest word: the sums of the code wrap around.     *)
EXTENDS CUDASanitizer

CONSTANTS t1

MCThreads  == {t1}
MCSizes    == {2}
MCRedzones == {0, 1}
MCPointers == 0 .. 7
MCAccesses == {1, 7}

=============================================================================
