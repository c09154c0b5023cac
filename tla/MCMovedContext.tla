--------------------------- MODULE MCMovedContext ---------------------------
EXTENDS AdapterRuntime

CONSTANTS c1, c2, x1, b1

MCContexts   == {c1, c2}
MCTensors    == {x1}
MCBlocks     == {b1}
MCShapes     == {<< 2, 2 >>}
MCGeometries == {<< 1, 1, 1 >>}
MCParams     == {<< 1, 1, 1, 2 >>}
MCBases      == {2, 14}

=============================================================================
