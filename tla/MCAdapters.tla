----------------------------- MODULE MCAdapters -----------------------------
EXTENDS AdapterRuntimeInv, TLC

CONSTANTS c1, c2, x1, x2, b1

MCContexts   == {c1, c2}
MCTensors    == {x1, x2}
MCBlocks     == {b1}
MCShapes     == {<< 1 >>, << 2, 0, 2 >>, << 8, 8 >>}
MCElements   == {0, 1}
MCOffsets    == {0, 1, 12, 52, 63}
MCLengths    == {0, 1, 4, 8, 13, 52, 63}
MCGeometries == {<< 2, 1, 1 >>, << 0, 1, 1 >>}
MCTokens     == 0 .. 3
MCParams     == {<< 1, 1, 1, 2 >>, << 1, 1, 0, 2 >>, << 0, 1, 1, 2 >>, << 9, 9, 1, 2 >>}
MCPrompts    == {<< 1 >>, << 1, 0 >>, << -1 >>, << 2 >>}
MCBases      == {2, 14}
Symmetry     == Permutations(MCTensors) \cup Permutations(MCContexts)

=============================================================================
