------------------------------- MODULE MCONNX -------------------------------
EXTENDS ONNXParser

CONSTANTS SomeBytes, MaxLen

\* Every short sequence of the given bytes, and longer ones: a 64-bit and a
\* 32-bit field, whole and one byte short, and messages of several fields.
MCBuffers ==
  UNION {[1 .. n -> SomeBytes] : n \in 0 .. MaxLen}
    \cup {<< 9, 0, 0, 0, 0, 0, 0, 0, 0 >>, << 9, 0, 0, 0, 0, 0, 0, 0 >>,
          << 13, 0, 0, 0, 0, 58, 0 >>, << 13, 0, 0, 0 >>,
          << 58, 0, 58, 0 >>, << 58, 1, 58, 58, 0 >>, << 58, 2, 58, 0, 8, 3 >>,
          << 18, 1, 8, 26, 1, 8, 8, 1, 8, 136, 1 >>, << 34, 2, 8, 1, 58, 0, 8, 8 >>}

=============================================================================
