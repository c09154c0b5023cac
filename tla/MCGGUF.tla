------------------------------- MODULE MCGGUF -------------------------------
EXTENDS GGUFCampaign

MCBufferSizes == {3, 7, 15, 23, 24, 52, 100}
MCShapes      == {<< 63 >>, << 64 >>, << 16, 16 >>, << 0, 200 >>, << 1, 1, 1 >>}

Seed(size_, magic_, version_, tensors_, metadata_, first_) ==
  [size |-> size_, magic |-> magic_, version |-> version_, tensors |-> tensors_,
   metadata |-> metadata_, first |-> first_]
MCSeeds ==
  {Seed(n, TRUE, 3, t, m, 1) : n \in {7, 15, 30, 52, 100}, t, m \in {0, 1}}
    \cup {Seed(30, FALSE, 3, 0, 0, 0), Seed(100, TRUE, 4, 1, 1, 0)}

=============================================================================
