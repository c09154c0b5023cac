SPECIFICATION Spec
CONSTANTS
  t1 = t1
  t2 = t2
  NoThread = NoThread
  Threads <- MCThreads
  Sizes <- MCSizes
  Redzones <- MCRedzones
  Pointers <- MCPointers
  Accesses <- MCAccesses
  HeapTop = 4
  SizeMod = 8
SYMMETRY Symmetry
INVARIANTS
  IInv
  OneHolder
  CudaFreeOfLive
  TotalBytesExact
  CheckBoundsExact
PROPERTIES
  ImplementsLedger
