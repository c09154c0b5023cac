SPECIFICATION Spec
CONSTANTS
  t1 = t1
  NoThread = NoThread
  Threads <- MCThreads
  Sizes <- MCSizes
  Redzones <- MCRedzones
  Pointers <- MCPointers
  Accesses <- MCAccesses
  HeapTop = 4
  SizeMod = 8
INVARIANT
  CheckBoundsSound
