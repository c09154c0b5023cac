SPECIFICATION FairSpec
CONSTANTS
  t1 = t1
  t2 = t2
  NoThread = NoThread
  Threads <- MCThreads
  Sizes <- MCSizes
  Redzones <- MCRedzones
  Pointers <- MCPointers
  Accesses <- MCAccesses
  HeapTop = 2
  SizeMod = 4
PROPERTIES
  LockReleased
  CallsReturn
