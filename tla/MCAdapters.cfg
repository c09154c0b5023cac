SPECIFICATION RuntimeSpec
CONSTANTS
  c1 = c1
  c2 = c2
  x1 = x1
  x2 = x2
  b1 = b1
  Contexts <- MCContexts
  TensorIds <- MCTensors
  BlockIds <- MCBlocks
  Shapes <- MCShapes
  ElementSizes <- MCElements
  Offsets <- MCOffsets
  Lengths <- MCLengths
  Geometries <- MCGeometries
  Tokens <- MCTokens
  ContextParams <- MCParams
  Prompts <- MCPrompts
  Bases <- MCBases
  HeapTop = 20
  Redzone = 1
  SizeMod = 64
SYMMETRY Symmetry
INVARIANTS
  RuntimeInv
  RecordsBacked
  OneRecordPerRegion
  NothingElseLeaks
  ViewAccessSound
  TokenAccessSound
  TokensAddressable
  PromptFits
