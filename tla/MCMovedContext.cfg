SPECIFICATION MovingSpec
CONSTANTS
  c1 = c1
  c2 = c2
  x1 = x1
  b1 = b1
  Contexts <- MCContexts
  TensorIds <- MCTensors
  BlockIds <- MCBlocks
  Shapes <- MCShapes
  ElementSizes = {1}
  Offsets = {}
  Lengths = {}
  Geometries <- MCGeometries
  Tokens = {}
  ContextParams <- MCParams
  Prompts = {}
  Bases <- MCBases
  HeapTop = 30
  Redzone = 1
  SizeMod = 64
INVARIANT
  ContextExclusive
