SPECIFICATION CampaignSpec
CONSTANTS
  BufferSizes <- MCBufferSizes
  Versions = {0, 3, 4}
  Counts = {0, 1, 2, 3}
  StringLengths = {0, 1, 9}
  ValueTypes = {0, 2, 4, 8, 9, 10, 13}
  Keys = {"general.name", "general.alignment"}
  Shapes <- MCShapes
  Offsets = {0, 5}
  MaxMetadata = 2
  MaxTensors = 2
  MaxString = 8
  MaxDims = 2
  SizeMod = 256
  Seeds <- MCSeeds
  MaxSizes = {7, 28, 100}
INVARIANTS
  CursorInBuffer
  SuccessComplete
  SizesExact
  MutantsRefused
PROPERTIES
  ParseEnds
  InputsReturn
