SPECIFICATION FairSpec
CONSTANTS
  Buffers <- MCBuffers
  SomeBytes = {0, 1, 3, 8, 18, 26, 34, 58, 136}
  MaxLen = 3
  SizeMod = 1024
  FieldMod = 32
  MaxGroups = 2
  MaxString = 1
  MaxNodes = 1
INVARIANTS
  CursorInBuffer
  DecodesWireFormat
  SuccessReadsAll
PROPERTIES
  ParseEnds
