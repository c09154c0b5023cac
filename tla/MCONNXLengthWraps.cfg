SPECIFICATION FairSpec
CONSTANTS
  Buffers <- MCBuffers
  SomeBytes = {0, 7, 34, 251}
  MaxLen = 5
  SizeMod = 1024
  FieldMod = 32
  MaxGroups = 2
  MaxString = 1
  MaxNodes = 1
PROPERTIES
  ParseEnds
