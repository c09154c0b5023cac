SPECIFICATION CampaignSpec
CONSTANTS
  Files <- MCFiles
  Sizes = {7, 10, 45, 83, 84}
  Lengths = {0, 2, 38, 74, 90}
  Ends = {0, 1, 2, 100, 256}
  MaxHeader = 80
  EntryText = 36
  SizeMod = 256
  MaxSizes = {7, 40, 80, 100}
  BigOffset = 150
INVARIANTS
  RangesInFile
  SuccessComplete
  MutantsRefused
PROPERTIES
  RevalidateStable
