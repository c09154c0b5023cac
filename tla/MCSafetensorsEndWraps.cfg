SPECIFICATION CampaignSpec
CONSTANTS
  Files <- MCFiles
  Sizes = {8, 82, 83, 84}
  Lengths = {38, 74}
  Ends = {0, 1, 200}
  MaxHeader = 80
  EntryText = 36
  SizeMod = 256
  MaxSizes = {7, 40, 80, 100}
  BigOffset = 150
INVARIANTS
  RangesInFile
