CONSTANTS
  RangeThreshold = 2
  Concurrency = 3
  MaxByte = 14
SPECIFICATION FairSplitSpec
INVARIANTS
  Tiles
  NoSmallPiece
PROPERTIES
  ReturnsRanges
