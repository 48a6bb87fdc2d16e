SPECIFICATION FairSpec
CONSTANTS
  BITS_PER_BLOCK = 6
  BITS_PER_WORD = 3
  INODES_PER_BLOCK = 3
  MAX_INODES = 11
  Sizes <- MCSizes
INVARIANTS TypeOK RegionsFit MountsWhatWasFormatted
PROPERTY SearchEndsUnlessItAlternates
