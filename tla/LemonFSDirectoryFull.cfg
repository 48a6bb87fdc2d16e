SPECIFICATION TreeSpec
CONSTANTS
  BLOCK_SIZE = 9
  INODE_BLOCKS = 2
  MAX_INODES = 5
  DATA_BLOCKS = 4
  nameA = nameA
  nameB = nameB
  nameC = nameC
  longName = longName
  Dot = Dot
  DotDot = DotDot
  LongNames = {longName}
  Paths <- GapPaths
  Writes <- FilesWrites
CHECK_DEADLOCK FALSE
INVARIANT CreateNeverPanics
