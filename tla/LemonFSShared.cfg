SPECIFICATION ResumeSpec
CONSTANTS
  BLOCK_SIZE = 9
  INODE_BLOCKS = 2
  MAX_INODES = 3
  DATA_BLOCKS = 3
  nameA = nameA
  nameB = nameB
  Dot = Dot
  DotDot = DotDot
  LongNames = {}
  Paths <- RootPaths
  Writes <- MCWrites
CHECK_DEADLOCK FALSE
INVARIANT BlockInOneFile
