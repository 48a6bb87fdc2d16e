SPECIFICATION CrashSpec
CONSTANTS
  BLOCK_SIZE = 9
  INODE_BLOCKS = 2
  MAX_INODES = 4
  DATA_BLOCKS = 3
  nameA = nameA
  nameB = nameB
  Dot = Dot
  DotDot = DotDot
  LongNames = {}
  Paths <- MCPaths
  Writes <- MCWrites
CHECK_DEADLOCK FALSE
VIEW MCView
INVARIANTS FlushedDataSurvives RemoveLosesOneEntry
