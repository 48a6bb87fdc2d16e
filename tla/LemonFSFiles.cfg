SPECIFICATION TreeSpec
CONSTANTS
  BLOCK_SIZE = 9
  INODE_BLOCKS = 2
  MAX_INODES = 4
  DATA_BLOCKS = 3
  nameA = nameA
  nameB = nameB
  nameC = nameC
  longName = longName
  Dot = Dot
  DotDot = DotDot
  LongNames = {longName}
  Paths <- FilesPaths
  Writes <- FilesWrites
CHECK_DEADLOCK FALSE
VIEW MCView
INVARIANTS TypeOK BlocksOwnedOnce CacheCoherent
PROPERTY RefinesFileTree
