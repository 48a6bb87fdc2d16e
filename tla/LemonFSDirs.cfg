SPECIFICATION TreeSpec
CONSTANTS
  BLOCK_SIZE = 6
  INODE_BLOCKS = 2
  MAX_INODES = 3
  DATA_BLOCKS = 3
  nameA = nameA
  nameB = nameB
  nameC = nameC
  longName = longName
  Dot = Dot
  DotDot = DotDot
  LongNames = {longName}
  Paths <- DirsPaths
  Writes <- DirsWrites
CHECK_DEADLOCK FALSE
VIEW MCView
INVARIANTS INodesLinkedOnce SlotsMatchSize
PROPERTY RefinesFileTree
