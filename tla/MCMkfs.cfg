SPECIFICATION MkfsSpec
CONSTANTS
  BLOCK_SIZE = 9
  INODE_BLOCKS = 2
  MAX_INODES = 4
  DATA_BLOCKS = 4
  nameA = nameA
  nameB = nameB
  nameC = nameC
  longName = longName
  badName = badName
  Dot = Dot
  DotDot = DotDot
  LongNames = {longName}
  BadNames = {badName}
  Builds = {b1, b2}
  Pids = {pid1, pid2}
  ATTEMPTS = 2
  CommandLines <- MCCommandLines
  HostDirs <- MCHostDirs
  Trees <- MCTrees
  Edits <- MCEdits
  NameOrder <- MCNames
  IoFails = TRUE
SYMMETRY MCSymmetry
CHECK_DEADLOCK FALSE
INVARIANTS OutputIsWhole FailureKeepsOutput NoImageForgotten BuildsWhatFits
