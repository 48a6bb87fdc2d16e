SPECIFICATION Spec
CONSTANTS
  HISTORY_CAPACITY = 2
  Words <- MCWords
  Numbers = {"7"}
  Controls <- MCControls
  White <- MCWhite
  Bursts <- MCBursts
  MAX_BURSTS = 5
  MAX_LINE = 7
INVARIANTS
  ScreenShowsLine
  TypedLineComesBack
  HistoryIsKept
  RunsAsTyped
CHECK_DEADLOCK FALSE
