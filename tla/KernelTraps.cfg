SPECIFICATION TrapSpec
CONSTANTS
  LINE = 2
  EARLY = 2
  MAX_COMMANDS = 3
  MAX_LOST = 1
  Commands <- ShellCommands
INVARIANTS
  PromptIsClean
  LogIsComplete
PROPERTIES
  RefinesUninterrupted
  KeepsGoing
  TicksGoOn
CHECK_DEADLOCK FALSE
