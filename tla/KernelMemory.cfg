SPECIFICATION BootSpec
CONSTANTS
  PAGE_SIZE = 4
  USIZE_MAX = 255
  BITS_PER_WORD = 3
  ENTRIES = 4
  upper_half_offset = 192
  Machines <- MCMachines
  Usable <- MCUsable
  FreeArgs = {0, 4, 5, 8, 12, 14, 16, 20, 24, 28}
CHECK_DEADLOCK FALSE
INVARIANTS BitsMatchHeld ManagesWhatIsLeft MapsWhatIsWanted TablesOwnTheirFrames NeverMappedTwice
PROPERTY FreshFrames
