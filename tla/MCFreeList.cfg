SPECIFICATION Spec
CONSTANTS
  HeapStart = 5
  HeapEnd = 229
  Layouts <- MCLayouts
INVARIANTS
  TypeOK
  SortedAndCoalesced
  NoOverlap
  HeapIsTiled
  HeadersFit
  PayloadFits
  IdleHeapIsWhole
  UsedIsLive
