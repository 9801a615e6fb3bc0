CONSTANTS
  TOTAL = 11
  INFO_PAGES = 1
  PROCS_MAX = 3
  KnownMemories = {"framebuffer"}
  AllocSizes = {1, 2}
  QUEUE_SIZE = 4
  IDX_MOD = 8
  KEYBOARD_EVENT_BUFFERS = 3
  Keys = {"a"}
  ModifierKeys = {"left_shift", "right_shift"}
  ModifierOf <- MCModifierOf
  Patience = 3
  Frames = {"frame1", "frame2"}
  Late = FALSE
  capacity_sectors = 2
  Contents = {"c1", "c2"}
  Counts = {1, 2}
  MAX_OPEN_HANDLES = 2
  Names = {a, b}
  MaxDepth = 2
  Spellings = {"short"}
  FlagSets <- MCFlagSets
  Cells = {1}
  MaxSize = 1
  MaxInodes = 3
  MaxHandleId = 2
SYMMETRY Symmetry
SPECIFICATION MCSpec
INVARIANTS
  PagesAccounted
  KnownMemoryExclusive
  EventBuffersAccounted
  FlushShowsTheFrame
  TransfersAreWhole
  DirectoriesSound
  HandlesNameTheirFile
PROPERTIES
  PagesChangeHandsCleared
  KeyboardImplementsStream
  ImplementsTree
CHECK_DEADLOCK FALSE
