CONSTANTS
  QUEUE_SIZE = 4
  IDX_MOD = 8
  Patience = 3
  Frames = {"frame1", "frame2"}
  Late = TRUE
SPECIFICATION GpuSpec
PROPERTIES
  WaitsForResponse
CHECK_DEADLOCK FALSE
