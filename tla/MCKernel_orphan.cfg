CONSTANTS
  PROCS_MAX = 4
  Platform = "wasm"
  Boot <- ThreeBoot
  Programs = {}
  Args = {0}
  Responses <- OneResponse
  FlagSets <- NoFlags
  Pages = {"nil"}
  NilPage = "nil"
  NullPage = "null"
  MaxPid = 4
  Targets = {2, 3}
  MAX_REGISTERED_APPS = 1
  GraphicsPlatform = "wasm"
  MaxApps = 1
SPECIFICATION MCSpec
INVARIANTS
  WaitersAreRegistered
CHECK_DEADLOCK FALSE
