CONSTANTS
  PROCS_MAX = 3
  Platform = "wasm"
  Boot <- TwoBoot
  Programs <- OneProgram
  Args = {0}
  Responses <- OneResponse
  FlagSets <- NoFlags
  Pages = {"nil"}
  NilPage = "nil"
  NullPage = "null"
  MaxPid = 5
  Targets = {2, 3, 4}
  MAX_REGISTERED_APPS = 3
  GraphicsPlatform = "wasm"
  MaxApps = 4
SPECIFICATION MCSpec
INVARIANTS
  TypeOK
  PidsUnique
  QueueBounded
  QueueOnlyWhenLocked
  RunnerIsRunnable
  EndsWhenIdle
  RegistryConsistent
  LiveStayRegistered
PROPERTIES
  PidNeverReused
  
  KeepsTheScreen
  DeadAreReapedOnWasm
CHECK_DEADLOCK FALSE
