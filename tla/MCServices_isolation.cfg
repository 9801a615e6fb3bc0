CONSTANTS
  PROCS_MAX = 5
  Platform = "wasm"
  Boot <- TwoServers
  Programs = {}
  ServerNames <- MCServerNames
  Failures = {"handler_exit", "shutdown_request"}
  ShutdownArg = 9
  Args = {1, 9}
  Responses <- Responses1
  FlagSets <- NoFlags
  Targets = {2, 3}
  Pages <- MCPages
  NilPage <- MCNilPage
  NullPage <- MCNullPage
  MaxPid = 5
SPECIFICATION FairSpec
PROPERTIES
  CrashIsContained
  ReplyUnlessServerGone
CHECK_DEADLOCK FALSE
