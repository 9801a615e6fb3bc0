CONSTANTS
  PROCS_MAX = 4
  Platform = "wasm"
  Boot <- OneServer
  Programs <- MCPrograms
  ServerNames <- MCServerNames
  Failures = {}
  ShutdownArg = 9
  Args = {1, 2}
  Responses <- Responses1
  FlagSets <- BothWays
  Targets = {2}
  Pages <- MCPages
  NilPage <- MCNilPage
  NullPage <- MCNullPage
  MaxPid = 5
SPECIFICATION ServicesSpec
INVARIANTS
  CallersRegisteredOnce
  HandlerUndisturbed
PROPERTIES
  ReplyMatches
  ReplyPageMatches
CHECK_DEADLOCK FALSE
