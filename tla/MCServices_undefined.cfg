CONSTANTS
  PROCS_MAX = 5
  Platform = "riscv"
  Boot <- TwoServers
  Programs = {}
  ServerNames <- MCServerNames
  Failures = {"handler_exit"}
  ShutdownArg = 9
  Args = {1}
  Responses <- Responses1
  FlagSets <- NoFlags
  Targets = {2, 3}
  Pages <- MCPages
  NilPage <- MCNilPage
  NullPage <- MCNullPage
  MaxPid = 5
SPECIFICATION ServicesSpec
INVARIANTS
  CallsAreDefined
CHECK_DEADLOCK FALSE
