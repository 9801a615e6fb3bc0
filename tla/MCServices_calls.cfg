CONSTANTS
  PROCS_MAX = 5
  Platform = "riscv"
  Boot <- ThreeApps
  Programs = {}
  ServerNames <- MCServerNames
  Failures = {}
  ShutdownArg = 9
  Args = {1}
  Responses <- Responses1
  FlagSets <- NoFlags
  Targets = {2}
  Pages <- MCPages
  NilPage <- MCNilPage
  NullPage <- MCNullPage
  MaxPid = 5
SPECIFICATION FairSpec
PROPERTIES
  ImplementsRpc
  EveryCallReturns
  NobodyStarves
CHECK_DEADLOCK FALSE
