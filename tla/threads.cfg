SPECIFICATION Spec
CONSTANTS
  main = main
  th1 = th1
  th2 = th2
  Threads = {main, th1, th2}
  Main = main
  Inputs = {"fp", "signal", "create", "openfail", "exit"}
  MaxContexts = 2
  BufLen = 2
  MaxCount <- NoLimit
  SamplePeriod = 2
  Timers = TRUE
  ZeroDraw = TRUE
  Aggressive = FALSE
  ControlRound = FALSE
  KickStart = FALSE
  AbortOnFpe = FALSE
  CreateMonitorFile = TRUE
  MaxFp = 2
SYMMETRY Created
INVARIANTS
  RecordsShowOwnFlags
  TraceIsExact
PROPERTIES
  ImplementsEventLog
