SPECIFICATION Spec
CONSTANTS
  main = main
  Threads = {main}
  Main = main
  Inputs = {"fp"}
  MaxContexts = 2
  BufLen = 1
  MaxCount = 1
  SamplePeriod = 1
  Timers = TRUE
  ZeroDraw = FALSE
  Aggressive = FALSE
  ControlRound = FALSE
  KickStart = FALSE
  AbortOnFpe = FALSE
  CreateMonitorFile = TRUE
  MaxFp = 3
INVARIANTS
  EventLimit
