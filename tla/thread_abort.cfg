SPECIFICATION Spec
CONSTANTS
  main = main
  th1 = th1
  Threads = {main, th1}
  Main = main
  Inputs = {"fp", "signal", "create"}
  MaxContexts = 2
  BufLen = 1
  MaxCount <- NoLimit
  SamplePeriod = 1
  Timers = FALSE
  ZeroDraw = FALSE
  Aggressive = FALSE
  ControlRound = FALSE
  KickStart = FALSE
  AbortOnFpe = FALSE
  CreateMonitorFile = TRUE
  MaxFp = 2
INVARIANTS
  NothingLeaks
