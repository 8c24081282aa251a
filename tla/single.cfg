SPECIFICATION FairSpec
CONSTANTS
  main = main
  Threads = {main}
  Main = main
  Inputs = {"fp", "intdiv", "fe", "signal", "openfail", "exit", "cleanup", "quit", "ignored"}
  MaxContexts = 2
  BufLen = 2
  MaxCount = 3
  SamplePeriod = 2
  Timers = TRUE
  ZeroDraw = FALSE
  Aggressive = FALSE
  ControlRound = TRUE
  KickStart = TRUE
  AbortOnFpe = FALSE
  CreateMonitorFile = TRUE
  MaxFp = 5
INVARIANTS
  TypeOK
  TrapsMatchState
  RoundingRestored
  NothingLost
PROPERTIES
  StepsOver
  AbortCompletes
  OffPeriodEnds
  AbortIsFinal
