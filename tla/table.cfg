SPECIFICATION FairSpec
CONSTANTS
  th1 = th1
  th2 = th2
  th3 = th3
  Threads = {th1, th2, th3}
  NumSlots = 2
  Frees = FALSE
  Alarms = FALSE
  MaxCalls = 2
INVARIANTS
  TypeOK
  MutualExclusion
  KeepsContext
  FindsOwn
  FailsOnlyWhenFull
PROPERTIES
  OperationsReturn
