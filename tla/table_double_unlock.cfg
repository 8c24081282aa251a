SPECIFICATION Spec
CONSTANTS
  th1 = th1
  th2 = th2
  th3 = th3
  Threads = {th1, th2, th3}
  NumSlots = 3
  Frees = TRUE
  Alarms = FALSE
  MaxCalls = 3
INVARIANTS
  KeepsContext
