SPECIFICATION Spec
CONSTANTS
  th1 = th1
  th2 = th2
  Threads = {th1, th2}
  NumSlots = 2
  Frees = TRUE
  Alarms = TRUE
  MaxCalls = 3
PROPERTIES
  ImplementsAtomicTable
