SPECIFICATION Spec
CONSTANTS
  boot = boot
  w1 = w1
  w2 = w2
  w3 = w3
  m2 = m2
  None = None
  Threads <- MCThreads3
  Boot = boot
  Mutexes = {m1}
  Prio <- MCPrio
  HeapResults = {TRUE}
INVARIANTS HangOnlyWithoutThreads
CHECK_DEADLOCK FALSE
