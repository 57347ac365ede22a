SPECIFICATION MCFairSpec
CONSTANTS
  boot = boot
  w1 = w1
  w2 = w2
  w3 = w3
  m2 = m2
  None = None
  Threads <- MCThreads
  Boot = boot
  Mutexes = {m1, m2}
  Prio <- MCPrio3
  HeapResults = {TRUE, FALSE}
INVARIANTS QueuesSound EveryThreadInOnePlace MutualExclusion AssertionsHold
PROPERTIES ImplementsMutexSpec FreeMutexIsGranted 
CHECK_DEADLOCK FALSE
