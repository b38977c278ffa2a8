\* -n 3, two threads, atomic increment; checks NoLostWakeup alone.
CONSTANTS
  t1 = t1  t2 = t2  t3 = t3
  Threads <- TwoThreads
  Count = 3
  Terminations = {"n"}
  Looping = FALSE
  Builds = {"atomic"}
  MaxRequests = 3
  UserInterrupts = FALSE
SPECIFICATION Spec
INVARIANT NoLostWakeup
CHECK_DEADLOCK FALSE
