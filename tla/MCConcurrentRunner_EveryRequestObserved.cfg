\* -n 2 -c 2, atomic increment: checks EveryRequestObserved alone.
CONSTANTS
  t1 = t1  t2 = t2  t3 = t3
  Threads <- TwoThreads
  Count = 2
  Terminations = {"n"}
  Looping = TRUE
  Builds = {"atomic"}
  MaxRequests = 3
  UserInterrupts = FALSE
SPECIFICATION Spec
INVARIANT EveryRequestObserved
