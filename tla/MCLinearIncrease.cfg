\* -n 3, three executor threads, atomic increment, no Ctrl-C,
\* --min-throughput 1 --max-throughput 4 --t-start 1 --t-end 100%.
\* No deadlock check: the lost wakeup of run poisson_lost_wakeup leaves the
\* main thread blocked on the ready event for good.
CONSTANTS
  t1 = t1  t2 = t2  t3 = t3
  Threads <- ThreeThreads
  Count = 3
  Terminations = {"n"}
  Looping = FALSE
  Builds = {"atomic"}
  MaxRequests = 4
  UserInterrupts = FALSE
  MinThroughput = 1
  MaxThroughput = 4
  TStartArg <- TStartOne
  TEndArg <- TEndFull
SYMMETRY ThreadSym
SPECIFICATION LinearSpec
INVARIANT LinearTypeOK ResultsWithinCap StopReachable
PROPERTY RateNeverDecreases
CHECK_DEADLOCK FALSE
