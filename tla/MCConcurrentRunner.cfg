\* -c 2 with either termination flag (-n 2, or -t with reqs_limit = sys.maxsize)
\* on either interpreter build (atomic or racy increment), Ctrl-C possible.
CONSTANTS
  t1 = t1  t2 = t2  t3 = t3
  Threads <- TwoThreads
  Count = 2
  Terminations = {"n", "t"}
  Looping = TRUE
  Builds = {"atomic", "racy"}
  MaxRequests = 4
  UserInterrupts = TRUE
SPECIFICATION Spec
INVARIANT TypeOK OvershootBounded PrintedPercentilesExact
PROPERTY RunTerminates ImplementsLoadGen
