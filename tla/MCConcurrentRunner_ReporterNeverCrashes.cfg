\* -t T -c 2, atomic increment: checks ReporterNeverCrashes alone.
CONSTANTS
  t1 = t1  t2 = t2  t3 = t3
  Threads <- TwoThreads
  Count = 100
  Terminations = {"t"}
  Looping = TRUE
  Builds = {"atomic"}
  MaxRequests = 3
  UserInterrupts = FALSE
SPECIFICATION Spec
INVARIANT ReporterNeverCrashes
