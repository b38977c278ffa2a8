\* -t T, three executor threads, atomic increment, Ctrl-C possible.
\* No deadlock check: the lost wakeup of run NoLostWakeup leaves the main
\* thread blocked on the ready event for good.
CONSTANTS
  t1 = t1  t2 = t2  t3 = t3
  Threads <- ThreeThreads
  Count = 100
  Terminations = {"t"}
  Looping = FALSE
  Builds = {"atomic"}
  MaxRequests = 3
  UserInterrupts = TRUE
SYMMETRY ThreadSym
SPECIFICATION Spec
INVARIANT TypeOK
PROPERTY ImplementsLoadGenSafety
CHECK_DEADLOCK FALSE
