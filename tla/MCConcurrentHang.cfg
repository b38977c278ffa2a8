\* -t T -c 2, atomic increment, no Ctrl-C: checks TimeoutReports alone.
\* No deadlock check: a thread hung in session.send is the state under study.
CONSTANTS
  t1 = t1  t2 = t2
  Threads <- TwoThreads
  Count = 2
  Terminations = {"t"}
  Looping = TRUE
  Builds = {"atomic"}
  MaxRequests = 3
  UserInterrupts = FALSE
SPECIFICATION HangSpec
PROPERTY TimeoutReports
CHECK_DEADLOCK FALSE
