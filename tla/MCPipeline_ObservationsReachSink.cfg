\* -n 2 with the Poisson runner, two executor threads, atomic increment,
\* no Ctrl-C; the sink with the code's batch size (in documents, scaled
\* down) and its three bulk attempts.
CONSTANTS
  t1 = t1  t2 = t2
  Threads <- TwoThreads
  Count = 2
  Terminations = {"n"}
  Looping = FALSE
  Builds = {"atomic"}
  MaxRequests = 2
  UserInterrupts = FALSE
  MaxBatch = 2
  MaxAttempts = 3
  FLUSH = FLUSH
  STOP = STOP
SPECIFICATION PipelineSpec
INVARIANT ObservationsReachSink
CHECK_DEADLOCK FALSE
