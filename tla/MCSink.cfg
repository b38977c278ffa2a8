\* Three observations, batch of two documents, three bulk attempts, Ctrl-C possible.
CONSTANTS
  NumObs = 3
  MaxBatch = 2
  MaxAttempts = 3
  UserInterrupts = TRUE
  FLUSH = FLUSH
  STOP = STOP
SPECIFICATION Spec
INVARIANT TypeOK
PROPERTY ReceivedIsIndexed StopReturns
