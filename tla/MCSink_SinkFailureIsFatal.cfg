\* Checks SinkFailureIsFatal alone. Three observations, batch of two documents, three bulk attempts.
CONSTANTS
  NumObs = 3
  MaxBatch = 2
  MaxAttempts = 3
  UserInterrupts = FALSE
  FLUSH = FLUSH
  STOP = STOP
SPECIFICATION Spec
INVARIANT SinkFailureIsFatal
