SPECIFICATION Spec
CONSTANTS
  s1 = s1
  s2 = s2
  k1 = k1
  k2 = k2
  r1 = r1
  r2 = r2
  None = None
  Streams <- OneStream
  Calls <- OneCall
  Rows <- OneRow
  MaxConns = 2
  Reconnect = TRUE
  InlineAcks = TRUE
  WorkerAcks = FALSE
  Cancels = FALSE
  Faults = {"reset"}
INVARIANT RetriesInterruptions
CHECK_DEADLOCK FALSE
