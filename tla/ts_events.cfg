SPECIFICATION FairSpec
CONSTANTS
  s1 = s1
  s2 = s2
  k1 = k1
  k2 = k2
  r1 = r1
  r2 = r2
  None = None
  Streams <- OneStream
  Calls <- OneCall
  Rows <- TwoRows
  MaxConns = 2
  Reconnect = TRUE
  InlineAcks = FALSE
  WorkerAcks = TRUE
  Faults = {"eof", "malformed", "oversized"}
INVARIANTS
  EventsInOrder
  ErrorAfterEvents
  RetriesInterruptions
PROPERTIES
  AcksReturn
  FailureIsHandled
CHECK_DEADLOCK FALSE
