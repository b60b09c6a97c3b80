SPECIFICATION FairSpec
CONSTANTS
  m1 = m1
  n1 = n1
  None = None
  Messages <- OneMessage
  Notices <- OneNotice
  MaxFiles = 2
  FetchesBytes = TRUE
  Faults <- AllFaults
  MaxFaults = 3
  MaxAttempts = 4
  MaxCalls = 5
INVARIANTS
  TypeOK
  HandledOnce
PROPERTIES
  RepliesOnce
  EventuallyAcked
CHECK_DEADLOCK FALSE
