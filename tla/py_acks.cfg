SPECIFICATION Spec
CONSTANTS
  s1 = s1
  s2 = s2
  k1 = k1
  k2 = k2
  r1 = r1
  r2 = r2
  None = None
  Streams <- TwoStreams
  Calls <- TwoCalls
  Rows <- OneRow
  MaxConns = 2
  Reconnect = TRUE
  InlineAcks = FALSE
  WorkerAcks = TRUE
  Cancels = TRUE
  Faults = {"eof", "reset"}
SYMMETRY Symmetry
INVARIANTS
  TypeOK
  AckedMeansRecorded
  NoOrphanWaiter
  OneLiveReader
  NoClosedConnection
  NothingLeftBehind
PROPERTIES
  KeepsContract
CHECK_DEADLOCK FALSE
