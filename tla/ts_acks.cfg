SPECIFICATION Spec
CONSTANTS
  s1 = s1
  s2 = s2
  k1 = k1
  k2 = k2
  r1 = r1
  r2 = r2
  None = None
  Streams <- TwoStreams
  Calls <- TwoCalls
  Rows <- OneRow
  MaxConns = 2
  Reconnect = TRUE
  InlineAcks = TRUE
  WorkerAcks = TRUE
  Faults = {"eof", "reset", "unreachable", "backpressure"}
SYMMETRY Symmetry
INVARIANTS
  TypeOK
  NoOrphanWaiter
  NamedIsHeld
  NoSocketLeft
PROPERTY KeepsContract
CHECK_DEADLOCK FALSE
