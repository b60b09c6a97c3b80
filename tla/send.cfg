SPECIFICATION Spec
CONSTANTS
  o1 = o1
  o2 = o2
  None = None
  Operations <- TwoOperations
  Supplied <- OneSupplied
  MaxAttempts = 3
  Cancels = TRUE
INVARIANTS
  TypeOK
  SentOnce
  OutcomeIsTrue
  UnknownKeepsID
CHECK_DEADLOCK FALSE
