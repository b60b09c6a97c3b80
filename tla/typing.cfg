SPECIFICATION FairSpec
CONSTANTS
  None = None
  SDKs <- BothSDKs
  Matrices <- MCMatrices
  Replies <- MCReplies
INVARIANTS
  TypeOK
  ScopeEndsQuiet
  TypingIsAdvisory
  SaidOnce
PROPERTIES
  CleansUp
CHECK_DEADLOCK FALSE
