SPECIFICATION FairSpec
CONSTANTS
  p1 = p1
  None = None
  SDKs <- PythonOnly
  Profiles <- OneProfile
  Commands <- LargeOnes
  Large <- LargeOnes
  Oversized = {}
  MaxCommands = 1
  PeerReads = FALSE
PROPERTIES
  ReturnsByDeadline
CHECK_DEADLOCK FALSE
