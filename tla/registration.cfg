SPECIFICATION FairSpec
CONSTANTS
  p1 = p1
  agent = agent
  guest1 = guest1
  guest2 = guest2
  fetcher = fetcher
  home = home
  vm = vm
  None = None
  Casts <- MCCasts
  Profiles <- OneProfile
  Commands <- MCCommands
  Large <- LargeOnes
  Oversized = {}
  MaxCommands = 2
  PeerReads = TRUE
  Callers <- MCCallers
  Clients <- MCClients
  ClientOf <- MCClientOf
  FileClients <- FromFile
  ProfileOf <- MCProfileOf
  CallsOf <- MCCallsOf
  Contents <- MCContents
  MaxRotations = 2
  MaxFaults = 1
INVARIANTS
  TypeOK
  ControlTruth
  CallsAreTrue
PROPERTIES
  AccessFollowsOwner
  EverythingReturns
CHECK_DEADLOCK FALSE
