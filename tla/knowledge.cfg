SPECIFICATION Spec
CONSTANTS
  IdRank <- MCIdRank
  Packs <- MCPacks
  Mounts <- MCMounts
  Writes <- MCWrites
  Agents = {"curator", "reader", "promoter"}
  Skills <- MCSkills
  Current = {"curator", "reader", "promoter"}
  CanWrite <- MCCanWrite
  Offers <- MCOffers
  NodePack = "A"
  NodeActor = "node"
  Requests <- MCRequests
  EndpointKinds <- MCKinds
  Revisions <- MCRevisions
  Unencodable = {"surrogate"}
  MaxErasures = 1
  MaxCrashes = 1
  None = None
  Slots = {"s1", "s2"}
  Operators = {"o1", "o2"}
  MaxLag = 1
  MaxSwitches = 3
  MaxStamp = 2
INVARIANTS AnswersMatchTheLog EventsKeepTheirAuthority ReplayIsSound PastIsReconstructable ProjectionsAreServedRight
PROPERTIES ServedRequestsAreAnswered
CHECK_DEADLOCK FALSE
