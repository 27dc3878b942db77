SPECIFICATION Spec
CONSTANTS
  Importers = {i1, i2}
  Nodes <- MCNodes
  Exposed <- MCExposed
  NoNode = NoNode
  Continuations <- MCContinuations
  Conversations = {1, 2}
  Captured = {1}
  MaxVersions = 2
  None = None
  ArtifactBytes <- MCBytes
  Lead = "u"
  Cont = "v"
  Sources <- MCSources
  Spans <- MCSpans
  Messages <- MCMessages
  MaxParts = 3
  Lineages <- MCLineages
  Nil = Nil
  Candidates <- MCCandidates
  RevisionIds = {"", "r1", "r2"}
  MaxEdits = 1
  Refused = Refused
  Documents <- MCDocuments
  Requests <- MCRequests
  Items <- MCItems
  Outputs <- MCOutputs
  Models <- MCModels
  Recorded <- MCRecorded
  MaxExpansions = 1
  SecretKeys = {"token", "api_key"}
  Absent = Absent
  Sessions <- MCSessions
  Skills <- MCSkills
  StoredEvents <- MCEvents
  Results <- MCResults
  Needles = {"", "w"}
  Threads <- MCThreads
  MaxResults = 2
  NoReply = NoReply
SYMMETRY Symmetry
INVARIANTS CaptureIsHonest ImportsAreSound EnvelopeIsFaithful LineageAnswersAreRight PackSetIsExact AnswersRestOnTheCorpus ReceiptTellsTheRun
PROPERTIES AgentsStayInTheirPacks
CHECK_DEADLOCK FALSE
