SPECIFICATION FairSpec
CONSTANTS
  Last = 2
  None = None
  MaxDirectives = 2
  MaxFaults = 1
  MaxCrashes = 1
INVARIANTS OnlyReviewedRuns UninterruptedBrokerRuns
PROPERTIES SoleReleaseTakesEffect
