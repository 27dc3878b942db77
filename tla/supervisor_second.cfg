SPECIFICATION FairSpec
CONSTANTS
  Last = 2
  None = None
  MaxDirectives = 2
  MaxFaults = 0
  MaxCrashes = 0
PROPERTY ReleaseTakesEffect
