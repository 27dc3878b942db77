SPECIFICATION FairSpec
CONSTANTS
  Last = 1
  None = None
  MaxDirectives = 1
  MaxFaults = 0
  MaxCrashes = 0
PROPERTY SoleReleaseIsHandsOff
