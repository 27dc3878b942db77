SPECIFICATION FairSpec
CONSTANTS
  Events = {1, 2}
  None = None
  NoUuid = NoUuid
  HasPolicy = FALSE
  UuidMayLack = FALSE
  MaxCrashes = 1
  MaxFaults = 1
  MaxRebuilds = 1
PROPERTIES EventuallyProjected EventuallyPurged
