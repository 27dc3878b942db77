SPECIFICATION Spec
CONSTANTS
  Events = {1, 2}
  None = None
  NoUuid = NoUuid
  HasPolicy = TRUE
  UuidMayLack = TRUE
  MaxCrashes = 1
  MaxFaults = 1
  MaxRebuilds = 1
INVARIANTS AppliedIsMaterialized DuplicatesNeedInterruptions UninterruptedPurgeIsClean
PROPERTIES NeverAdvancesPastPending
