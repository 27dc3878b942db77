SPECIFICATION FairSpec
CONSTANTS
  Agents = {a1, a2}
  Tasks = {t1}
  None = None
  Lease = 2
  Deadline = 1
  Prompt = TRUE
  MaxReady = 1
  MaxFaults = 1
  MaxCrashes = 1
  MaxAttempts = 5
PROPERTY ReadyIsResolved
CHECK_DEADLOCK FALSE
