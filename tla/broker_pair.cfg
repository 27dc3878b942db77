SPECIFICATION LanesSpec
CONSTANTS
  Agents = {a1, a2}
  Tasks = {t1}
  None = None
  Lease = 2
  Deadline = 1
  Prompt = FALSE
  MaxReady = 2
  MaxFaults = 0
  MaxCrashes = 1
  MaxAttempts = 5
  Verifiers = {v1, v2}
  Directives <- MCDirectives
  VerifierActions <- MCActions
  TrustedDispatch = {"d1"}
  ClaimLease = 2
  OrderDuration = 1
  MaxOwner = 2
  MaxClock = 2
  MaxInterrupts = 1
  Nothing = Nothing
SYMMETRY AgentSymmetry
INVARIANTS ExclusiveExecution LiveOrderIsNewest DuplicatePRsNeedInterruptions OneVerificationPerOrder
CHECK_DEADLOCK FALSE
