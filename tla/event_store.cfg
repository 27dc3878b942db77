SPECIFICATION PowerSpec
CONSTANTS
  Callers = {c1, c2, c3}
  EventIds = {e1}
  Contents = {v1, v2}
  Requests = {r1, r2}
  None = None
  Redacted = Redacted
  MaxOutages = 2
SYMMETRY Symmetry
INVARIANTS TypeOK AcknowledgementsHold SyncedAckSurvivesPowerLoss
PROPERTIES ImplementsContract DeletesWhatTheTombstoneNames DiskTombstoneIsFinal
