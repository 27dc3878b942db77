SPECIFICATION MCSpec
CONSTANTS
  Clients = {c1, c2}
  EventIds = {1, 2}
  Contents = {v1, v2}
  Artifacts = {a1}
  Media = {m1, m2}
  Requests = {r1, r2}
  PageSize = 1
  MaxLate = 1
  None = None
  Redacted = Redacted
SYMMETRY Symmetry
INVARIANTS ScanIsComplete
PROPERTIES ObjectsKeepTheirWord ImplementsContract
