SPECIFICATION Spec
CONSTANTS
  Callers = {c1, c2}
  a1 = a1
  a2 = a2
  Artifacts = {a1, a2}
  Media = {m1, m2}
  Requests = {r1, r2}
  None = None
  Sources = {s1}
  Observations = {o1}
  Bytes <- MCBytes
  MaxParents = 1
  MaxCited = 1
SYMMETRY Symmetry
INVARIANTS ArtifactsKeepTheirWord EvidenceIsStable
PROPERTIES HiddenStaysHidden
