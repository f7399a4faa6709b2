\* Two executions that both may complete, one after the other or after a crash, a
\* clock that only moves forward.
CONSTANTS
  Executions = {e1, e2}
  Callers = {c1}
  RequestIds = {r1, r2, r3, r4}
  Digests = {d1}
  NoId = NoId
  NoResource = NoResource
  Window = 2
  AuditWindow = 2
  MaxTime = 2
  Monotone = TRUE
SPECIFICATION Spec
SYMMETRY Symmetry
INVARIANT EvidenceHolds
