\* One execution, two threads, a clock that may step back.
CONSTANTS
  Executions = {e1}
  Callers = {c1, c2}
  RequestIds = {r1, r2}
  Digests = {d1, d2}
  NoId = NoId
  NoResource = NoResource
  Window = 2
  AuditWindow = 2
  MaxTime = 3
  Monotone = FALSE
SPECIFICATION Spec
INVARIANTS TypeOK AtMostOneCall CallIsRecorded
PROPERTIES ClosedIsFinal OrphanStaysPending OneShot
