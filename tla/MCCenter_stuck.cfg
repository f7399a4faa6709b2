SPECIFICATION PartSpec
CONSTANTS
  Sessions = {s1, s2}
  Requests = {q1, q2}
  AwsMissions = {a}
  P01 = p
  OpenMissions = {o}
  None = none
  Capacity = 1
  MaxAttempts = 2
  MaxBuilds = 2
  Edited = {o}
  RoleCases = 2
  Normal = 1
  Tries = 2
  DeliveryCases = 4
  Unlisted = 3
  ActionCases = 4
SYMMETRY Symmetry
INVARIANTS BusyIsRunning
CHECK_DEADLOCK FALSE
