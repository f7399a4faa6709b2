\* Two requests of two sessions, one of which fits in memory; one verification of P07
\* or P08 with a normal case and a risk; one of P09 and one of P06 with four cases.
\* A mission without a busy flag has two builds, which the learner may change between for ever.
SPECIFICATION PartSpec
CONSTANTS
  Sessions = {s1, s2}
  Requests = {q1, q2}
  AwsMissions = {a}
  P01 = p
  OpenMissions = {o}
  None = none
  Capacity = 1
  MaxAttempts = 2
  MaxBuilds = 2
  Edited = {o}
  RoleCases = 2
  Normal = 1
  Tries = 2
  DeliveryCases = 4
  Unlisted = 3
  ActionCases = 4
SYMMETRY Symmetry
INVARIANTS PartTypeOK OneRunner BadgeIsEarned MarkedForCause PassedIsTrue OwnersAreStable
PROPERTY ClosedIsFinal
CHECK_DEADLOCK FALSE
