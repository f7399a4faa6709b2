\* The process dies while a draft is created.
CONSTANTS
  Digests = {d0, d1}
  Seeds = {d0}
  Threads = {t1}
  NoDigest = NoDigest
  NoThread = NoThread
  Life = 0
  MaxTime = 1
  Crashes = TRUE
  Faults = FALSE
SPECIFICATION Spec
INVARIANT CanStart
CHECK_DEADLOCK FALSE
