\* Two admins promote and roll back at the same time.
CONSTANTS
  Digests = {d0, d1}
  Seeds = {d0}
  Threads = {t1, t2}
  NoDigest = NoDigest
  NoThread = NoThread
  Life = 0
  MaxTime = 1
  Crashes = FALSE
  Faults = FALSE
SPECIFICATION Spec
INVARIANT ServesActive
CHECK_DEADLOCK FALSE
