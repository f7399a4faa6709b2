\* Three events, an application's queue of two and a backlog of two; lost messages,
\* crashes, and rows that grow old.  Four AWS calls fail or resources are deleted in
\* the console; the process may die.
CONSTANTS
  Events = {e1, e2, e3}
  None = None
  Capacity = 2
  Backlog = 2
  MaxFaults = 4
SPECIFICATION PartSpec
INVARIANTS PartTypeOK NothingLost StorageHolds
PROPERTIES RelaySpec RecoversOrNeedsOperator
CHECK_DEADLOCK FALSE
