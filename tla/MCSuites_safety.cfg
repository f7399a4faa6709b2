\* Two threads, two suites, three execution ids of which a graded suite takes two;
\* for the grants a verifier and one grant per suite; for the ledger one execution with
\* two operations.  Crashes in all parts.
CONSTANTS
  Suites = {s1, s2}
  Executions = {e1, e2, e3}
  Threads = {t1, t2}
  Ids = {d1, d2}
  None = None
  Cases = 2
  PrepareWindow = 1
  Life = 1
  MaxTime = 2
  Slots = {k1}
  NoId = NoId
SPECIFICATION PartSpec
SYMMETRY Symmetry
INVARIANTS PartTypeOK SuitesHold GrantsHold OneAfterAnother EffectsRecorded
