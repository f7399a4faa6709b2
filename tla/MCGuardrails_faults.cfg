\* Two threads; crashes, failing AWS calls, clock steps and changes of account for the
\* guardrail; a seed and two drafts, crashes and failing writes for the policies;
\* for P02 one suite of two cases, for P04 two of two, for P08
\* two of two; two browsers for P02's resources, two tabs for the tokens.
CONSTANTS
  Threads = {t1, t2}
  Operations = {o1, o2, o3}
  Executions = {e1}
  Accounts = {a1, a2}
  Guardrails = {g1, g2}
  Nobody = Nobody
  None = None
SPECIFICATION PartSpec
CHECK_DEADLOCK FALSE
SYMMETRY Symmetry
INVARIANTS PartTypeOK RollbackReachable PartsHold
PROPERTIES HeldIsKept ReadinessIsNew OnlyTestedBecomesActive PromotedOverItsBase
