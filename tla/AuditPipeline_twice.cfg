\* Retention forgets an event that the application still retries.
CONSTANTS
  Events = {e1, e2}
  None = None
  Capacity = 2
  Backlog = 2
SPECIFICATION Spec
INVARIANT OneRow
CHECK_DEADLOCK FALSE
