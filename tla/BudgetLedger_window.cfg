\* Three reservations of one client over two hours.
SPECIFICATION Spec
CONSTANTS
  Reservations = {r1, r2, r3}
  Limit = 3
  MaxRequest = 2
  MaxWindow = 2
INVARIANT HourIsCapped
CHECK_DEADLOCK FALSE
