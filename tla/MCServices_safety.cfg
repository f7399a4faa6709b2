SPECIFICATION PartSpec
CONSTANTS
  Threads = {t1, t2}
  Reservations = {r1, r2, r3}
  NoReservation = none
  Requests = 2
  Limit = 3
  MaxRequest = 2
  MaxWindow = 2
  Cases = 2
  MaxEvents = 10
  Retries = 1
  Rebuilds = 1
SYMMETRY Symmetry
INVARIANTS PartTypeOK RequestsAreCapped UseIsCharged PromotionHolds NoFalseDenial ModelSeesAuthorized ReleasedIsChecked VerdictIsTrue
PROPERTY BudgetSpec
CHECK_DEADLOCK FALSE
