SPECIFICATION Spec
CONSTANTS
  Last = 1
  Lease = 3
  Grace = 1
  OutcomeGrace = 2
  Timeout = 3
CHECK_DEADLOCK FALSE
INVARIANTS
  ExitDoesNotDecide
