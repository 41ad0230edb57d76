SPECIFICATION FairSpec
CONSTANTS
  Last = 2
  Lease = 3
  Grace = 2
  OutcomeGrace = 3
  Timeout = 3
CHECK_DEADLOCK FALSE
INVARIANTS
  SupervisionSafe
PROPERTY AttemptEnds
