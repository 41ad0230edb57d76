SPECIFICATION Spec
CONSTANTS
  Attempt = {a1}
  Limit = 1
  MaxCrashes = 1
CHECK_DEADLOCK FALSE
INVARIANTS
  JournalledIsForgettable
