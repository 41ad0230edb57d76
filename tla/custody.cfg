SPECIFICATION FairSpec
CONSTANTS
  Attempt = {a1, a2}
  Limit = 2
  MaxCrashes = 2
  None = None
  worker1 = worker1
  worker2 = worker2
  repository1 = repository1
  repository2 = repository2
  MaxEntries = 1
  MaxWork = 2
  MaxChanges = 3
CHECK_DEADLOCK FALSE
INVARIANTS
  WorktreesAccountedFor
  PlacesKept
PROPERTIES
  UnsavedWorkSurvives
  RecordedIsReleased
