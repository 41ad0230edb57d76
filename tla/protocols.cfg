SPECIFICATION FairSpec
CONSTANTS
  None = None
  Foreign = Foreign
  Old = Old
  MaxTime = 3
  MaxGeneration = 3
  MaxAttempts = 4
  AtOnce = 1
  MaxTokens = 2
  MaxCredentials = 2
  MaxStops = 2
  Process = {p1, p2}
  Scope = {s1, s2, s3}
  MaxKeys = 2
  MaxPending = 2
  MaxInterrupts = 1
  Procs = {g1, g2, g3}
  Keys = {k1, k2}
  Entries = {e1, e2}
  Repositories = {r1, r2, r3}
  MaxEntries = 2
  MaxRestarts = 2
  Capacity = 2
  Budget = 3
  MaxLines = 5
  MaxLost = 2
  Work = {w1, w2, w3}
  RunLimit = 2
  Caps = {1, 2}
  MaxVersions = 2
CHECK_DEADLOCK FALSE
INVARIANTS
  TypeOK
  OccurrencesRunOnce
  PublicationSafe
  CredentialSafe
  AdmissionsKept
  CacheBounded
  LogSound
PROPERTIES
  PendingIsKept
  UsedTokenEnrolls
  LocksARepository
  WaitersAnswered
  OutputArrives
  CloudSound
  CancelledEnds
