SPECIFICATION FairSpec
CONSTANTS
  MaxRequests = 2
  Nobody = Nobody
  Loop = Loop
  MaxConcurrent = 2
  MaxGeneration = 2
CHECK_DEADLOCK FALSE
INVARIANTS
  ClaimsSafe
PROPERTY ClaimsEnd
