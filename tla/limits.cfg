SPECIFICATION FairSpec
CONSTANTS
  w1 = w1
  w2 = w2
  w3 = w3
  r1 = r1
  r2 = r2
  r3 = r3
  issue = issue
  k1 = k1
  k2 = k2
  NoIssue = NoIssue
  None = None
  Work = {w1, w2, w3}
  Run = {r1, r2}
  RunOf <- GuestRunOf
  Limit <- GuestLimit
  Issue <- GuestIssue
  GatedRun = {}
  AgentUpdateRun = {r1}
  Worker = {k1}
  Capacity <- OneSlot
  MaxAttempts = 1
  LeaseTicks = 1
INVARIANTS
  LimitsExact
PROPERTY LeasesEnd
