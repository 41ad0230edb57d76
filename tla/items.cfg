SPECIFICATION Spec
CONSTANTS
  w1 = w1
  w2 = w2
  w3 = w3
  r1 = r1
  r2 = r2
  r3 = r3
  issue = issue
  k1 = k1
  k2 = k2
  NoIssue = NoIssue
  None = None
  Work = {w1, w2, w3}
  Run = {r1, r2, r3}
  RunOf <- ChainRunOf
  Limit <- ChainLimit
  Issue <- ChainIssue
  GatedRun = {}
  AgentUpdateRun = {r1, r2, r3}
  Worker = {k1}
  Capacity <- OneWorker
  MaxAttempts = 1
  LeaseTicks = 1
SYMMETRY ChainSymmetry
INVARIANTS
  OneLiveWorkPerItem
PROPERTY KeepsPromise
