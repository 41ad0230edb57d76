SPECIFICATION SwitchSpec
CONSTANTS
  w1 = w1
  w2 = w2
  w3 = w3
  r1 = r1
  r2 = r2
  r3 = r3
  issue = issue
  k1 = k1
  k2 = k2
  NoIssue = NoIssue
  None = None
  Work = {w1}
  Run = {r1}
  RunOf <- SoloRunOf
  Limit <- SoloLimit
  Issue <- SoloIssue
  GatedRun = {r1}
  AgentUpdateRun = {r1}
  Worker = {k1, k2}
  Capacity <- TwoWorkers
  MaxAttempts = 3
  LeaseTicks = 1
INVARIANT DisablingIsObeyed
