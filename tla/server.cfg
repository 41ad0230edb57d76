SPECIFICATION Spec
CONSTANTS
  None = None
  Foreign = Foreign
  MaxLast = 2
  AutoMerge = TRUE
  MaxAttempts = 2
  MaxSha = 2
  text = text
  slug1 = slug1
  slug2 = slug2
  stone = stone
  MaxNumber = 2
  MaxCheckpoints = 2
  MaxPasses = 1
  Clients = {c1, c2}
  ProcedureKeys = {k1, k2, k3}
  name1 = name1
  name2 = name2
  prompt1 = prompt1
  prompt2 = prompt2
  id = id
  MaxTasks = 2
  MaxPipelines = 2
  MaxRuns = 3
  MaxEdits = 2
SYMMETRY Symmetry
CHECK_DEADLOCK FALSE
INVARIANTS
  TypeOK
  StagesTellProgress
  MergedAsApproved
  PageTellsTruth
  AdmittedOnce
  RefusedForCause
PROPERTIES
  DeliveryStands
  RouteStands
