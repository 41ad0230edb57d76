SPECIFICATION Spec
CONSTANTS
  MaxLast = 1
  AutoMerge = TRUE
  MaxAttempts = 1
  MaxSha = 1
INVARIANT RefusalMeansUnmerged
