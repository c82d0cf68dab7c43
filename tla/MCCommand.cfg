CONSTANTS
  suffix = suffix
  any = any
  Criteria = {suffix, any}
  MinRuns = {1, 2}
  MaxRun = 2
  MaxKeys = 2
  MaxSpent = 2
SYMMETRY Symmetry
SPECIFICATION SearchedSpec
INVARIANTS BestOnDisk ArtifactsFirst SavedFlag RightCriteria SuccessDurable
PROPERTIES DurableProgress RetryNeedsNoMining
