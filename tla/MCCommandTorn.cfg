CONSTANTS
  suffix = suffix
  any = any
  Criteria = {suffix}
  MinRuns = {1}
  MaxRun = 1
  MaxKeys = 1
  MaxSpent = 1
SPECIFICATION SearchedSpec
INVARIANTS CheckpointSurvives
