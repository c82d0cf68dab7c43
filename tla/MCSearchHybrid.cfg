CONSTANTS
  c1 = c1
  c2 = c2
  g1 = g1
  CPURunners = {c1, c2}
  GPURunners = {g1}
  FaultyRunners = {c1, g1}
  InitialBestRun = 1
  MinRun = 3
  MaxRun = 4
  MaxAttempts = 4
  Span = 3
  BatchSize = 2
  PollStride = 2
  KeyBatch = 1
  WorkItems = 2
  CountCap = 9
SPECIFICATION FairSpec
INVARIANTS TypeOK Aligned Budget BudgetSpent CleanReturn
PROPERTIES ContractSpec Terminates
