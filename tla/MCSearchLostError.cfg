CONSTANTS
  c1 = c1
  c2 = c2
  g1 = g1
  CPURunners = {c1}
  GPURunners = {g1}
  FaultyRunners = {g1}
  InitialBestRun = 0
  MinRun = 2
  MaxRun = 2
  MaxAttempts = 2
  Span = 2
  BatchSize = 1
  PollStride = 1
  KeyBatch = 1
  WorkItems = 1
  CountCap = 9
SPECIFICATION Spec
INVARIANTS FailureReported
