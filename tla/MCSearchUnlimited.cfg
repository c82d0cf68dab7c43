CONSTANTS
  c1 = c1
  c2 = c2
  g1 = g1
  CPURunners = {c1, c2}
  GPURunners = {}
  FaultyRunners = {c2}
  InitialBestRun = 0
  MinRun = 4
  MaxRun = 5
  MaxAttempts = 0
  Span = 2
  BatchSize = 2
  PollStride = 2
  KeyBatch = 1
  WorkItems = 2
  CountCap = 1
SPECIFICATION FairSpec
PROPERTIES EventsEndSearch
