SPECIFICATION RunnerSpec
CONSTANTS
  d1 = d1
  d2 = d2
  d3 = d3
  Selections <- MCSelections
  Answers <- MCAnswers
  DigitCount = 4
  Digits = {0, 1, 2}
  IndexBits = 3
  WordBits = 6
  KeyBatches = {0, 1}
  WorkItems = {0, 1, 5, 7}
  defaultGPUKeyBatch = 2
  defaultGPUWorkItems = 6
  maxGPUKeyBatch = 2
  Spans = {1, 3}
  LocalSize = 4
  MaxWorkGroupSize = 3
  Baselines = {0, 1, 2}
  Pool <- MCPool
INVARIANTS MatchersAgree BestOfWork ExactWork RightDevices AsAnnounced HandlesReleased
CHECK_DEADLOCK FALSE
