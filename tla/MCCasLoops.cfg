SPECIFICATION FairSpec
CONSTANTS
  r1 = r1
  r2 = r2
  r3 = r3
  Callers = {r1, r2, r3}
  MaxAttempts = 3
  Requests = {1, 2}
  Candidates = {2, 3}
  InitialBestRun = 1
INVARIANTS ClaimsDisjoint PromotionsDistinct
PROPERTIES AtomicSpec CallsReturn
