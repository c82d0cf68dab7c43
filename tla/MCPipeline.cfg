SPECIFICATION FairSpec
CONSTANTS
  k1 = k1
  k2 = k2
  k3 = k3
  k4 = k4
  g1 = g1
  s1 = s1
  s2 = s2
  Keys = {k1, k2, k3, k4}
  Generators = {g1}
  Scorers = {s1, s2}
  BatchSize = 2
  BufferMultiplier = 1
  Faults = {"clone", "generate", "score", "serialize", "save"}
INVARIANTS TypeOK Complete RootCause NoStraggler
PROPERTIES Terminates
