SPECIFICATION Spec
CONSTANTS
  p1 = p1
  p2 = p2
  old = old
  k1 = k1
  k2 = k2
  t1 = t1
  t2 = t2
  Writers = {p2}
  Exporters = {p1}
  LegacyKeys = {old}
  NewKeys = {k1, k2}
  Tail <- MCTail
  Versions = {"v1"}
  Dialects = {"sqlite", "postgres"}
  ScoreOf <- MCScoreOf
  LettersOf <- MCLettersOf
INVARIANTS LookupRight RowWhole ExportWhole CorrelationRight
PROPERTIES RowsKept
