SPECIFICATION FairSpec
CONSTANTS
  g1 = g1
  g2 = g2
  Goroutines = {g1, g2}
  SinkCount = 2
  BufferSize = 1
  Messages = 2
INVARIANTS NoPanic InOrder FlushedBeforeClose
PROPERTIES NobodyHangs
CHECK_DEADLOCK FALSE
