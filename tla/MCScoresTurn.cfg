SPECIFICATION Spec
CONSTANTS
  Digits = {0, 1, 2, 3, 4, 9, 15}
  MaxLength = 7
INVARIANTS SequencesScored
CHECK_DEADLOCK FALSE
