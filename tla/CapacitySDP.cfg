SPECIFICATION Spec
CONSTANTS
  Width = 6
  GiB = 4
  MinGiB = 3
INVARIANTS SDPHasMinimum
CHECK_DEADLOCK FALSE
