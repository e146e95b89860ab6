SPECIFICATION Spec
CONSTANTS
  Names = {p1}
  IDs = {i1, i2}
  Calls = {c1, c2, c3}
  NoID = NoID
  CreateSizes = {1, 2}
  ExpandBytes = {2, 3, 6}
  GiB = 2
  MaxAttempts = 2
SYMMETRY Symmetry
INVARIANTS TypeOK CreateOKMeansVolume ExpandOKMeansSized DeleteOKMeansGone
CHECK_DEADLOCK FALSE
