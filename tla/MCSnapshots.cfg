SPECIFICATION Spec
CONSTANTS
  Names = {s1}
  Volumes = {v1, v2}
  IDs = {i1, i2}
  Foreign = Foreign
  NoID = NoID
  Calls = {c1, c2, c3}
  MaxAttempts = 2
SYMMETRY Symmetry
INVARIANTS TypeOK CreateOKMeansSnapshot DeleteOKMeansGone ListedMeansSo
CHECK_DEADLOCK FALSE
