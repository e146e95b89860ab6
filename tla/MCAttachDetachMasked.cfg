SPECIFICATION Spec
CONSTANTS
  Nodes = {n1}
  Volumes = {v1}
  Calls = {c1, c2}
  AttIDs = {a1}
  NoCall = NoCall
  NoID = NoID
  LockEnabled = TRUE
  MaxAttempts = 2
  MaxPolls = 1
INVARIANTS UnpublishOKMeansDetached
CHECK_DEADLOCK FALSE
