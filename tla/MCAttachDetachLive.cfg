SPECIFICATION FairSpec
CONSTANTS
  Nodes = {n1}
  Volumes = {v1}
  Calls = {c1, c2}
  AttIDs = {a1, a2}
  NoCall = NoCall
  NoID = NoID
  LockEnabled = TRUE
  MaxAttempts = 2
  MaxPolls = 2
PROPERTIES EveryCallEnds
CHECK_DEADLOCK FALSE
