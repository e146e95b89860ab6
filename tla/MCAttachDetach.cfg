SPECIFICATION Spec
CONSTANTS
  Nodes = {n1, n2}
  Volumes = {v1}
  Calls = {c1, c2, c3}
  AttIDs = {a1, a2}
  NoCall = NoCall
  NoID = NoID
  LockEnabled = TRUE
  MaxAttempts = 2
  MaxPolls = 1
SYMMETRY Symmetry
INVARIANTS TypeOK OneOperationPerNode PublishOKMeansAttached UnpublishOKMeansGone
PROPERTIES DetachedOnlyByOwner ImplementsService
CHECK_DEADLOCK FALSE
