SPECIFICATION Spec
CONSTANTS
  Volumes = {v1}
  BlockVolumes = {}
  Pods = {p1}
  ReadOnlyPods = {p1}
  Global = Global
  Calls = {c1, c2, c3}
  NoCall = NoCall
  Host = Host
  MountRootKnown = TRUE
  MaxSize = 2
SYMMETRY Symmetry
INVARIANTS FormatsOnlyIfNeeded
CHECK_DEADLOCK FALSE
