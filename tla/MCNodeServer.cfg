SPECIFICATION Spec
CONSTANTS
  Volumes = {v1, v2}
  BlockVolumes = {v2}
  Pods = {p1}
  ReadOnlyPods = {p1}
  Global = Global
  Calls = {c1, c2, c3}
  NoCall = NoCall
  Host = Host
  MountRootKnown = FALSE
  MaxSize = 2
SYMMETRY Symmetry
CONSTRAINT OneVolume
INVARIANTS TypeOK NoStackedMounts StageOKMeansMounted StageOKMeansSized PublishOKMeansMounted PublishOKMeansReadOnly CleanupOKMeansGone ExpandOKMeansGrown UsageOKMeansVolume
PROPERTIES DataSurvives
CHECK_DEADLOCK FALSE
