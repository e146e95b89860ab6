SPECIFICATION Spec
CONSTANTS
  MaxID = 4
  Sources = {"va", "vb"}
  Entries = {0, 1, 4}
  MaxLimit = 3
  DefaultLimit = 2
INVARIANTS TypeOK WalkIsComplete TokenIsAhead
PROPERTIES EveryWalkEnds
