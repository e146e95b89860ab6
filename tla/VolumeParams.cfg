SPECIFICATION Spec
CONSTANTS
  KeySets = {{"profile", "encrypted", "encryptionKey"}, {"profile", "zone", "resourceGroup", "iops"}}
  MaxPreferred = 2
INVARIANTS TypeOK KeyIsAsMeant PlacementIsAsMeant NothingInvalidPasses
CHECK_DEADLOCK FALSE
