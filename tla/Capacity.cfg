SPECIFICATION Spec
CONSTANTS
  Width = 6
  GiB = 4
  MinGiB = 3
INVARIANTS CreatedSizeIsSmallest ExpandedSizeIsSmallest LimitIsNearlyKept
CHECK_DEADLOCK FALSE
