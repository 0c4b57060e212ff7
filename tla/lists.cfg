SPECIFICATION Spec
CONSTANTS
  Names = {1, 2, 3}
  NumOf <- MCNumOf
  MaxShort = 5
  MaxVectors = 4
  MaxId = 16
  MayWrap = FALSE
INVARIANTS TypeOK ListsSorted FreshPositiveId
PROPERTY ImplementsSets
CHECK_DEADLOCK FALSE
