SPECIFICATION SnapSpec
CONSTANTS
  Names = {1, 2}
  NumOf <- MCNumOf
  MaxShort = 7
  MaxVectors = 4
  MaxId = 4
  MayWrap = FALSE
INVARIANTS CopiesTable MissesNothing
