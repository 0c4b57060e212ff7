SPECIFICATION Spec
CONSTANTS
  A = A
  B = B
  a1 = a1
  b1 = b1
  a2 = a2
  long = long
  Modules = {A, B}
  Names = {a1, b1, a2, long}
  LongNames = {long}
  ModOf <- ModOfAll
  NumOf <- NumOfAll
  Nums = {}
  MaxVectorId = 2
  MaxRefcnt = 1
  MaxModRef = 5
  MaxFreed = 1
  Contract <- Strict
INVARIANTS TblRefExact OneEntryPerNum NoFreedEntry MappedModuleLoaded ModRefExact
PROPERTIES ErrorLeavesNoTrace ModulesPinned ImplementsSets
