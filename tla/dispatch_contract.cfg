SPECIFICATION DispatchSpec
CONSTANTS
  A = A
  B = B
  a1 = a1
  b1 = b1
  Modules = {A, B}
  Names = {a1, b1}
  LongNames = {}
  ModOf <- ModOfTwo
  NumOf <- NumOfTwo
  Nums = {1}
  MaxVectorId = 1
  MaxRefcnt = 2
  MaxModRef = 4
  MaxFreed = 1
  Contract <- AllClauses
  Tasks = {"t", "u"}
INVARIANT RunsLoadedCode
