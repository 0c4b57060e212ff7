SPECIFICATION TableSpec
CONSTANTS
  Modules = {}
  Names = {}
  LongNames = {}
  ModOf <- NoNames
  NumOf <- NoNames
  Nums = {1}
  MaxVectorId = 1
  MaxRefcnt = 5
  MaxModRef = 0
  MaxFreed = 0
  Contract <- AllClauses
  Procs = {"p1", "p2"}
  InitProcs = {"p1"}
  Admins = {"x", "y"}
INVARIANTS AssignedKeepsTable InsideLoaded
