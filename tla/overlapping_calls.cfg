SPECIFICATION AssignSpec
CONSTANTS
  Modules = {}
  Names = {}
  LongNames = {}
  ModOf <- NoNames
  NumOf <- NoNames
  Nums = {}
  MaxVectorId = 2
  MaxRefcnt = 6
  MaxModRef = 0
  MaxFreed = 0
  Contract <- OverlappingCalls
  Procs = {"p1", "p2"}
  InitProcs = {"p1"}
  Admins = {"x", "y"}
INVARIANT AssignedVectorExists
