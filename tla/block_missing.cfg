SPECIFICATION FairAssignSpec
CONSTANTS
  Modules = {}
  Names = {}
  LongNames = {}
  ModOf <- NoNames
  NumOf <- NoNames
  Nums = {1}
  MaxVectorId = 2
  MaxRefcnt = 4
  MaxModRef = 0
  MaxFreed = 0
  Contract <- BlockMissing
  Procs = {"p1", "p2"}
  InitProcs = {"p1"}
  Admins = {"x"}
PROPERTY ExitCompletes
