SPECIFICATION FairAssignSpec
CONSTANTS
  Modules = {}
  Names = {}
  LongNames = {}
  ModOf <- NoNames
  NumOf <- NoNames
  Nums = {}
  MaxVectorId = 2
  MaxRefcnt = 2
  MaxModRef = 0
  MaxFreed = 0
  Contract <- NoLockKept
  Procs = {"p1"}
  InitProcs = {"p1"}
  Admins = {"x", "y"}
PROPERTIES CallsReturn ExitCompletes
