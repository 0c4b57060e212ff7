SPECIFICATION UserSpec
CONSTANTS
  A = A
  a1 = a1
  b1 = b1
  Modules = {A}
  Names = {a1, b1}
  LongNames = {}
  ModOf <- ModOfTwo
  NumOf <- NumOfTwo
  Nums = {1}
  MaxVectorId = 1
  MaxRefcnt = 1
  MaxModRef = 2
  MaxFreed = 1
  Contract = {}
  Handlers = {"h"}
  MaxWords = 3
INVARIANTS TypeOK TblRefExact OneEntryPerNum FreedOnReturn ParsesAsUsage SaysWhatWasDone
PROPERTY OutcomeTold
CHECK_DEADLOCK FALSE
