SPECIFICATION TestSpec
CONSTANTS
  TS = TS
  read2 = read2
  mkdir2 = mkdir2
  Owner = TS
  Modules = {TS}
  Names = {read2, mkdir2}
  LongNames = {}
  ModOf <- ModOfAll
  NumOf <- NumOfAll
  Registers <- RegistersAll
  Mapped <- MappedAll
  Nums = {}
  MaxVectorId = 2
  MaxRefcnt = 1
  MaxModRef = 5
  MaxFreed = 1
  Contract = {"one_at_a_time", "hands_off"}
PROPERTIES FollowsRules OthersStay UnloadReleases
