SPECIFICATION MCSpec
CONSTANTS
  v1 = v1
  v2 = v2
  p1 = p1
  p2 = p2
  Payee = {v1, v2, p1, p2}
  Voter = {v1, v2}
  Provider = {p1, p2}
  Unset = Unset
  SelfStake <- MCSelfStake
  Delegation <- MCDelegation
  FoundationAddress = v2
  RetrievalAddress = Unset
  StorageInitial = 2
  ValidatorInitial = 5
  FoundationInitial = 1
  RetrievalInitial = 1
  PermanentFundCap = 2
  StorageRewardPerBlock = 1
  ValidatorRewardPerBlock = 4
  FoundationRewardPerBlock = 1
  RetrievalRewardPerBlock = 1
  PermanentFundInjectionBPS = 5000
  BlockProductionRewardBPS = 3000
  CommissionBPS = 1000
  Scale = 4
  Word = 8
  DaySeconds = 1
  VestingDays = 2
  RecomputeInterval = 1
  MaxSubsidy = 1
  MaxReleased = 9
  MaxUsedBytes = 2
  FirstClock = 1
  MaxClock = 3
  MaxIndexClock = 2
SYMMETRY MinerNames
INVARIANTS
  EmissionAccounted
  StorageRewardsBacked
CHECK_DEADLOCK FALSE
