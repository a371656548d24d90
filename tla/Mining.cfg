SPECIFICATION MSpec
CONSTANTS
  v1 = v1
  m1 = m1
  None = None
  Address = {v1, m1}
  Owner = {v1}
  Delegator = {}
  GenesisBalance <- MCBalance
  MinValidatorStake = 2
  MinDelegationAmount = 1
  UnbondingPeriodSeconds = 1
  StakeAmount = {2}
  Evidence = {}
  Local = None
  MaxNonce = 1
  MaxTime = 2
  Miner = {v1, m1}
  Capacity = {1, 3}
  MinerStake = {0, 1}
  StakePerTiB = 1
  StoragePool = 5
  RegistrationBonusAmount = 2
  MaxBonusAddresses = 1
  BonusDeadlineSeconds = 1
  ActivationWindowSeconds = 1
  MinBonusProofCount = 1
  MinBonusSuccessRateBPS = 5000
  MinerDegradeThreshold = 1
  CapacityAdjustCooldownSeconds = 1
  EpochDuration = 1
  SlashPerMissedProof = 3
  MinConsensusValidators = 1
  MaxConsensusValidators = 1
  MaxEpochs = 2
INVARIANTS
  MNoMinting
  BonusWithinCap
CHECK_DEADLOCK FALSE
