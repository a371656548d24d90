SPECIFICATION Spec
CONSTANTS
  v1 = v1
  v2 = v2
  e1 = e1
  e2 = e2
  None = None
  Address = {v1, v2}
  Owner = {v1, v2}
  Delegator = {v2}
  GenesisBalance <- FourEach
  MinValidatorStake = 2
  MinDelegationAmount = 1
  UnbondingPeriodSeconds = 1
  StakeAmount = {2}
  Evidence = {e1, e2}
  Local = v1
  MaxNonce = 2
  MaxTime = 1
SYMMETRY EvidenceNames
CHECK_DEADLOCK FALSE
INVARIANTS
  NoMinting
  
