SPECIFICATION Spec
CONSTANTS
  None = None
  alice = alice
  retrieval = retrieval
  foundation = foundation
  a = a
  b = b
  pooled = pooled
  coded = coded
  m1 = m1
  m2 = m2
  m3 = m3
  h0 = h0
  h1 = h1
  h2 = h2
  h3 = h3
  Account <- Holders
  Client = {alice}
  GenesisTokens <- OwnerOnly
  MaxNonce = 5
  MaxTime = 3
  IntentID = {a, b, pooled, coded}
  Miner = {m1, m2, m3}
  Hash = {h0, h1, h2, h3}
  Layout <- Layouts
  HashOf <- Hashes
  Policies <- PoliciesOf
  Owner = alice
  Retrieval = retrieval
  Foundation = foundation
  Capacity = 2
  Fee = 5
  RenewPrice = 1
  ShareBPS = 1
  Whole = 5
  UploadTime = 1
  Grace = 1
  FreezeTime = 1
  TakeoverTime = 2
  SubsidyPool = 1
  Reward = 1
  RepairReward = 1
  RepairDelay = 2
SYMMETRY MinerNames
CHECK_DEADLOCK FALSE
INVARIANTS
  SupplyAccounted
  EscrowBacked
  MinersPaid
  
  DeletedEverywhere
  ModerationHolds
