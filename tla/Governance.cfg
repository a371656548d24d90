SPECIFICATION Spec
CONSTANTS
  None = None
  alice = alice
  retrieval = retrieval
  foundation = foundation
  a = a
  m1 = m1
  h0 = h0
  o1 = o1
  o2 = o2
  o3 = o3
  p1 = p1
  p2 = p2
  d1 = d1
  d2 = d2
  Account <- Holders
  Client = {alice}
  GenesisTokens <- OwnerOnly
  MaxNonce = 4
  MaxTime = 2
  IntentID = {a}
  Miner = {m1}
  Hash = {h0}
  Layout <- Layouts
  HashOf <- Hashes
  Policies <- PoliciesOf
  Owner = alice
  Retrieval = retrieval
  Foundation = foundation
  Capacity = 2
  Fee = 5
  RenewPrice = 1
  ShareBPS = 1
  Whole = 5
  UploadTime = 1
  Grace = 1
  FreezeTime = 1
  TakeoverTime = 2
  SubsidyPool = 1
  Reward = 1
  RepairReward = 1
  RepairDelay = 1
  Operator = {o1, o2, o3}
  Committee = {o1, o2}
  ProposalID = {p1, p2}
  ActionID = {d1, d2}
  Requests <- Everything
  DirectRequests <- DirectModerations
  Weight = {"stored", "proof"}
  MaxWeight = 3
  GenesisConfig <- Rules
  ProposalTTL = 1
  ReviewWindow = 1
  MaxRequests = 3
SYMMETRY Names
CHECK_DEADLOCK FALSE
INVARIANTS
  ReviewRespected
PROPERTY
  QuorumDecides
