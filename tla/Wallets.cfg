SPECIFICATION Spec
CONSTANTS
  None = None
  alice = alice
  bob = bob
  carol = carol
  pool = pool
  tx1 = tx1
  tx2 = tx2
  k1 = k1
  k2 = k2
  Account <- Holders
  Client = {alice, bob}
  GenesisTokens <- SomeEach
  MaxNonce = 3
  MaxTime = 3
  Pool = pool
  Relayer = {bob}
  SourceTx = {tx1, tx2}
  BridgeAmount = {1, 2}
  BridgeFee = 1
  DailyMaximum = {1, 2}
  Day = 2
  ConfigSkew = 0
  MaxConfigs = 3
  Wallet <- Joints
  Signer = {alice, bob, carol}
  Payment = {1, 2}
  ExecFee = 1
  MaxExec = 3
  KeyID = {k1}
  AgentPub = {bob}
  Limit = {0, 1, 3}
  Spend = {1, 2}
  AgentDay = 2
  MaxKeysPerAccount = 1
  n1 = n1
  n2 = n2
  miner = miner
  Replica = {n1, n2}
  Writer = {alice}
  File <- Files
  Receipt <- Receipts
  NoRecord = None
  MaxWrites = 4
SYMMETRY Alike
CHECK_DEADLOCK FALSE
INVARIANTS
  BridgePoolBacked
  BridgeDayLimit
  WalletNeverStuck
  
  AgentLimits
  RecordsReplicate
