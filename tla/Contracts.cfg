SPECIFICATION ContractsSpec
CONSTANTS
  None = None
  alice = alice
  h1 = h1
  tick = tick
  tock = tock
  left = left
  right = right
  User = {alice}
  Code = {h1}
  Key = {"k", "l"}
  Val = {1}
  Method = {tick, tock}
  Interval = 1
  MaxWasmKVEntries = 1
  MaxWasmCronJobs = 1
  MaxWasmSubscriptions = 1
  MaxWasmEventsPerCall = 1
  MaxWasmPendingEvents = 1
  WasmCronAutoDisable = 2
  MaxWasmNonce = 3
  Node = {left, right}
  Program <- SomePrograms
  CronSpec <- Jobs
  Tokens = 8
  Fee = 1
  Fund = {2}
  Reserve = 1
  MaxHeight = 2
  MaxRuns = 3
SYMMETRY Names
CHECK_DEADLOCK FALSE
INVARIANTS
  ReplicasAgree
  WasmSupply
  DestroyedCleanly
