SPECIFICATION LocalSpec
CONSTANTS
  n1 = n1
  n2 = n2
  o1 = o1
  o2 = o2
  u = u
  Node = {n1, n2}
  Account = {o1, o2, u}
  Owner <- MCOwner
  Operator <- MCOwner
  Address <- MCAddress
  Tx <- MCTx
  Balance <- MCBalance
  defaultBaseFee = 2
  TargetBlockTxs = 1
  MaxBlockTxs = 2
  MaxMempoolTxs = 3
  MaxPerSender = 2
  MaxHeight = 2
PROPERTY
  RejectedBlockNotApplied
