SPECIFICATION Spec
CONSTANTS
  a = a
  b = b
  c = c
  miner = miner
  Coinbase = miner
  CoinbaseBalance = 0
  Nil = Nil
  NoSender = NoSender
  None = None
  N = 4
  GasLimit = 6
  ParallelTxWorkers = 3
  ParallelTxDirectExecutionMaxWaveSize = 1
  ExecutionFlags = {TRUE, FALSE}
  Address <- MCAddress
  Txs <- MixedTxs
INVARIANTS
  TypeOK
  ReadsMatchBlockOrder
  FinalAccountsMatchBlockOrder
  CoinbaseReceivesEveryFee
  MergeFindsEveryFork
  GasAccounted
  GasFiguresFollowBlockOrder
  StateLogIndicesDense
  DatabaseErrorSurvives
  VerdictDeterminedWithAmpleGas
PROPERTIES
  ImplementsConflictOrder
  Terminates
