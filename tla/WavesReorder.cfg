SPECIFICATION Spec
CONSTANTS
  a = a
  b = b
  c = c
  miner = miner
  Coinbase = miner
  CoinbaseBalance = 5
  Nil = Nil
  NoSender = NoSender
  None = None
  N = 3
  GasLimit = 4
  ParallelTxWorkers = 2
  ParallelTxDirectExecutionMaxWaveSize = 1
  ExecutionFlags = {FALSE}
  Address <- MCAddress
  Txs <- TightTxs
INVARIANTS
  AcceptedOnlyIfValid
