SPECIFICATION Spec
CONSTANTS
  a = a
  b = b
  c = c
  Nil = Nil
  NoSender = NoSender
  N = 4
  Address <- MCAddress
  Txs <- MCTxs
INVARIANTS
  TypeOK
  EveryTxInExactlyOneGroup
  ConflictsKeepBlockOrder
  NoNeedlessWave
PROPERTY
  Terminates
