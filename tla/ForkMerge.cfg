SPECIFICATION Spec
CONSTANTS
  x = x
  y = y
  z = z
  v = v
  w = w
  None = None
  Address = {x, y, z}
  Ripemd = y
  Coinbase = z
  Slot = {k}
  Readers <- MCReaders
  Workers = {v, w}
  MaxTxs = 3
  MaxBalance = 2
SYMMETRY WorkerSymmetry
INVARIANTS
  TypeOK
  MergeShowsSequentialAccounts
  MergeCommitsSequentialState
  ForksIsolated
