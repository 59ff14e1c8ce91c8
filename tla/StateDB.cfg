SPECIFICATION Spec
CONSTANTS
  x = x
  None = None
  Address = {x, ripemd}
  Scopes = {{x}, {ripemd}}
  Ripemd = ripemd
  Slot = {k}
  Readers <- MCReaders
  Cancuns = {TRUE, FALSE}
  MaxEntries = 3
  MaxSnapshots = 2
  MaxOps = 4
  MaxTxs = 2
  MaxNonce = 1
  MaxBalance = 1
  MaxValue = 2
INVARIANTS
  TypeOK
  RootMatchesFlatState
  CommitNeverFails
  JournalConsistent
  MutationsHaveObjects
PROPERTIES
  ImplementsPlainState
