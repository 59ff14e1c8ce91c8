SPECIFICATION Spec
CONSTANTS
  x = x
  y = y
  k = k
  l = l
  None = None
  Address = {x, y}
  Slot = {k, l}
  Lists <- MCLists
  MaxEntries = 3
  MaxSnapshots = 2
  MaxTxs = 2
INVARIANTS
  TypeOK
  NeverPanics
  RevertRestores
  SlotMapsOwned
  LogsDense
