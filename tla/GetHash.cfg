SPECIFICATION Spec
CONSTANTS
  v = v
  w = w
  None = None
  Client = {v}
  Number = 5
  Lower = 0
  Oldest = 2
  MaxCalls = 3
INVARIANTS
  CacheIsAncestorChain
  HashCorrespondsToHeight
PROPERTY
  CallsReturn
