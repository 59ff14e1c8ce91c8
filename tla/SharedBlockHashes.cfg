SPECIFICATION Spec
CONSTANTS
  v = v
  w = w
  None = None
  Client = {v, w}
  Number = 5
  Lower = 2
  Oldest = 0
  MaxCalls = 2
INVARIANT
  HashCorrespondsToHeight
