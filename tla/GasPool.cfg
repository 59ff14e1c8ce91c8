SPECIFICATION Spec
CONSTANTS
  w1 = w1
  w2 = w2
  w3 = w3
  Client <- MCClient
  Messages <- MCMessages
  MaxUint64 = 6
  GasLimit = 6
INVARIANTS
  TypeOK
  GasConserved
  NeverPanics
PROPERTIES
  ImplementsAtomicGasPool
  Terminates
