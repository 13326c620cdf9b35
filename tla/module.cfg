CONSTANTS
  c1 = c1
  broken = broken
  odd = odd
  w1 = w1
  w2 = w2
  None = None
  Messages = 3
  Workers = {w1, w2}
  Clients = {c1, broken, odd}
  Garbled = {broken}
  Unpackable = {odd}
  MaxOpen = 2
  MaxCrashes = 2
  MaxFaults = 1
SPECIFICATION Spec
INVARIANTS TypeOK OneLostPerCrash
PROPERTIES ClientsServed
CHECK_DEADLOCK FALSE
