CONSTANTS
  Users = {u1, u2}
  Categories = {c1}
  Threads = {t1, t2}
  Window = 2
  MaxNow = 2
  MaxEvents = 3
  MaxCounter = 2
  MaxRestarts = 1
SPECIFICATION Spec
CHECK_DEADLOCK FALSE
INVARIANTS
  TypeOK
  PriorIsSumOfUsers
  NeverOvercounted
  WeightsFinite
