CONSTANTS
  i1 = i1
  c1 = c1
  c2 = c2
  Threads = {t1, t2}
  Users = {u1, u2}
  Items = {i1}
  Categories = {c1, c2}
  Belongs <- OneItem
  MaxDeliveries = 5
  MaxFaults = 1
  MaxCrashes = 1
SPECIFICATION Spec
CHECK_DEADLOCK FALSE
INVARIANTS
  TypeOK
  CountedAtMostThreads
  LogsAgree
  SettledClickCounted
