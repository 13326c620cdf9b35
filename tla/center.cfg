CONSTANTS
  p1 = p1
  p2 = p2
  f1 = f1
  u1 = u1
  a1 = a1
  a2 = a2
  None = None
  Procs = {p1, p2}
  Flushers = {f1}
  Users = {u1}
  Articles = {a1, a2}
  Reported <- MCReported
  Takes = {1}
  FlushCount = 1
  SaveCount = 2
  QueueSize = 2
  MaxQueries = 3
  MaxCrashes = 1
SPECIFICATION Spec
INVARIANTS TypeOK ShownWasTold
PROPERTIES PromiseSpec FeedbackKept QueriesAnswered
CHECK_DEADLOCK FALSE
