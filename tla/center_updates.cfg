CONSTANTS
  a1 = a1
  a2 = a2
  d1 = d1
  s1 = s1
  l1 = l1
  p1 = p1
  p2 = p2
  m1 = m1
  m2 = m2
  None = None
  Listeners = {l1}
  Procs = {p1, p2}
  Modules = {m1, m2}
  Tasks <- MCTasks
  Kind <- MCKind
  Refusable <- MCRefusable
  QueueSize = 1
  MaxFailures = 1
SPECIFICATION Spec
INVARIANTS TypeOK CodeZeroMeansAll ModulesAfterCandidate HistoryHoldsAnswered
PROPERTIES EveryRequestEnds
CHECK_DEADLOCK FALSE
