CONSTANTS
  Trends <- SomeTrends
  R1 = 40
  R2 = 60
  Topt = 3
  PMin = 4
  N = 2
  Requests = {1, 9}
  Draws <- AllDraws
SPECIFICATION Spec
CHECK_DEADLOCK FALSE
INVARIANTS
  TypeOK
  MinGap
PROPERTY Returns
