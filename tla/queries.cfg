CONSTANTS
  Readers = {q1}
  Categories = {1, 2}
  Users = {1, 2}
  InOrder <- MCInOrder
  kCategory <- MCkCategory
  Interests <- MCInterests
  MaxTrainings = 2
  MaxJobs = 3
  MaxConversions = 2
  MaxFaults = 1
  MaxRestarts = 1
SPECIFICATION PredictionSpec
CHECK_DEADLOCK FALSE
INVARIANTS
  PredictionTypeOK
  ReadsOneVersion
  TablesWhole
  CurrentUserAnswered
