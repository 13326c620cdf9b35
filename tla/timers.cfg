CONSTANTS
  Hour = 6
  Day = 12
  FlushAt = 11
  ReloadAt = 10
  TrainAt = 5
  RolloverAt = 3
  Interval = 3
  MaxGap = 1
  MaxNow = 30
  MaxRestarts = 2
  MaxFailures = 1
SPECIFICATION TimersSpec
CHECK_DEADLOCK FALSE
INVARIANTS
  TimersTypeOK
  KeepsSchedule
