CONSTANTS
  Records = {r1, r2}
  MaxCounter = 2
  MaxCrashes = 2
  MaxFaults = 1
SPECIFICATION Spec
CHECK_DEADLOCK FALSE
INVARIANTS
  TypeOK
  RecoveryPrefix
  ReplayComplete
  RecordedOnce
PROPERTIES
  OwnLogsFrozen
  JournalSpec
  OpenEnds
