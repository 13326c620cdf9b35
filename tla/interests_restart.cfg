CONSTANTS
  Users = {u1}
  Categories = {c1}
  Window = 1
  MaxNow = 2
  MaxEvents = 3
  MaxCounter = 3
  MaxRestarts = 2
  Threads = {t1}
SPECIFICATION Spec
PROPERTY RestartKeepsCurrent
