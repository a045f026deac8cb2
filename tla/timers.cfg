CONSTANTS
  Timers = {1, 2}
  Recurring = {2}
  Users = {u1}
  IdleThreads = {i1, i2}
  Delays = {1, 2}
  MaxTimeout = 2
  Horizon = 1
  MaxTime = 2
SPECIFICATION LiveSpec
CHECK_DEADLOCK FALSE
INVARIANTS
  TypeOK
  SetIsOrdered
  OneOutcome
  SleepsInTime
PROPERTIES
  DueIsTaken
