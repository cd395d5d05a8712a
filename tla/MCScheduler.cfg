SPECIFICATION FairSpec
CONSTANTS
  Tasks = {t1, t2, t3}
  NoTask = NoTask
  QueueSize = 3
  MaxDelay = 3
  MaxSleep = 2
  SleepFloor = 1
  ClockError = 1
INVARIANTS NoOversleep NoDueTaskSkipped
PROPERTIES ImplementsTasking EventuallyResumed StopEndsStart
CHECK_DEADLOCK FALSE
