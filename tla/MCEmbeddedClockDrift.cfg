SPECIFICATION Spec
CONSTANTS
  TickPeriod = 5
  SleepFloor = 1
  StopThreshold = 3
  LsiPeriod = 2
  DirectRange = 4
  Prescalers = {1, 2, 4}
  CounterTurn = 12
  MaxInterval = 11
  MaxLate = 1
  MaxLag = 2
  MaxElapsed = 30
INVARIANT TimeIsCountedOnce
