SPECIFICATION Spec
CONSTANTS
  Times = {200}
  Averages = {1, 3}
  Interval = 7000
  ClockRate = 2
  Samples = {1, 300, 40000}
  MaxFaults = 1
INVARIANT FloatAgreesWithRaw
CHECK_DEADLOCK FALSE
