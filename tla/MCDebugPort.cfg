SPECIFICATION Spec
CONSTANTS
  LastAddress = 1
  Values = {v1, v2}
  MaxLength = 2
  MaxAttempts = 2
  MaxRetries = 2
  MaxNoise = 2
SYMMETRY Symmetry
INVARIANTS SelectAgrees ReadsAreTrue WritesAreExact
CHECK_DEADLOCK FALSE
