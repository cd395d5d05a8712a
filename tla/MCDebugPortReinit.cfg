SPECIFICATION FairSpec
CONSTANTS
  LastAddress = 1
  Values = {v1}
  MaxLength = 2
  MaxAttempts = 2
  MaxRetries = 2
  MaxNoise = 1
PROPERTIES Reinitializes
CHECK_DEADLOCK FALSE
