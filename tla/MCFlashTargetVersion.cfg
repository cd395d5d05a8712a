SPECIFICATION FairSpec
CONSTANTS
  PageCount = 2
  MaxFaults = 1
INVARIANTS VersionIsDetected
