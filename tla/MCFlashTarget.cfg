SPECIFICATION FairSpec
CONSTANTS
  PageCount = 2
  MaxFaults = 2
INVARIANTS NeverJammed OneFaultIsNoticed
PROPERTIES NeverUnderRunningCode EventuallyStamped SessionsEnd
