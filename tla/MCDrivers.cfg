SPECIFICATION Spec
CONSTANTS
  Drivers = {"radio", "settings", "board id", "sensors", "clock tree", "simulation", "wire", "pins", "ring", "spi", "mock radio",
             "can echo", "buffers", "messages", "domains", "identifiers", "whole flash", "analog", "watchdog", "streaming"}
  MaxSequence = 4
  Word = 3
  RadioFaults = 1
  MaxFaults = 2
  AtomicBlock = TRUE
  WindowIsShort = TRUE
  Powers <- MCPowers
  Lengths = {1, 8, 9}
  Thresholds = {0, 255}
  PowerAnytime = FALSE
  Times = {200, 400}
  Averages = {1, 3}
  TaskInterval = 7000
  ClockRate = 2
  Samples = {1, 300}
  Sleeps = {"sleep", "stop"}
  Generators = {"fast", "slow"}
  Interval <- MCInterval
  Steps = {1, 3, 5}
  End = 10
  MAX_ATTEMPTS = 3
  PinDrivers = {"led", "can", "i2c1", "i2c2", "programmer", "board_id"}
  PageSize = 2
  NumPages = 2
  Policies = {TRUE, FALSE}
  Styles = {"signal", "call"}
  MaxElements = 7
  MTU = 7
  UsingInterrupt = TRUE
  TransmitTime = 2
  MaxTime = 4
  MaxFragments = 3
  Period = 8
  MaxIdentifier = 7
  IdentifierRange = 6
  NumElements = 2
  OtherSizes = {1, 3}
  SizeRange = 16
  MessageSize = 3
  IdRange = 8
  TypeRange = 4
  Capacity = 2
  CounterRange = 4
  Bounds = {0, 1, 3}
  Categories = {2, 4}
  MaxValues = 2
  Bits = 4
  Base = 8
  MaxDigits = 2
  PageCount = 2
  PageRows = 2
  LinkFaults = 1
  Channels = {0, 1}
  MaxWork = 2
  MaxOversleep = 1
INVARIANTS RadioIsSound SettingsHold ConversionsAreSound
INVARIANTS MonitorsAreSound ClockIsSound InterruptsAreExact ProgrammerIsSound PinsAreAsAsked
INVARIANTS SignalsAreNotMissed TransfersAreWhole FragmentsAreAccountedFor
INVARIANTS EchoesAddUp DataIsExact
PROPERTIES NobodyWaitsForever
CHECK_DEADLOCK FALSE
