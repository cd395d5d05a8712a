SPECIFICATION FairSpec
CONSTANTS
  QueueSize = 2
  MaxProcessors = 2
  Processors = {sniffer, led, log}
  Declining = {sniffer}
  Word = 4
  Transmitters = {announce, leds}
  FifoSize = 2
  Mailboxes = 2
  MaxFrames = 5
  MaxTransmits = 3
INVARIANT OfferedInOrder
PROPERTIES ImplementsFifo NothingLostUnlessFull AcceptedIsSent
CHECK_DEADLOCK FALSE
