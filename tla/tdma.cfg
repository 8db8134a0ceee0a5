SPECIFICATION Spec
CONSTANTS
  a = a
  b = b
  NoAnswer = NoAnswer
  Sender <- SenderSet
  NChannels = 3
  Word = 16
  Payload = 2
  BitTime = 1
  GuardTimes = {0, 1}
  CycleTimes = {0, 10}
  Channels <- ChannelSet
INVARIANTS
  TypeOK
  AutomaticSlotsExclusive
  RequestFitsTable
  BoundHolds
CHECK_DEADLOCK FALSE
