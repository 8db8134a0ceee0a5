SPECIFICATION FairFifoSpec
CONSTANTS
  big = big
  small = small
  a = a
  b = b
  NoLink = NoLink
  NoValue = NoValue
  Link <- Two
  Size <- Sizes
  Delays <- TheDelays
  FiniteModes = {TRUE, FALSE}
  BufferSize = 5
  CommSchedule <- Schedule
  Word = 256
  MaxOutstanding = 4
  MaxAge = 12
  Mappings <- TheMappings
  Capacity <- Capacities
  Payload <- Payloads
  Initial <- Tokens
INVARIANTS
  FifoTypeOK
  BufferAccounted
  TransfersMatchContent
  ReadEndsWithTransfer
  FullWriterWoken
PROPERTIES
  ImplementsLogicChannel
  MessagesDelivered
  ServedInRequestOrder
  ConcurrentInScheduleOrder
CHECK_DEADLOCK FALSE
