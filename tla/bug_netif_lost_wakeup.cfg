SPECIFICATION FairSpec
CONSTANTS
  big = big
  small = small
  tiny = tiny
  NoLink = NoLink
  Link <- Three
  Size <- Sizes
  Delays <- TheDelays
  FiniteModes = {TRUE}
  BufferSize = 5
  CommSchedule <- Unranked
  Word = 256
  MaxOutstanding = 2
  MaxAge = 6
PROPERTIES
  BlockedWriterReleased
CHECK_DEADLOCK FALSE
