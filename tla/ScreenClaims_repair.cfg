SPECIFICATION ScreenSpec
CONSTANTS
  Streams <- NoStreams
  NextStreams <- NoStreams
  MaxResets = 0
  MessageMenu <- Messages
  WrongLengths <- TooShort
  MaxMessages = 1
INVARIANTS RecordsStayApart
CHECK_DEADLOCK FALSE
