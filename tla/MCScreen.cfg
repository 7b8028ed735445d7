SPECIFICATION ScreenSpec
CONSTANTS
  Streams <- NoStreams
  NextStreams <- NoStreams
  MaxResets = 0
  MessageMenu <- Messages
  WrongLengths <- LengthsInstead
  MaxMessages = 2
INVARIANTS ReadingAddsUp
PROPERTIES ScreenIsTheMessages EveryMessageShows
CHECK_DEADLOCK FALSE
