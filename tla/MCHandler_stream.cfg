SPECIFICATION Spec
CONSTANTS
  Segments <- StreamSegments
  MaxSegments = 3
  MaxConnections = 2
  SeedTag <- Tag
  SeedLength = 2
  Credentials = TRUE
INVARIANTS TypeOK InOrder HeldForRecordOnly
PROPERTIES ReportedOnce FramedDelivery RequestsAreAnswered
CHECK_DEADLOCK FALSE
