SPECIFICATION Spec
CONSTANTS
  Segments <- SeedSegments
  MaxSegments = 1
  MaxConnections = 1
  SeedTag <- Tag
  SeedLength = 2
  Credentials = TRUE
PROPERTIES SubnegotiationStaysInside
CHECK_DEADLOCK FALSE
