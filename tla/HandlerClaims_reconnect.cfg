SPECIFICATION Spec
CONSTANTS
  Segments <- ReconnectSegments
  MaxSegments = 2
  MaxConnections = 2
  SeedTag <- Tag
  SeedLength = 2
  Credentials = TRUE
PROPERTIES TerminalTypeCompletesHandshake
CHECK_DEADLOCK FALSE
