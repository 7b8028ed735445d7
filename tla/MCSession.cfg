SPECIFICATION SessionSpec
CONSTANTS
  Segments <- NoSegments
  MaxSegments = 6
  MaxConnections = 1
  SeedTag <- Tag
  SeedLength = 2
  Credentials = FALSE
  Handshake <- HostHandshake
  RecordMenu <- HostRecords
  MaxRecords = 2
PROPERTIES ImplementsRecordChannel EveryRecordArrives HandshakeCompletes EverythingIsConsumed
CHECK_DEADLOCK FALSE
