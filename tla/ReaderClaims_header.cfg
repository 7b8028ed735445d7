SPECIFICATION Spec
CONSTANTS
  Streams <- HeaderOnly
  NextStreams <- AfterReset
  MaxResets = 0
INVARIANTS WellFormedHeadersAreRead
CHECK_DEADLOCK FALSE
