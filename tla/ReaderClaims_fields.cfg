SPECIFICATION Spec
CONSTANTS
  Streams <- Fields
  NextStreams <- AfterReset
  MaxResets = 0
INVARIANTS StructuredFieldsAreWhole
CHECK_DEADLOCK FALSE
