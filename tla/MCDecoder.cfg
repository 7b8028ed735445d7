SPECIFICATION Spec
CONSTANTS
  Streams <- AllStreams
  NextStreams <- AfterReset
  MaxResets = 1
INVARIANTS TypeOK FramedAsAWhole NothingCarriesOver ScreenUpdateComesLast NothingLeaksToTheScreen RereadIsStable SameCommandsForBoth
PROPERTIES CallsReturn
CHECK_DEADLOCK FALSE
