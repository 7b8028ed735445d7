SPECIFICATION Spec
CONSTANTS
  Items <- AllItems
  MaxItems = 2
  MaxResets = 1
INVARIANTS TypeOK CallbacksAreTheItems NothingIsHeldBack DataComesFirst RecordsArriveWhole AnswersAreRead
CHECK_DEADLOCK FALSE
