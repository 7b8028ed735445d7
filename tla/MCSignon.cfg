SPECIFICATION Spec
CONSTANTS
  Accounts <- AllAccounts
  Seeds <- AllSeeds
  Texts <- AllTexts
  MaxLogons = 2
INVARIANTS TypeOK SubstitutesTellApart SequenceNumberIsUndone SentIsWhatIsShown LettersDoNotDependOnThePage
CHECK_DEADLOCK FALSE
