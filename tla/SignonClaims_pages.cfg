SPECIFICATION Spec
CONSTANTS
  Accounts <- AllAccounts
  Seeds <- AllSeeds
  Texts <- AllTexts
  MaxLogons = 0
PROPERTIES FieldsKeepTheirBytes
