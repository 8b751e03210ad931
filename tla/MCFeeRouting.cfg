SPECIFICATION Spec
CONSTANTS
  BpsScale = 5
  MaxUint = 6
  Word = 12
  FeeModule <- FeeModules
  Amount <- Amounts
INVARIANTS
  RejectsExactlyInvalid
  DustIsBounded
  SharesWithinFee
PROPERTIES
  ImplementsService
CHECK_DEADLOCK FALSE
