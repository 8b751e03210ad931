SPECIFICATION Spec
CONSTANTS
  WordBytes = 1
  AmountBytes = 2
  NonceDigits = 2
  HashDigits = 2
  MaxEntries = 2
  Claim <- Claims
INVARIANTS
  TypeOK
  SettlesOnceAnywhere
  RecordedVerifies
  IdsIdentify
CHECK_DEADLOCK FALSE
