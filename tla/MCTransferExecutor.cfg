SPECIFICATION Spec
SYMMETRY Symmetry
CONSTANTS
  Missing = Missing
  BpsScale = 5
  MaxUint = 1
  Party <- Parties
  Value = {2}
  Nonce = {n1, n2}
  Asset <- Assets
  Context <- Contexts
  Records <- Files
  MaxTime = 1
  MaxEvents = 2
INVARIANTS
  TypeOK
  SettlesOnce
  ReplayAnswersReplay
  SettledIsCompliant
PROPERTIES
  StandingUnlessLapsedSince
  NothingAfterRedemption
  ImplementsBook
