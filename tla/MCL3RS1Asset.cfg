SPECIFICATION Spec
SYMMETRY Symmetry
CONSTANTS
  Account = {issuer, alice}
  Oracle = {oracle}
  NoAddress = NoAddress
  Issuer = issuer
  Nonce = {n1, n2}
  MaxUint = 4
  FeeRateBps = 2
  BpsScale = 3
INVARIANTS
  TypeOK
  SupplyConserved
  NonceSettlesOnce
  HoldersWereEntitled
PROPERTIES
  DebitsAreCleared
  UnclearedBalancesOnlyGrowByMint
  SettlementIsLocal
  ImplementsLedger
