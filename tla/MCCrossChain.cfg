SPECIFICATION Spec
SYMMETRY Symmetry
CONSTANTS
  Missing = Missing
  Chain = {c1, c2}
  RuleList <- RuleLists
  GovernanceModule <- GovernanceModules
  Deployment <- Deployments
  Override <- Orders
  Signer <- Signers
  Time = {0}
  MaxAmendments = 1
  MaxCertificates = 2
  MaxRecords = 2
INVARIANTS
  TypeOK
  LinksMatch
  LinkedRollbacksOverlap
CHECK_DEADLOCK FALSE
