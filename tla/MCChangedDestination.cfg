SPECIFICATION Spec
SYMMETRY Symmetry
CONSTANTS
  Missing = Missing
  Chain = {c1, c2}
  RuleList <- RuleLists
  GovernanceModule <- GovernanceModules
  Deployment <- Deployments
  Override <- Orders
  Signer <- Signers
  Time = {0}
  MaxAmendments = 2
  MaxCertificates = 2
  MaxRecords = 2
INVARIANT ChangedAssetRefused
CHECK_DEADLOCK FALSE
