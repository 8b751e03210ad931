SPECIFICATION Spec
CONSTANTS
  Missing = Missing
  RuleList <- RuleLists
  Context <- Contexts
INVARIANTS
  TypeOK
  VerdictIsConjunction
  BlameIsFirst
  IgnoranceNeverHelps
PROPERTIES
  ImplementsService
CHECK_DEADLOCK FALSE
