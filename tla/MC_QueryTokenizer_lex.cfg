CONSTANTS
  Inputs <- MCInputsLexBlock
  NoResultKinds <- MCNoResultKinds
SPECIFICATION FairSpec
INVARIANTS
  TypeOK
  TokensWellFormed
  ParamsMatchLexer
  RefinedTextMatchesLexer
PROPERTIES
  Termination
  ScanRefined
CHECK_DEADLOCK FALSE
