CONSTANTS
  Inputs <- MCInputsLex
  NoResultKinds <- MCNoResultKinds
SPECIFICATION Spec
INVARIANTS
  UnclosedQuoteParamsFound
CHECK_DEADLOCK FALSE
