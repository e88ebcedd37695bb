CONSTANTS
  Inputs <- MCInputsWords
  NoResultKinds <- MCNoResultKinds
SPECIFICATION Spec
INVARIANTS
  QueryTypeIsFirstSubQuery
  IInv
CHECK_DEADLOCK FALSE
