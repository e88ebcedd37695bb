CONSTANTS
  Inputs <- MCAllInputs
  ConciseTypes <- MCConciseTypes
SPECIFICATION Spec
INVARIANT CopyReleased
CHECK_DEADLOCK FALSE
