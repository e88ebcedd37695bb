CONSTANTS
  Inputs <- MCPassInputs
  ConciseTypes <- MCConciseTypes
SPECIFICATION Spec
INVARIANTS
  TypeOK
  ClockFieldsParsed
  AcceptedTextFitsTarget
  BitWrittenToAllocatedBuffer
CHECK_DEADLOCK FALSE
