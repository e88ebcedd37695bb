CONSTANTS
  ByteBits <- MCByteBits
  Cap <- MCCap
  Values <- MCValues
  Binds <- MCBinds
SPECIFICATION Spec
INVARIANTS
  TypeOK
  IntegerStoredByNarrowing
  TextReadFromOffset
PROPERTIES
  WritesStayInBuffer
CHECK_DEADLOCK FALSE
