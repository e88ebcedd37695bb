CONSTANTS
  ByteBits <- MCByteBits
  Cap <- MCCap
  Values <- MCValues
  Binds <- MCBinds
SPECIFICATION Spec
INVARIANT NoNullWrite
CHECK_DEADLOCK FALSE
