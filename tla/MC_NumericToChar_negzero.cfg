CONSTANTS
  LongBits <- MCLongBits
  LongLongBits <- MCLongLongBits
  NumericLen <- MCNumericLen
  BufLen <- MCBufLen
  Numerics <- MCNumerics
  Descs <- MCDescs
SPECIFICATION Spec
INVARIANT BufferInBounds
CHECK_DEADLOCK FALSE
