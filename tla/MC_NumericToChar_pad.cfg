CONSTANTS
  LongBits <- MCLongBits
  LongLongBits <- MCLongLongBits
  NumericLen <- MCNumericLen
  BufLen <- MCBufLen
  Numerics <- MCNumerics
  Descs <- MCDescs
SPECIFICATION Spec
INVARIANT ValueRendered
CHECK_DEADLOCK FALSE
