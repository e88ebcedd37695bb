CONSTANTS
  LongBits <- MCLongBits
  LongLongBits <- MCLongLongBits
  NumericLen <- MCNumericLen
  BufLen <- MCBufLen
  Numerics <- MCNumerics
  Descs <- MCDescs
SPECIFICATION Spec
INVARIANTS
  TypeOK
  ScaledTextIsPrefixOfValue
  IntegerTextIsValueDigits
CHECK_DEADLOCK FALSE
