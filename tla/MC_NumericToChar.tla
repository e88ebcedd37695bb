--------------------------- MODULE MC_NumericToChar ---------------------------
(***************************************************************************)
(* Model-checking instance of NumericToChar.  The accumulator widths are  *)
(* scaled down to 16 bits, long as wide as long long as on LP64 builds,   *)
(* so that a magnitude of three bytes already exercises the shift of      *)
(* ByteDenominator past the width of long and the wrap of Numerator.      *)
(***************************************************************************)
EXTENDS NumericToChar

MCLongBits == 16
MCLongLongBits == 16
MCNumericLen == 16
MCBufLen == 38

(* Bytes 0..2 of the magnitude: 57 + 48 * 256 = 12345 (the round-trip     *)
(* example), 128 * 256 passes 2^15, and byte 2 lies past the width.       *)
Byte0 == {0, 5, 57}
Byte1 == {0, 48, 128}
Byte2 == {0, 1}

MCNumerics ==
  { [sign |-> s, precision |-> 0, scale |-> 0,
     val |-> [i \in 0..(MCNumericLen - 1) |->
                CASE i = 0 -> b0 [] i = 1 -> b1 [] i = 2 -> b2 [] OTHER -> 0]] :
      s \in {0, 1}, b0 \in Byte0, b1 \in Byte1, b2 \in Byte2 }

(* Descriptor precision and scale with scale <= precision.                *)
MCDescs == { d \in [precision : {1, 2, 3, 5}, scale : {-1, 0, 1, 2}] :
               d.scale <= d.precision }
=============================================================================
