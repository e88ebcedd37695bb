---------------------------- MODULE NumericToChar ----------------------------
(***************************************************************************)
(* The rendering of an SQL_NUMERIC_STRUCT parameter as decimal text that   *)
(* is sent to the server: MADB_Numeric2Sql and MADB_ConvertNumericToChar   *)
(* of ma_typeconv.c.                                                       *)
(*                                                                         *)
(* Text is a sequence of one-character strings "0".."9", "-" and ".".      *)
(* The magnitude is accumulated in a C `long` and `long long` whose widths *)
(* are the constants LongBits and LongLongBits; signed overflow and the    *)
(* left shift out of range are modelled as the two's-complement wrap the   *)
(* builds produce.  "%lld" and "%.*f" are modelled by the digits they      *)
(* print: for an accumulator below 2^53 the double division and printf's  *)
(* rounding give the exact decimal, which is what the model renders.       *)
(***************************************************************************)
EXTENDS Integers, Sequences

CONSTANTS
  LongBits,        \* width of `long` (ByteDenominator): 64 on LP64, 32 on Windows
  LongLongBits,    \* width of `long long` (Numerator)
  NumericLen,      \* SQL_MAX_NUMERIC_LEN, the bytes of the magnitude
  BufLen,          \* the size passed to _snprintf
  Numerics,        \* the SQL_NUMERIC_STRUCT values an application binds
  Descs            \* the precision and scale of the parameter's SqlRec

ASSUME WidthAssumption ==
  /\ LongBits \in Nat \ {0} /\ LongBits % 8 = 0
  /\ LongLongBits \in Nat \ {0} /\ LongBits <= LongLongBits
  /\ NumericLen \in Nat \ {0}
  /\ BufLen \in Nat \ {0}

ASSUME InputsAssumption ==
  /\ Numerics \subseteq [sign : {0, 1}, val : [0..(NumericLen - 1) -> 0..255],
                         precision : Int, scale : Int]
  /\ Descs \subseteq [precision : 0..127, scale : -128..127]

VARIABLES
  numeric,     \* the application's SQL_NUMERIC_STRUCT (DataPtr)
  desc,        \* SqlRec: its Precision and Scale
  out,         \* the text sent: *LengthPtr characters of *Buffer, or OutOfBounds
  errorCode,   \* *ErrorCode: NoError, "22003" or "01S07"
  ret,         \* what MADB_Numeric2Sql returns
  pc           \* "call" before MADB_Numeric2Sql, "done" after it

vars == <<numeric, desc, out, errorCode, ret, pc>>

(* The returned pointer was InternalBuffer - 1, so *LengthPtr is the      *)
(* strlen of bytes outside the buffer: a marker that is not decimal text.  *)
OutOfBounds == <<"before InternalBuffer">>

(* *ErrorCode = 0.                                                         *)
NoError == "0"

Digit == <<"0", "1", "2", "3", "4", "5", "6", "7", "8", "9">>
Chars == {Digit[d] : d \in 1..10} \cup {"-", "."}

AbsVal(x) == IF x < 0 THEN -x ELSE x
Take(s, n) == SubSeq(s, 1, IF n < Len(s) THEN n ELSE Len(s))
Zeros(k) == [i \in 1..k |-> "0"]

(* Two's-complement value of x in a w-bit signed integer.                  *)
SignedWrap(x, w) ==
  LET r == x % (2 ^ w) IN IF r >= 2 ^ (w - 1) THEN r - 2 ^ w ELSE r

-----------------------------------------------------------------------------
(* Printing.                                                               *)

(* The decimal digits of n >= 0, as "%lld" prints them ("0" for zero).     *)
DigitsOf(n) ==
  LET k == CHOOSE k \in 1..(LongLongBits + 1) :
             n < 10 ^ k /\ (k = 1 \/ n >= 10 ^ (k - 1))
  IN [i \in 1..k |-> Digit[((n \div 10 ^ (k - i)) % 10) + 1]]

(* Mutant: the magnitude is printed before the sign is applied.           *)
Lld_Unsigned(x) == DigitsOf(AbsVal(x))

(* "%lld" of x.                                                            *)
Lld(x) == (IF x < 0 THEN <<"-">> ELSE <<>>) \o DigitsOf(AbsVal(x))

(* Mutant: the point is placed one digit too far right.                  *)
Fixed_PointOffByOne(x, s) ==
  LET d == DigitsOf(AbsVal(x))
      q == Zeros(IF Len(d) < s + 1 THEN s + 1 - Len(d) ELSE 0) \o d
  IN (IF x < 0 THEN <<"-">> ELSE <<>>)
       \o SubSeq(q, 1, Len(q) - s + 1) \o <<".">> \o SubSeq(q, Len(q) - s + 2, Len(q))

(* "%.sf" of x / 10^s for s > 0: the digits of |x| padded to s + 1 digits *)
(* with the point before the last s.                                       *)
Fixed(x, s) ==
  LET d == DigitsOf(AbsVal(x))
      q == Zeros(IF Len(d) < s + 1 THEN s + 1 - Len(d) ELSE 0) \o d
  IN (IF x < 0 THEN <<"-">> ELSE <<>>)
       \o SubSeq(q, 1, Len(q) - s) \o <<".">> \o SubSeq(q, Len(q) - s + 1, Len(q))

(* _snprintf(Buffer, BufLen, ...): at most BufLen - 1 characters.          *)
Snprintf(s) == Take(s, BufLen - 1)

(* 1-based position of the first "." of s, 0 if none (strchr).             *)
DotPos(s) ==
  IF \E i \in 1..Len(s) : s[i] = "."
    THEN CHOOSE i \in 1..Len(s) : s[i] = "." /\ \A j \in 1..(i - 1) : s[j] # "."
    ELSE 0

-----------------------------------------------------------------------------
(* MADB_ConvertNumericToChar.                                              *)

(* ByteDenominator before the i-th iteration: 1 shifted left 8 times per  *)
(* byte in a `long`, which is 0 once the shift passes its width.           *)
ByteDenominator(i) == IF 8 * i < LongBits THEN 2 ^ (8 * i) ELSE 0

(* Numerator after the loop: each val[i] * ByteDenominator is a `long`    *)
(* product added to the `long long` accumulator.                           *)
Accumulate(nm) ==
  LET acc[i \in 0..NumericLen] ==
        IF i = 0 THEN 0
        ELSE SignedWrap(acc[i - 1] +
               SignedWrap(nm.val[i - 1] * ByteDenominator(i - 1), LongBits),
               LongLongBits)
  IN acc[NumericLen]

(* The `long long` a is negated (with wrap) when neg holds.                *)
NegateIf(neg, a) == IF neg THEN SignedWrap(-a, LongLongBits) ELSE a

(* Numerator, negated when sign is 0.                                      *)
Numerator(nm) == NegateIf(nm.sign = 0, Accumulate(nm))

(* Left = Numerator / Denominator, an unsigned long long, is non-zero     *)
(* exactly when |x| has more digits than Scale.                            *)
LeftNonZero(x, scale) == Len(DigitsOf(AbsVal(x))) > AbsVal(scale)

(* b right-padded with zeros to w characters (the strcat loop).           *)
PadZeros(b, w) == b \o Zeros(IF Len(b) < w THEN w - Len(b) ELSE 0)

(* The buffer after _snprintf of the numerator x and the padding of the  *)
(* scale <= 0 branch.                                                      *)
Printed(x, scale, precision) ==
  IF scale > 0 THEN Snprintf(Fixed(x, scale))
               ELSE PadZeros(Snprintf(Lld(x)), precision - scale)

(* Offset of Buffer after "if (Buffer[0] == '-') Buffer++" over p.        *)
SignSkip(p) == IF p # <<>> /\ p[1] = "-" THEN 1 ELSE 0

(* The text b from Buffer on, and the error code, at the label end: the   *)
(* two truncation checks after strchr, the padding for a negative scale   *)
(* and the final length check; left is LeftNonZero.                       *)
Checked(b, nm, left) ==
  LET dot == DotPos(b)
      pad == IF nm.scale < 0 THEN PadZeros(b, nm.precision - nm.scale) ELSE b
  IN CASE dot > 0 /\ dot - 2 > nm.precision ->
            [text |-> Take(b, nm.precision), code |-> "22003"]
       [] dot > 0 /\ nm.scale > 0 /\ left /\ Len(b) > nm.precision ->
            [text |-> Take(b, nm.precision + 1), code |-> "01S07"]
       [] OTHER ->
            [text |-> pad,
             code |-> IF Len(pad) > nm.precision + AbsVal(nm.scale) /\ nm.scale > 0
                        THEN "01S07" ELSE NoError]

(* After end: a trailing '.' is cut off.                                   *)
DropDot(s) == IF s # <<>> /\ s[Len(s)] = "." THEN SubSeq(s, 1, Len(s) - 1) ELSE s

(* The buffer's text and the returned strlen(Buffer), from the printed    *)
(* buffer p, the sign skip k and the checked text c: Buffer-- when sign   *)
(* is 0 steps back over the '-' that was skipped, or before the buffer    *)
(* when none was printed, where strlen reads bytes that are not the       *)
(* buffer's (length -1 stands for that).                                   *)
Returned(nm, p, k, c) ==
  LET t     == DropDot(c.text)
      start == k - (IF nm.sign = 0 THEN 1 ELSE 0)
  IN [buffer |-> SubSeq(p, 1, k) \o t,
      length |-> IF start < 0 THEN -1 ELSE k - start + Len(t),
      code   |-> c.code]

(* The rest of the conversion once Buffer was advanced by k over p.       *)
AfterSign(nm, x, p, k) ==
  Returned(nm, p, k, Checked(SubSeq(p, k + 1, Len(p)), nm, LeftNonZero(x, nm.scale)))

(* The conversion once the numerator x is printed into p.                 *)
AfterPrint(nm, x, p) == AfterSign(nm, x, p, SignSkip(p))

(* The conversion once the numerator x is accumulated.                    *)
AfterAccumulate(nm, x) == AfterPrint(nm, x, Printed(x, nm.scale, nm.precision))

MADB_ConvertNumericToChar(nm) == AfterAccumulate(nm, Numerator(nm))

-----------------------------------------------------------------------------
(* MADB_Numeric2Sql.                                                       *)

(* Mutant: the SQLSTATE is returned in place of SetError's result.        *)
SetErrorReturn_Code(code) == IF code = "01S07" THEN "SQL_SUCCESS_WITH_INFO" ELSE code

(* MADB_SetError: the class of the SQLSTATE decides the return value.      *)
SetErrorReturn(code) == IF code = "01S07" THEN "SQL_SUCCESS_WITH_INFO" ELSE "SQL_ERROR"

Init ==
  /\ numeric \in Numerics
  /\ desc \in Descs
  /\ out = <<>>
  /\ errorCode = NoError
  /\ ret = "none"
  /\ pc = "call"

(* MADB_GetBufferForSqlValue fails: the statement's error is returned.     *)
Numeric2SqlNoBuffer ==
  /\ pc = "call"
  /\ ret' = "SQL_ERROR"
  /\ pc' = "done"
  /\ UNCHANGED <<numeric, desc, out, errorCode>>

(* The state after the call, from the struct nm and the conversion's      *)
(* result r: *Buffer is the start of the buffer and *LengthPtr the length *)
(* the conversion returned.                                                *)
Numeric2SqlReturn(nm, r) ==
  /\ numeric' = nm
  /\ out' = IF r.length < 0 THEN OutOfBounds ELSE Take(r.buffer, r.length)
  /\ errorCode' = r.code
  /\ ret' = IF r.code = NoError THEN "SQL_SUCCESS" ELSE SetErrorReturn(r.code)

(* The application's struct gets the descriptor's scale and precision,   *)
(* then it is rendered into the internal buffer.                           *)
Numeric2Sql ==
  /\ pc = "call"
  /\ LET nm == [numeric EXCEPT !.scale = desc.scale, !.precision = desc.precision]
     IN Numeric2SqlReturn(nm, MADB_ConvertNumericToChar(nm))
  /\ pc' = "done"
  /\ UNCHANGED desc

Next == Numeric2SqlNoBuffer \/ Numeric2Sql

Spec == Init /\ [][Next]_vars

-----------------------------------------------------------------------------
(* Reference: the value the struct denotes (spec.md section 4.4).         *)

(* The 128-bit little-endian magnitude.                                    *)
Magnitude(nm) ==
  LET m[i \in 0..NumericLen] ==
        IF i = 0 THEN 0
        ELSE IF nm.val[i - 1] = 0 THEN m[i - 1]
        ELSE m[i - 1] + nm.val[i - 1] * 256 ^ (i - 1)
  IN m[NumericLen]

(* The magnitude fits in the long long accumulator.                        *)
InRange(nm) == Magnitude(nm) < 2 ^ (LongLongBits - 1)

SignedValue(nm) == IF nm.sign = 0 THEN -Magnitude(nm) ELSE Magnitude(nm)

(* Decimal digits of n >= 0, written independently of the printing      *)
(* operators above.                                                        *)
RefDigits[n \in Nat] ==
  IF n < 10 THEN <<Digit[n + 1]>> ELSE RefDigits[n \div 10] \o <<Digit[(n % 10) + 1]>>

RefSign(nm) == IF nm.sign = 0 /\ Magnitude(nm) # 0 THEN <<"-">> ELSE <<>>

(* The integer part of the value at a positive scale, and its fractional  *)
(* digits, zero-filled on the left to scale digits.                        *)
RefIntPart(nm) == RefDigits[Magnitude(nm) \div 10 ^ nm.scale]
RefFraction(nm) ==
  LET f == RefDigits[Magnitude(nm) % 10 ^ nm.scale]
  IN [i \in 1..(nm.scale - Len(f)) |-> "0"] \o f

(* The exact decimal text of the value at the descriptor's scale: scale   *)
(* fractional digits when it is positive, |scale| zeros appended when it  *)
(* is negative.                                                            *)
ExactText(nm) ==
  CASE nm.scale > 0 -> RefSign(nm) \o RefIntPart(nm) \o <<".">> \o RefFraction(nm)
    [] Magnitude(nm) = 0 -> <<"0">>
    [] OTHER -> RefSign(nm) \o RefDigits[Magnitude(nm)] \o [i \in 1..(-nm.scale) |-> "0"]

IsPrefixOf(s, t) == Len(s) <= Len(t) /\ s = SubSeq(t, 1, Len(s))

(* The struct is not a negative zero, whose rendering BufferInBounds is   *)
(* about.                                                                  *)
NotNegativeZero(nm) == Magnitude(nm) # 0 \/ nm.sign = 1

(* MADB_Numeric2Sql got a buffer and rendered the value.                   *)
Rendered == pc = "done" /\ (errorCode # NoError \/ ret = "SQL_SUCCESS")

-----------------------------------------------------------------------------
(* Properties.                                                             *)

TypeOK ==
  /\ numeric \in [sign : {0, 1}, val : [0..(NumericLen - 1) -> 0..255],
                  precision : Int, scale : Int]
  /\ desc \in Descs
  /\ out \in Seq(Chars) \cup {OutOfBounds}
  /\ errorCode \in {NoError, "22003", "01S07"}
  /\ ret \in {"none", "SQL_SUCCESS", "SQL_SUCCESS_WITH_INFO", "SQL_ERROR"}
  /\ pc \in {"call", "done"}

(* For a positive scale and a value the accumulator holds, the text sent  *)
(* is a prefix of the exact rendering, and all of it when no error is     *)
(* reported: the truncations at precision and precision + 1, the removal  *)
(* of a trailing '.', and the Buffer++ / Buffer-- around the sign never   *)
(* alter a digit.  (A negative zero is BufferInBounds's case.)            *)
ScaledTextIsPrefixOfValue ==
  Rendered /\ numeric.scale > 0 /\ InRange(numeric)
    /\ NotNegativeZero(numeric) =>
    /\ out # OutOfBounds
    /\ IsPrefixOf(out, ExactText(numeric))
    /\ errorCode = NoError => out = ExactText(numeric)

(* For a scale of 0 or below and a value the accumulator holds, the text *)
(* sent is the value's sign and digits followed only by zeros: the zero  *)
(* padding of both loops may get the count of zeros wrong (ValueRendered) *)
(* but never touches a digit or the sign, and the Buffer-- of the negative*)
(* path steps back over the '-' that Buffer++ skipped.                     *)
IntegerTextIsValueDigits ==
  Rendered /\ numeric.scale <= 0 /\ InRange(numeric) /\ NotNegativeZero(numeric) =>
    \E k \in 0..(numeric.precision - numeric.scale) :
      out = RefSign(numeric) \o RefDigits[Magnitude(numeric)] \o Zeros(k)

(* Properties the violation runs check.                                    *)

(* Section 4.4: the text sent denotes the value: zero padding is applied  *)
(* only for the fractional digits a positive scale asks for, or for a     *)
(* negative scale.                                                         *)
ValueRendered ==
  Rendered /\ InRange(numeric) /\ NotNegativeZero(numeric) /\ errorCode = NoError
    => out = ExactText(numeric)

(* The pointer MADB_ConvertNumericToChar returns points into the buffer.  *)
BufferInBounds == Rendered => out # OutOfBounds
=============================================================================
