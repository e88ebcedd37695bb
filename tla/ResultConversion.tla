--------------------------- MODULE ResultConversion ---------------------------
(***************************************************************************)
(* MADB_CspsConvertSql2C (src/ma_typeconv.c, lines 809-941): one value of *)
(* a client-side prepared statement's result row, as the server sent it  *)
(* (text, or bytes for BIT and BLOB fields), stored into the bound        *)
(* MYSQL_BIND, with MADB_ConvertCharToInteger (1129-1219) and             *)
(* MADB_ConvertBinaryToInteger (1224-1247).  One call is one step.        *)
(*                                                                         *)
(* Widths: a byte has ByteBits bits (8 in the code); TINY, SHORT, LONG and *)
(* LONGLONG have 1, 2, 4 and 8 bytes, so long long has 8 * ByteBits bits  *)
(* and the limits the code writes as literals (TINYINT_MAX, ...) are the  *)
(* limits of those widths.  The bound buffer is a row of bytes (a text's *)
(* bytes are its ASCII codes, the terminator is 0) in which Stale marks  *)
(* what the application's buffer held before the call.                    *)
(***************************************************************************)
EXTENDS TemporalText

CONSTANTS
  ByteBits,  \* bits of a byte
  Cap,       \* cells of the bound buffer
  Values,    \* the fields and values a call may receive
  Binds      \* the MYSQL_BINDs a call may receive

ASSUME WidthAssumption == ByteBits \in Nat \ {0} /\ Cap \in Nat \ {0}

Byte == 0..(2 ^ ByteBits - 1)

\* sizeof of the C type a buffer_type is stored as.
Bytes(t) ==
  CASE t = "TINY" -> 1 [] t \in {"SHORT", "YEAR"} -> 2
    [] t \in {"LONG", "INT24"} -> 4 [] OTHER -> 8

IntegerTypes == {"TINY", "SHORT", "YEAR", "INT24", "LONG", "LONGLONG"}

LLBits == 8 * ByteBits

\* The range of a target of n bytes (lines 1116-1124 for n < 8).
SignedMin(n)   == -(2 ^ (n * ByteBits - 1))
SignedMax(n)   == 2 ^ (n * ByteBits - 1) - 1
UnsignedMax(n) == 2 ^ (n * ByteBits) - 1

ASSUME InputsAssumption ==
  /\ \A v \in Values :
       /\ v.type \in {"VARCHAR", "LONG", "DATETIME", "BIT", "BLOB"}
       /\ v.data \in Seq(IF v.type \in {"BIT", "BLOB"} THEN Byte ELSE STRING)
       /\ v.type = "BIT" => Len(v.data) \in 1..8
  /\ \A b \in Binds :
       /\ b.buffer_length \in 0..Cap /\ b.offset \in Nat /\ b.is_unsigned \in BOOLEAN
       /\ b.buffer_type \in IntegerTypes => b.buffer_length = Bytes(b.buffer_type)

VARIABLES
  field,   \* field->type and the value val[0..fieldLen-1]
  bind,    \* the MYSQL_BIND: buffer_type, is_unsigned, buffer_length, offset
  buf,     \* the cells of bind->buffer
  tmOut,   \* bind->buffer as a MYSQL_TIME (temporal targets)
  real,    \* bind->buffer as a float or double
  length,  \* *bind->length (Stale until written)
  error,   \* *bind->error
  rc,      \* what MADB_CspsConvertSql2C returned
  pc

vars == <<field, bind, buf, tmOut, real, length, error, rc, pc>>

-----------------------------------------------------------------------------
(***************************************************************************)
(* strtoll and strtoull (base 10) over the text: blanks, a sign, digits.  *)
(* end is the number of characters consumed (0 when there is no digit:    *)
(* endptr is then the start of the text).  strtoll saturates at the       *)
(* limits of long long; strtoull saturates at ULLONG_MAX and negates       *)
(* modulo 2^64 for a '-'; SQLBIGINT val takes its bits as signed.         *)
(***************************************************************************)
StrtoFrom(t, p) ==
  LET signed == p <= Len(t) /\ t[p] \in {"+", "-"}
      q     == IF signed THEN p + 1 ELSE p
      runs  == {e \in q..Len(t) : \A k \in q..e : IsDigit(t[k])}
      e     == IF runs = {} THEN q - 1 ELSE CHOOSE m \in runs : \A n \in runs : n <= m
  IN  [digits |-> e >= q,
       neg    |-> signed /\ t[p] = "-",
       mag    |-> IF e < q THEN 0 ELSE DecimalValue(t, q, e),
       end    |-> IF e < q THEN 0 ELSE e]

Strto(t) == StrtoFrom(t, SkipBlanks(t, 1))

\* strtoll's result from the scanned sign and magnitude s.
SaturatedLL(s) ==
  LET v == IF s.neg THEN -s.mag ELSE s.mag
  IN  CASE v > SignedMax(8) -> SignedMax(8)
        [] v < SignedMin(8) -> SignedMin(8)
        [] OTHER -> v

Strtoll(t) == SaturatedLL(Strto(t))

AsSigned(u, n) == IF u > SignedMax(n) THEN u - 2 ^ (n * ByteBits) ELSE u

\* strtoull's result from the scanned sign and magnitude s.
SaturatedULL(s) ==
  CASE s.mag > UnsignedMax(8) -> UnsignedMax(8)
    [] s.neg /\ s.mag > 0 -> 2 ^ LLBits - s.mag
    [] OTHER -> s.mag

Strtoull(t) == AsSigned(SaturatedULL(Strto(t)), 8)

\* The n bytes, least significant first, of the low n * ByteBits bits of v.
StoreInt(v, n) ==
  [k \in 1..n |-> ((v % (2 ^ (n * ByteBits))) \div (2 ^ ((k - 1) * ByteBits))) % (2 ^ ByteBits)]

\* Mutant: the upper limits are excluded.
InRange_OffByOne(v, n, unsigned) ==
  IF unsigned THEN 0 <= v /\ v < UnsignedMax(n)
  ELSE SignedMin(n) <= v /\ v < SignedMax(n)

\* The range check of a target of n < 8 bytes.
InRange(v, n, unsigned) ==
  IF unsigned THEN 0 <= v /\ v <= UnsignedMax(n)
  ELSE SignedMin(n) <= v /\ v <= SignedMax(n)

(***************************************************************************)
(* MADB_ConvertCharToInteger(bind, text, fieldLen): the bytes stored, the *)
(* truncation flag and the return code.  LONGLONG is stored unchecked.    *)
(* IntegerStored is the rest of the function once val is parsed.          *)
(***************************************************************************)
IntegerStored(b, t, val) ==
  LET n       == Bytes(b.buffer_type)
      partial == Strto(t).end < Len(t)
      range   == n < 8 /\ ~InRange(val, n, b.is_unsigned)
  IN  [cells |-> StoreInt(val, n), flag |-> partial \/ range]

CharToInteger(b, t) ==
  IntegerStored(b, t, IF b.is_unsigned THEN Strtoull(t) ELSE Strtoll(t))

(***************************************************************************)
(* The offset copy of MADB_ConvertBinaryToInteger and of the default case *)
(* of MADB_CspsConvertSql2C: the cells written from data + offset up to  *)
(* data + fieldLen (at most buffer_length of them) and whether the value  *)
(* was cut.  Nothing is copied when the offset is at or past the end.     *)
(***************************************************************************)
\* Mutant: the copy starts at the value's first byte, whatever the offset.
OffsetCopy_NoOffset(b, data, fieldLen) ==
  IF b.offset < fieldLen
  THEN LET copyLen == fieldLen - b.offset
           n       == IF copyLen > b.buffer_length THEN b.buffer_length ELSE copyLen
       IN  [cells |-> SubSeq(data, 1, n), flag |-> copyLen > b.buffer_length]
  ELSE [cells |-> <<>>, flag |-> FALSE]

OffsetCopy(b, data, fieldLen) ==
  IF b.offset < fieldLen
  THEN LET copyLen == fieldLen - b.offset
           n       == IF copyLen > b.buffer_length THEN b.buffer_length ELSE copyLen
       IN  [cells |-> SubSeq(data, b.offset + 1, b.offset + n),
            flag  |-> copyLen > b.buffer_length]
  ELSE [cells |-> <<>>, flag |-> FALSE]

\* Mutant: the terminator is written whether or not the copy left room for it.
Terminated_NoRoomCheck(b, fieldLen, cells) ==
  IF fieldLen >= b.offset THEN cells \o <<0>> ELSE cells

\* Lines 923-926: the terminator after the copy when it is shorter than the buffer.
Terminated(b, fieldLen, cells) ==
  IF fieldLen >= b.offset /\ Len(cells) < b.buffer_length
  THEN cells \o <<0>> ELSE cells

\* memcpy/stores into bind->buffer: the first Len(w) cells are replaced.
Write(w) == [i \in 1..Cap |-> IF i <= Len(w) THEN w[i] ELSE buf[i]]

\* Lines 813-827: value[r] = val[fieldLen - curPos - 1] for curPos from
\* fieldLen - 8 (or 0) up, in a zeroed 8-byte buffer.
Reversed(data) ==
  LET n     == Len(data)
      start == IF n >= 8 THEN n - 8 ELSE 0
  IN  [i \in 1..8 |-> IF i <= n - start THEN data[n - start - i + 1] ELSE 0]

Truncated == "MYSQL_DATA_TRUNCATED"

Stale == -1

-----------------------------------------------------------------------------
Init ==
  /\ field \in Values
  /\ bind \in Binds
  /\ buf = [i \in 1..Cap |-> Stale]
  /\ tmOut = ZeroTm
  /\ real = 0
  /\ length = Stale
  /\ error = FALSE
  /\ rc = "none"
  /\ pc = "call"

\* Lines 813-815: MADB_CALLOC(8) for a BIT field fails; value[revPos] is
\* then written through NULL.
BitAllocFails ==
  /\ pc = "call" /\ field.type = "BIT"
  /\ pc' = "fault"
  /\ UNCHANGED <<field, bind, buf, tmOut, real, length, error, rc>>

\* fieldLen: the length of the value the server sent.
FieldLen == Len(field.data)

\* The value the switch works on: the reversed copy for a BIT field.
Value == IF field.type = "BIT" THEN Reversed(field.data) ELSE field.data

\* The same value read as a C string by strtod and Str2Ts: a byte is the
\* character of its code ("x" for any other than digits, sign, separators
\* and blank; a 0 byte, which would end the string, included).
ByteChar(b) ==
  CASE b \in 48..57 -> Digits[b - 47]
    [] b = 45 -> "-" [] b = 43 -> "+" [] b = 58 -> ":" [] b = 46 -> "."
    [] b = 32 -> " " [] OTHER -> "x"

ValueText ==
  IF field.type \in {"BIT", "BLOB"} THEN [i \in DOMAIN Value |-> ByteChar(Value[i])]
  ELSE Value

\* The bytes of that value.
ValueBytes ==
  IF field.type \in {"BIT", "BLOB"} THEN Value
  ELSE [i \in DOMAIN Value |-> CharCode(Value[i])]

\* A conversion's cells written to bind->buffer, and its truncation flag
\* set in *bind->error and returned as MYSQL_DATA_TRUNCATED.
Stored(c) ==
  /\ buf' = Write(c.cells)
  /\ error' = (error \/ c.flag)
  /\ rc' = IF c.flag THEN Truncated ELSE "SQL_SUCCESS"

\* Lines 832-863: an integer target, from bytes or from text.
ToInteger ==
  /\ pc = "call" /\ bind.buffer_type \in IntegerTypes
  /\ IF field.type \in {"BIT", "BLOB"}
     THEN /\ Stored(OffsetCopy(bind, ValueBytes, FieldLen))
          /\ length' = FieldLen
     ELSE /\ Stored(CharToInteger(bind, ValueText))
          /\ UNCHANGED length
  /\ pc' = "done"
  /\ UNCHANGED <<field, bind, tmOut, real>>

\* Lines 864-880: strtod of the text, stored without any check.
ToReal ==
  /\ pc = "call" /\ bind.buffer_type \in {"FLOAT", "DOUBLE"}
  /\ LET s == Strto(ValueText) IN real' = IF s.neg THEN -s.mag ELSE s.mag
  /\ rc' = "SQL_SUCCESS"
  /\ pc' = "done"
  /\ UNCHANGED <<field, bind, buf, tmOut, length, error>>

\* Mutant: the SQLSTATE is returned as the result.
Str2TsReturn_State(r) == r.rc

\* Lines 886-890: MADB_Str2Ts returns SQL_SUCCESS or MADB_SetError's
\* SQL_ERROR, which the CALC_ALL_FLDS_RC of line 804 makes the result.
Str2TsReturn(r) == IF r.rc = "SQL_SUCCESS" THEN "SQL_SUCCESS" ELSE "SQL_ERROR"

\* What MADB_Str2Ts's result r leaves in bind->buffer and returns.
TemporalStored(r) ==
  /\ tmOut' = r.tm
  /\ rc' = Str2TsReturn(r)

\* Lines 881-892: MADB_Str2Ts into bind->buffer; its local copy may not be
\* allocated (HY001, the buffer untouched).
ToTemporal ==
  /\ pc = "call" /\ bind.buffer_type \in {"TIME", "DATE", "TIMESTAMP"}
  /\ \/ /\ rc' = "SQL_ERROR"
        /\ UNCHANGED tmOut
     \/ TemporalStored(Str2Ts(SubSeq(ValueText, 1, FieldLen), FALSE))
  /\ pc' = "done"
  /\ UNCHANGED <<field, bind, buf, real, length, error>>

\* Lines 893-932: the offset copy, its terminator and the true length.
ToBuffer ==
  /\ pc = "call"
  /\ bind.buffer_type \notin IntegerTypes \cup {"FLOAT", "DOUBLE", "TIME", "DATE", "TIMESTAMP"}
  /\ Stored([OffsetCopy(bind, ValueBytes, FieldLen) EXCEPT
              !.cells = Terminated(bind, FieldLen, @)])
  /\ length' = FieldLen
  /\ pc' = "done"
  /\ UNCHANGED <<field, bind, tmOut, real>>

Next == BitAllocFails \/ ToInteger \/ ToReal \/ ToTemporal \/ ToBuffer

Spec == Init /\ [][Next]_vars

-----------------------------------------------------------------------------
\* Type invariant: every cell of the bound buffer holds a byte (of a text
\* or of a number) or what was there before.
TypeOK ==
  /\ field \in Values /\ bind \in Binds
  /\ buf \in [1..Cap -> {Stale} \cup 0..255]
  /\ tmOut \in [Fields -> Int] /\ real \in Int
  /\ length \in {Stale} \cup Nat /\ error \in BOOLEAN
  /\ rc \in {"none", "SQL_SUCCESS", "SQL_ERROR", Truncated}
  /\ pc \in {"call", "done", "fault"}

\* A text that is a whole number (Values give its value as num), and the
\* range of long long or unsigned long long.
Denotes(v) == v.type \in {"VARCHAR", "LONG", "DATETIME"} /\ v.whole
In64(x, unsigned) ==
  SignedMin(8) <= x /\ x <= IF unsigned THEN UnsignedMax(8) ELSE SignedMax(8)

(***************************************************************************)
(* Spec 4.4 and 7: a whole number sent as text for a TINY, SHORT or LONG  *)
(* target is stored narrowed by truncation (its low bits), and the call  *)
(* reports MYSQL_DATA_TRUNCATED exactly when the number is outside the   *)
(* target's signed or unsigned range.  It takes strtoll/strtoull, the     *)
(* cast to SQLBIGINT, the range check and the narrowing store together.   *)
(***************************************************************************)
IntegerStoredByNarrowing ==
  (pc = "done" /\ bind.buffer_type \in IntegerTypes \ {"LONGLONG"}
     /\ Denotes(field) /\ In64(field.num, bind.is_unsigned)) =>
    LET n == Bytes(bind.buffer_type) IN
    /\ SubSeq(buf, 1, n) = StoreInt(field.num, n)
    /\ (rc = "SQL_SUCCESS") <=>
         field.num \in IF bind.is_unsigned THEN 0..UnsignedMax(n)
                       ELSE SignedMin(n)..SignedMax(n)

\* What the application reads from a text buffer: the cells up to the
\* terminator, or all buffer_length of them.
ReadBack ==
  LET ends == {i \in 1..bind.buffer_length : buf[i] = 0}
      n    == IF ends = {} THEN bind.buffer_length
              ELSE CHOOSE i \in ends : \A j \in ends : i <= j
  IN  SubSeq(buf, 1, IF ends = {} THEN n ELSE n - 1)

(***************************************************************************)
(* A text value read from the offset the caller reached (at most the     *)
(* value's length) holds the next characters of the value: all the rest  *)
(* when the call succeeds, a prefix of it flagged MYSQL_DATA_TRUNCATED    *)
(* otherwise, and the length slot holds the whole value's length.         *)
(***************************************************************************)
TextReadFromOffset ==
  (pc = "done" /\ bind.buffer_type = "STRING" /\ field.type \notin {"BIT", "BLOB"}
     /\ bind.offset <= FieldLen) =>
    LET rest == SubSeq(ValueBytes, bind.offset + 1, FieldLen) IN
    /\ length = FieldLen
    /\ rc = "SQL_SUCCESS" => ReadBack = rest
    /\ rc = Truncated => /\ Len(ReadBack) <= Len(rest)
                        /\ ReadBack = SubSeq(rest, 1, Len(ReadBack))
    /\ rc \in {"SQL_SUCCESS", Truncated}

(***************************************************************************)
(* No call writes past the application's buffer: a cell beyond            *)
(* buffer_length keeps what it held.  The offset copies of lines 843-848  *)
(* and 915-922 stop at buffer_length, and the terminator of lines 923-926 *)
(* is written only when the copy left a cell for it; an integer target    *)
(* is written with the size of its C type, which is its buffer_length.    *)
(***************************************************************************)
WriteWithinBuffer == \A i \in 1..Cap : i > bind.buffer_length => buf'[i] = buf[i]

WritesStayInBuffer == [][WriteWithinBuffer]_vars

(***************************************************************************)
(* Spec 7: an allocation failure is reported (HY001), never a write       *)
(* through a null pointer.                                                *)
(***************************************************************************)
NoNullWrite == pc # "fault"
=============================================================================
