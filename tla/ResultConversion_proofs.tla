----------------------- MODULE ResultConversion_proofs -----------------------
(***************************************************************************)
(* Proofs about ResultConversion for every byte width, buffer capacity,   *)
(* value and binding: the default case of MADB_CspsConvertSql2C (the      *)
(* offset copy of a text into a STRING buffer, lines 893-932) leaves what *)
(* the application reads back equal to the rest of the value from its     *)
(* offset, or a prefix of it flagged MYSQL_DATA_TRUNCATED.                *)
(***************************************************************************)
EXTENDS ResultConversion, TLAPS

\* The offset copy and terminator that ToBuffer stores.
TextCopy == OffsetCopy(bind, ValueBytes, FieldLen)
BufferCopy ==
  [cells |-> Terminated(bind, FieldLen, TextCopy.cells), flag |-> TextCopy.flag]

\* The bound buffer as the application gave it, with the cells w written.
StaleBuf == [i \in 1..Cap |-> Stale]
WrittenOver(w) == [i \in 1..Cap |-> IF i <= Len(w) THEN w[i] ELSE Stale]

(***************************************************************************)
(* The inductive invariant: the buffer is untouched until the call, and   *)
(* after a call into a STRING buffer it holds the offset copy and its     *)
(* terminator over the stale cells, with the length and the flag of that  *)
(* copy.  TextReadFromOffset alone is not inductive: the step that makes  *)
(* the call needs to know the buffer held no terminator before it.        *)
(***************************************************************************)
TextInv ==
  /\ field \in Values /\ bind \in Binds /\ pc \in {"call", "done", "fault"}
  /\ pc = "call" => buf = StaleBuf
  /\ (pc = "done" /\ bind.buffer_type = "STRING") =>
       /\ buf = WrittenOver(BufferCopy.cells)
       /\ length = FieldLen
       /\ rc = IF BufferCopy.flag THEN Truncated ELSE "SQL_SUCCESS"
LEMMA TextInvInductive == Spec => []TextInv
<1>1. Init => TextInv
  BY DEF Init, TextInv, StaleBuf
<1>2. TextInv /\ [Next]_vars => TextInv'
  <2> SUFFICES ASSUME TextInv, [Next]_vars PROVE TextInv'
    OBVIOUS
  <2>1. CASE BitAllocFails
    BY <2>1 DEF BitAllocFails, TextInv
  <2>2. CASE ToInteger
    BY <2>2 DEF ToInteger, TextInv, IntegerTypes
  <2>3. CASE ToReal
    BY <2>3 DEF ToReal, TextInv
  <2>4. CASE ToTemporal
    BY <2>4 DEF ToTemporal, TextInv
  <2>5. CASE ToBuffer
    <3>1. buf = StaleBuf /\ field' = field /\ bind' = bind
      BY <2>5 DEF ToBuffer, TextInv
    <3>2. BufferCopy' = BufferCopy
      <4>1. ValueBytes' = ValueBytes /\ FieldLen' = FieldLen
        BY <3>1 DEF ValueBytes, Value, FieldLen
      <4>. QED BY <3>1, <4>1 DEF BufferCopy, TextCopy
    <3>3. [TextCopy EXCEPT !.cells = Terminated(bind, FieldLen, @)] = BufferCopy
      <4>1. TextCopy = [cells |-> TextCopy.cells, flag |-> TextCopy.flag]
        BY DEF TextCopy, OffsetCopy
      <4>. QED BY <4>1 DEF BufferCopy
    <3>4. /\ buf' = Write(BufferCopy.cells)
          /\ rc' = IF BufferCopy.flag THEN Truncated ELSE "SQL_SUCCESS"
      BY <2>5, <3>3 DEF ToBuffer, Stored, TextCopy
    <3>5. Write(BufferCopy.cells) = WrittenOver(BufferCopy.cells)
      BY <3>1 DEF Write, WrittenOver, StaleBuf
    <3>6. length' = FieldLen' /\ pc' = "done"
      BY <2>5, <3>1 DEF ToBuffer, FieldLen
    <3>. QED BY <2>5, <3>1, <3>2, <3>4, <3>5, <3>6 DEF TextInv
  <2>6. CASE UNCHANGED vars
    <3>1. BufferCopy' = BufferCopy /\ FieldLen' = FieldLen
      <4>1. ValueBytes' = ValueBytes /\ FieldLen' = FieldLen
        BY <2>6 DEF vars, ValueBytes, Value, FieldLen
      <4>. QED BY <2>6, <4>1 DEF vars, BufferCopy, TextCopy
    <3>. QED BY <2>6, <3>1 DEF vars, TextInv
  <2>. QED BY <2>1, <2>2, <2>3, <2>4, <2>5, <2>6 DEF Next
<1>. QED BY <1>1, <1>2, PTL DEF Spec

-----------------------------------------------------------------------------
(* A character's ASCII code is never the terminator 0.                    *)
LEMMA CharCodeNotTerminator ==
  ASSUME NEW c
  PROVE  CharCode(c) \in Nat \ {0}
<1>1. CASE IsDigit(c)
  <2>1. \E d \in 0..9 : Digits[d + 1] = c
    BY <1>1 DEF IsDigit
  <2>2. DigitVal(c) \in 0..9
    BY <2>1 DEF DigitVal
  <2>3. c \in {"0", "1", "2", "3", "4", "5", "6", "7", "8", "9"}
    BY <1>1 DEF IsDigit, Digits
  <2>4. CharCode(c) = 48 + DigitVal(c)
    BY <1>1, <2>3 DEF CharCode
  <2>. QED BY <2>2, <2>4
<1>2. CASE ~IsDigit(c)
  BY <1>2 DEF CharCode
<1>. QED BY <1>1, <1>2
(* A text value's bytes, the ASCII codes of its characters, hold no 0.    *)
LEMMA TextBytesNotTerminator ==
  ASSUME field \in Values, field.type \notin {"BIT", "BLOB"}
  PROVE  /\ FieldLen \in Nat
         /\ ValueBytes \in Seq(Nat \ {0}) /\ Len(ValueBytes) = FieldLen
<1>1. field.data \in Seq(STRING)
  BY InputsAssumption
<1>2. ValueBytes = [i \in 1..FieldLen |-> CharCode(field.data[i])]
  BY <1>1 DEF ValueBytes, Value, FieldLen
<1>. QED BY <1>1, <1>2, CharCodeNotTerminator DEF FieldLen

\* ReadBack for the cells b and a buffer of n cells.
ReadAt(b, n) ==
  LET ends == {i \in 1..n : b[i] = 0}
      m    == IF ends = {} THEN n ELSE CHOOSE i \in ends : \A j \in ends : i <= j
  IN  SubSeq(b, 1, IF ends = {} THEN m ELSE m - 1)

(* The application reads the cells before the first 0, or all n cells     *)
(* when none of them is 0.                                                 *)
LEMMA ReadUpToTerminator ==
  ASSUME NEW b, NEW n \in Nat, NEW k \in 0..n,
         \A i \in 1..k : b[i] # 0,
         k < n => b[k + 1] = 0
  PROVE  ReadAt(b, n) = SubSeq(b, 1, k)
<1>. DEFINE ends == {i \in 1..n : b[i] = 0}
<1>1. CASE k = n
  <2>1. ends = {}
    BY <1>1
  <2>. QED BY <1>1, <2>1 DEF ReadAt
<1>2. CASE k < n
  <2>1. k + 1 \in ends /\ \A j \in ends : k + 1 <= j
    BY <1>2
  <2>2. (CHOOSE i \in ends : \A j \in ends : i <= j) = k + 1
    BY <2>1
  <2>3. ends # {}
    BY <2>1
  <2>4. ReadAt(b, n) = SubSeq(b, 1, (CHOOSE i \in ends : \A j \in ends : i <= j) - 1)
    BY <2>3 DEF ReadAt
  <2>5. (k + 1) - 1 = k
    OBVIOUS
  <2>. QED BY <2>2, <2>4, <2>5, Zenon
<1>. QED BY <1>1, <1>2
(* The offset copy of a value with no 0 byte, its terminator and the     *)
(* buffer it is written over: the application reads back the rest of the *)
(* value from the offset, or a prefix of it when the copy was cut.        *)
\* What the application reads back after the copy of data for the bind b.
CopyRead(b, data) ==
  ReadAt(WrittenOver(Terminated(b, Len(data), OffsetCopy(b, data, Len(data)).cells)),
         b.buffer_length)

\* A bind whose offset is within a value that has no 0 byte.
CopyFits(b, data) ==
  /\ b.offset \in Nat /\ b.buffer_length \in Nat
  /\ b.offset <= Len(data) /\ b.buffer_length <= Cap
  /\ \A i \in 1..Len(data) : data[i] # 0

\* The rest of data from the bind's offset, and what reading back yields.
ReadsRest(b, data) ==
  LET rest == SubSeq(data, b.offset + 1, Len(data)) IN
  /\ ~OffsetCopy(b, data, Len(data)).flag => CopyRead(b, data) = rest
  /\ OffsetCopy(b, data, Len(data)).flag =>
       /\ Len(CopyRead(b, data)) <= Len(rest)
       /\ CopyRead(b, data) = SubSeq(rest, 1, Len(CopyRead(b, data)))

LEMMA CopyReadBack ==
  \A data \in Seq(Int) : \A b : CopyFits(b, data) => ReadsRest(b, data)
<1> SUFFICES ASSUME NEW data \in Seq(Int), NEW b, CopyFits(b, data)
             PROVE  ReadsRest(b, data)
  OBVIOUS
<1>0. Cap \in Nat
  BY WidthAssumption
<1>. PICK off \in Nat : b.offset = off
  BY DEF CopyFits
<1>. PICK bl \in Nat : b.buffer_length = bl
  BY DEF CopyFits
<1>a. off <= Len(data) /\ bl <= Cap /\ \A i \in 1..Len(data) : data[i] # 0
  BY DEF CopyFits
<1>. USE <1>0, <1>a
<1>. DEFINE fl   == Len(data)
            c    == OffsetCopy(b, data, fl)
            w    == Terminated(b, fl, c.cells)
            buf1 == WrittenOver(w)
            rest == SubSeq(data, off + 1, fl)
<1> SUFFICES /\ ~c.flag => ReadAt(buf1, bl) = rest
             /\ c.flag => /\ Len(ReadAt(buf1, bl)) <= Len(rest)
                          /\ ReadAt(buf1, bl) = SubSeq(rest, 1, Len(ReadAt(buf1, bl)))
  BY DEF CopyRead, ReadsRest
<1>1. fl \in Nat
  OBVIOUS
<1>2. /\ rest \in Seq(Int) /\ Len(rest) = fl - off
      /\ \A i \in 1..fl - off : rest[i] = data[off + i]
  BY <1>1
\* The cells 1..k of the buffer, read as a sequence.
<1>3. ASSUME NEW k \in 0..Cap
      PROVE  SubSeq(buf1, 1, k) = [i \in 1..k |-> buf1[i]]
  OBVIOUS
<1>4. CASE off < fl /\ fl - off > bl
  <2>0. c = [cells |-> SubSeq(data, off + 1, off + bl), flag |-> TRUE]
    <3>1. off < fl /\ (fl - off > bl) = TRUE
      BY <1>1, <1>4
    <3>. QED BY <3>1 DEF OffsetCopy
  <2>1. c.cells = SubSeq(data, off + 1, off + bl) /\ c.flag
    BY <2>0
  <2>2. Len(SubSeq(data, off + 1, off + bl)) = bl
    BY <1>1, <1>4
  <2>3. w = SubSeq(data, off + 1, off + bl)
    BY <2>1, <2>2 DEF Terminated
  <2>4. \A i \in 1..bl : buf1[i] = rest[i] /\ rest[i] # 0
    BY <1>1, <1>2, <1>4, <2>2, <2>3 DEF WrittenOver
  <2>5. ReadAt(buf1, bl) = SubSeq(buf1, 1, bl)
    <3>1. \A i \in 1..bl : buf1[i] # 0
      BY <2>4
    <3>2. bl \in 0..bl
      OBVIOUS
    <3>. QED BY <3>1, <3>2, ReadUpToTerminator
  <2>6. SubSeq(buf1, 1, bl) = SubSeq(rest, 1, bl)
    <3>1. SubSeq(buf1, 1, bl) = [i \in 1..bl |-> buf1[i]]
      BY <1>3
    <3>2. SubSeq(rest, 1, bl) = [i \in 1..bl |-> rest[i]]
      BY <1>2, <1>4
    <3>. QED BY <2>4, <3>1, <3>2
  <2>7. bl <= Len(rest) /\ Len(SubSeq(buf1, 1, bl)) = bl
    BY <1>2, <1>4
  <2>. QED BY <2>1, <2>5, <2>6, <2>7
<1>5. CASE off < fl /\ fl - off <= bl
  <2>0. c = [cells |-> SubSeq(data, off + 1, off + (fl - off)), flag |-> FALSE]
    <3>1. off < fl /\ (fl - off > bl) = FALSE
      BY <1>1, <1>5
    <3>. QED BY <3>1 DEF OffsetCopy
  <2>1. c.cells = rest /\ ~c.flag
    BY <1>1, <2>0
  <2>2. w = IF fl - off < bl THEN rest \o <<0>> ELSE rest
    BY <1>1, <1>2, <1>5, <2>1 DEF Terminated
  <2>3. \A i \in 1..fl - off : buf1[i] = rest[i] /\ rest[i] # 0
    <3>1. fl - off <= Len(w) /\ \A i \in 1..fl - off : w[i] = rest[i]
      BY <1>1, <1>2, <1>5, <2>2
    <3>2. fl - off <= Cap
      BY <1>1, <1>5
    <3>3. \A i \in 1..fl - off : buf1[i] = w[i]
      BY <3>1, <3>2 DEF WrittenOver
    <3>4. \A i \in 1..fl - off : rest[i] # 0
      BY <1>1, <1>2, <1>5
    <3>. QED BY <3>1, <3>3, <3>4
  <2>4. fl - off < bl => buf1[fl - off + 1] = 0
    BY <1>1, <1>2, <1>5, <2>2 DEF WrittenOver
  <2>5. fl - off \in 0..bl
    BY <1>1, <1>5
  <2>6. ReadAt(buf1, bl) = SubSeq(buf1, 1, fl - off)
    <3>1. \A i \in 1..fl - off : buf1[i] # 0
      BY <2>3
    <3>. QED BY <3>1, <2>4, <2>5, ReadUpToTerminator
  <2>7. rest = [i \in 1..fl - off |-> rest[i]]
    BY <1>2
  <2>8. SubSeq(buf1, 1, fl - off) = rest
    <3>1. fl - off \in 0..Cap
      BY <1>1, <1>5
    <3>2. SubSeq(buf1, 1, fl - off) = [i \in 1..fl - off |-> buf1[i]]
      BY <3>1, <1>3
    <3>. QED BY <3>2, <2>3, <2>7
  <2>. QED BY <2>1, <2>6, <2>8
<1>6. CASE off = fl
  <2>1. c.cells = <<>> /\ ~c.flag
    BY <1>1, <1>6 DEF OffsetCopy
  <2>2. w = IF 0 < bl THEN <<0>> ELSE <<>>
    BY <1>1, <1>6, <2>1 DEF Terminated
  <2>3. 0 < bl => buf1[1] = 0
    BY <2>2 DEF WrittenOver
  <2>4. ReadAt(buf1, bl) = SubSeq(buf1, 1, 0)
    BY <2>3, ReadUpToTerminator
  <2>5. SubSeq(buf1, 1, 0) = <<>> /\ rest = <<>>
    BY <1>1, <1>6
  <2>6. ReadAt(buf1, bl) = rest
    BY <2>4, <2>5
  <2>. QED BY <2>1, <2>6
<1>. QED BY <1>1, <1>4, <1>5, <1>6

-----------------------------------------------------------------------------
(* A text read into a STRING buffer from an offset at most its length     *)
(* holds the rest of the value from that offset when the call succeeds,   *)
(* a prefix of that rest when it reports MYSQL_DATA_TRUNCATED, and the    *)
(* length slot holds the whole length: for every capacity, buffer length, *)
(* offset and text, the copy, its terminator and the flag agree.          *)
THEOREM TextReadFromOffsetInvariant == Spec => []TextReadFromOffset
<1>1. TextInv => TextReadFromOffset
  <2>. DEFINE data == ValueBytes
              fl   == FieldLen
              off  == bind.offset
              bl   == bind.buffer_length
              rest == SubSeq(data, off + 1, fl)
              w    == BufferCopy.cells
  <2> SUFFICES ASSUME TextInv, pc = "done", bind.buffer_type = "STRING",
                      field.type \notin {"BIT", "BLOB"}, off <= fl
               PROVE  /\ length = fl
                      /\ rc = "SQL_SUCCESS" => ReadBack = rest
                      /\ rc = Truncated => /\ Len(ReadBack) <= Len(rest)
                                          /\ ReadBack = SubSeq(rest, 1, Len(ReadBack))
                      /\ rc \in {"SQL_SUCCESS", Truncated}
    BY DEF TextReadFromOffset
  <2>1. /\ data \in Seq(Int) /\ Len(data) = fl /\ off <= Len(data)
        /\ \A i \in 1..Len(data) : data[i] # 0
        /\ off \in Nat /\ bl \in Nat /\ bl <= Cap /\ Cap \in Nat
    <3>1. fl \in Nat /\ data \in Seq(Nat \ {0}) /\ Len(data) = fl
      BY TextBytesNotTerminator DEF TextInv
    <3>2. bind \in Binds /\ Cap \in Nat
      BY WidthAssumption DEF TextInv
    <3>3. off \in Nat /\ bl \in 0..Cap
      BY <3>2, InputsAssumption
    <3>. QED BY <3>1, <3>2, <3>3
  <2>2. /\ buf = WrittenOver(w) /\ length = fl
        /\ rc = IF BufferCopy.flag THEN Truncated ELSE "SQL_SUCCESS"
    BY DEF TextInv
  <2>3. ReadBack = ReadAt(buf, bl)
    BY DEF ReadBack, ReadAt
  <2>4. Truncated # "SQL_SUCCESS"
    BY DEF Truncated
  <2>. DEFINE c == OffsetCopy(bind, data, Len(data))
  <2>5. w = Terminated(bind, Len(data), c.cells) /\ BufferCopy.flag = c.flag
    BY <2>1 DEF BufferCopy, TextCopy
  <2>6. rest = SubSeq(data, off + 1, Len(data))
    BY <2>1
  <2>7. ReadsRest(bind, data)
    <3>1. CopyFits(bind, data)
      BY <2>1 DEF CopyFits
    <3>. QED BY <2>1, <3>1, CopyReadBack
  <2>8. ReadBack = CopyRead(bind, data)
    BY <2>2, <2>3, <2>5 DEF CopyRead
  <2>. QED BY <2>2, <2>4, <2>5, <2>6, <2>7, <2>8 DEF ReadsRest
<1>. QED BY <1>1, TextInvInductive, PTL

-----------------------------------------------------------------------------
(* The reversed copy of at most 8 bytes is a sequence of 8 integers.     *)
LEMMA ReversedIsSequence ==
  ASSUME NEW d \in Seq(Int), Len(d) \in 1..8
  PROVE  Reversed(d) \in Seq(Int) /\ Len(Reversed(d)) = 8
<1>1. PICK n \in 1..8 : Len(d) = n
  OBVIOUS
<1>2. (IF n >= 8 THEN n - 8 ELSE 0) = 0
  OBVIOUS
<1>3. Reversed(d) = [i \in 1..8 |-> IF i <= n THEN d[n - i + 1] ELSE 0]
  BY <1>1, <1>2 DEF Reversed
<1>4. \A i \in 1..8 : i <= n => d[n - i + 1] \in Int
  BY <1>1
<1>. QED BY <1>3, <1>4

(* A sequence of bytes is a sequence of integers.                         *)
LEMMA BytesAreIntegers ==
  ASSUME NEW d \in Seq(Byte)
  PROVE  d \in Seq(Int)
<1>1. \A i \in 1..Len(d) : d[i] \in Int
  BY WidthAssumption DEF Byte
<1>. QED BY <1>1

(* The bytes the switch copies from form a sequence of integers, for each *)
(* kind of field: the reversed 8 bytes of a BIT, a BLOB's bytes, or the    *)
(* character codes of a text; none of them is shorter than the value.    *)
LEMMA ValueBytesIsSequence ==
  ASSUME field \in Values
  PROVE  /\ ValueBytes \in Seq(Int)
         /\ FieldLen \in Nat /\ FieldLen <= Len(ValueBytes)
<1>1. CASE field.type = "BIT"
  <2>1. field.data \in Seq(Byte) /\ Len(field.data) \in 1..8
    BY <1>1, InputsAssumption
  <2>2. field.data \in Seq(Int)
    BY <2>1, BytesAreIntegers
  <2>3. ValueBytes = Reversed(field.data)
    BY <1>1 DEF ValueBytes, Value
  <2>. QED BY <2>1, <2>2, <2>3, ReversedIsSequence DEF FieldLen
<1>2. CASE field.type = "BLOB"
  <2>1. field.data \in Seq(Byte)
    BY <1>2, InputsAssumption
  <2>2. field.data \in Seq(Int)
    BY <2>1, BytesAreIntegers
  <2>. QED BY <1>2, <2>2 DEF ValueBytes, Value, FieldLen
<1>3. CASE field.type \notin {"BIT", "BLOB"}
  <2>1. ValueBytes \in Seq(Nat \ {0}) /\ Len(ValueBytes) = FieldLen /\ FieldLen \in Nat
    BY <1>3, TextBytesNotTerminator
  <2>2. \A i \in 1..Len(ValueBytes) : ValueBytes[i] \in Int
    BY <2>1
  <2>. QED BY <2>1, <2>2
<1>. QED BY <1>1, <1>2, <1>3

(* The offset copy writes at most buffer_length cells.                    *)
LEMMA OffsetCopyWithinBuffer ==
  ASSUME NEW b, b.offset \in Nat, b.buffer_length \in Nat,
         NEW data \in Seq(Int), NEW fl \in Nat, fl <= Len(data)
  PROVE  /\ OffsetCopy(b, data, fl).cells \in Seq(Int)
         /\ Len(OffsetCopy(b, data, fl).cells) <= b.buffer_length
<1>1. CASE b.offset < fl
  <2>. DEFINE copyLen == fl - b.offset
              n == IF copyLen > b.buffer_length THEN b.buffer_length ELSE copyLen
  <2>1. OffsetCopy(b, data, fl).cells = SubSeq(data, b.offset + 1, b.offset + n)
    BY <1>1 DEF OffsetCopy
  <2>2. n \in Nat /\ n <= b.buffer_length /\ b.offset + n <= Len(data)
    BY <1>1
  <2>3. /\ SubSeq(data, b.offset + 1, b.offset + n) \in Seq(Int)
        /\ Len(SubSeq(data, b.offset + 1, b.offset + n)) = n
    <3>1. PICK off \in Nat : b.offset = off
      OBVIOUS
    <3>2. PICK k \in Nat : n = k
      BY <2>2
    <3>3. off + k <= Len(data)
      BY <2>2, <3>1, <3>2
    <3>4. /\ SubSeq(data, off + 1, off + k) \in Seq(Int)
          /\ Len(SubSeq(data, off + 1, off + k)) = k
      BY <3>3
    <3>. QED BY <3>1, <3>2, <3>4
  <2>. QED BY <2>1, <2>2, <2>3
<1>2. CASE ~(b.offset < fl)
  BY <1>2 DEF OffsetCopy
<1>. QED BY <1>1, <1>2

(* The terminator is added only when the copy left a cell for it.         *)
LEMMA TerminatedWithinBuffer ==
  ASSUME NEW b, b.buffer_length \in Nat, NEW fl, NEW cells \in Seq(Int),
         Len(cells) <= b.buffer_length
  PROVE  /\ Terminated(b, fl, cells) \in Seq(Int)
         /\ Len(Terminated(b, fl, cells)) <= b.buffer_length
BY DEF Terminated

(* Storing an integer writes the n bytes of its C type.                   *)
LEMMA StoreIntLength ==
  ASSUME NEW v, NEW n \in Nat
  PROVE  Len(StoreInt(v, n)) = n
BY DEF StoreInt

(* Writing w leaves every cell past Len(w) as it was.                     *)
LEMMA WriteKeepsRest ==
  ASSUME NEW w, NEW bl \in Nat, Len(w) \in Nat, Len(w) <= bl
  PROVE  \A i \in 1..Cap : i > bl => Write(w)[i] = buf[i]
BY DEF Write

(* MADB_CspsConvertSql2C never writes past the application's buffer: in   *)
(* every call, for every value, offset and buffer_length, the cells past  *)
(* buffer_length keep what they held.  The offset copy is cut at          *)
(* buffer_length, the terminator needs a free cell, and an integer is     *)
(* stored in the Bytes(buffer_type) cells its buffer_length declares.     *)
THEOREM WritesStayInBufferTheorem == Spec => WritesStayInBuffer
<1>1. TextInv /\ [Next]_vars => [WriteWithinBuffer]_vars
  <2> SUFFICES ASSUME TextInv, [Next]_vars PROVE [WriteWithinBuffer]_vars
    OBVIOUS
  <2>. DEFINE bl == bind.buffer_length
  <2>1. /\ bl \in Nat /\ bind.offset \in Nat
        /\ bind.buffer_type \in IntegerTypes => bl = Bytes(bind.buffer_type)
    BY InputsAssumption DEF TextInv
  <2>2. /\ ValueBytes \in Seq(Int)
        /\ FieldLen \in Nat /\ FieldLen <= Len(ValueBytes)
    BY ValueBytesIsSequence DEF TextInv
  <2>3. /\ OffsetCopy(bind, ValueBytes, FieldLen).cells \in Seq(Int)
        /\ Len(OffsetCopy(bind, ValueBytes, FieldLen).cells) <= bl
    BY <2>1, <2>2, OffsetCopyWithinBuffer
  <2>4. CASE BitAllocFails \/ ToReal \/ ToTemporal
    BY <2>4 DEF BitAllocFails, ToReal, ToTemporal, WriteWithinBuffer
  <2>5. CASE ToInteger /\ field.type \in {"BIT", "BLOB"}
    <3>1. buf' = Write(OffsetCopy(bind, ValueBytes, FieldLen).cells)
      BY <2>5 DEF ToInteger, Stored
    <3>2. \A i \in 1..Cap : i > bl => Write(OffsetCopy(bind, ValueBytes, FieldLen).cells)[i] = buf[i]
      BY <2>1, <2>3, WriteKeepsRest
    <3>. QED BY <3>1, <3>2 DEF WriteWithinBuffer
  <2>6. CASE ToInteger /\ field.type \notin {"BIT", "BLOB"}
    <3>. DEFINE val == IF bind.is_unsigned THEN Strtoull(ValueText) ELSE Strtoll(ValueText)
                n == Bytes(bind.buffer_type)
    <3>1. buf' = Write(StoreInt(val, n))
      BY <2>6 DEF ToInteger, Stored, CharToInteger, IntegerStored
    <3>2. n \in Nat /\ n = bl
      BY <2>1, <2>6 DEF ToInteger, Bytes
    <3>3. Len(StoreInt(val, n)) = bl
      BY <3>2, StoreIntLength
    <3>4. \A i \in 1..Cap : i > bl => Write(StoreInt(val, n))[i] = buf[i]
      BY <2>1, <3>3, WriteKeepsRest
    <3>. QED BY <3>1, <3>4 DEF WriteWithinBuffer
  <2>7. CASE ToBuffer
    <3>1. [TextCopy EXCEPT !.cells = Terminated(bind, FieldLen, @)] = BufferCopy
      <4>1. TextCopy = [cells |-> TextCopy.cells, flag |-> TextCopy.flag]
        BY DEF TextCopy, OffsetCopy
      <4>. QED BY <4>1 DEF BufferCopy
    <3>2. buf' = Write(BufferCopy.cells)
      BY <2>7, <3>1 DEF ToBuffer, Stored, TextCopy
    <3>3. /\ BufferCopy.cells \in Seq(Int)
          /\ Len(BufferCopy.cells) <= bl
      BY <2>1, <2>3, TerminatedWithinBuffer DEF BufferCopy, TextCopy
    <3>4. Len(BufferCopy.cells) \in Nat
      BY <3>3
    <3>5. \A i \in 1..Cap : i > bl => Write(BufferCopy.cells)[i] = buf[i]
      BY <2>1, <3>3, <3>4, WriteKeepsRest
    <3>. QED BY <3>2, <3>5 DEF WriteWithinBuffer
  <2>8. CASE UNCHANGED vars
    BY <2>8 DEF vars
  <2>. QED BY <2>4, <2>5, <2>6, <2>7, <2>8 DEF Next
<1>. QED BY <1>1, TextInvInductive, PTL DEF Spec, WritesStayInBuffer
=============================================================================
