------------------------------ MODULE CharToSql ------------------------------
(***************************************************************************)
(* MADB_Char2Sql (src/ma_typeconv.c, lines 369-410): how a narrow text    *)
(* parameter is put into the MYSQL_BIND sent to the server, for the three *)
(* kinds of SQL type its switch tells apart.                               *)
(*   - SQL_BIT: one byte, the first byte of the text, in a buffer taken   *)
(*     from MADB_GetBufferForSqlValue (lines 325-339) when the caller      *)
(*     gave none;                                                          *)
(*   - SQL_DATETIME (SQL_TYPE_TIME, _DATE, _TIMESTAMP): the text is parsed *)
(*     by MADB_Str2Ts and checked by MADB_TsConversionIsPossible, then it  *)
(*     is sent as a string (the case falls through to the default);       *)
(*   - any other type: the text is sent as a string.                      *)
(* A call is one step.  The allocations it makes may fail, and the local  *)
(* BOOL isTime (line 394) is read by the check although MADB_Str2Ts sets  *)
(* it only for a time-only text: its value is whatever the stack holds,   *)
(* a nondeterministic 0 or 1 fixed in Init.                                *)
(***************************************************************************)
EXTENDS TemporalText

CONSTANTS
  Inputs,       \* the texts a call may receive, each with what it means
  ConciseTypes  \* the SQL types of the parameter's IPD record

ASSUME InputsAssumption ==
  /\ \A in \in Inputs : in.text \in Seq({"0", "1", "2", "3", "4", "5", "6", "7",
                                          "8", "9", "-", ":", ".", " ", "x"})
  /\ ConciseTypes \subseteq SqlTypes \cup {"SQL_BIT", "SQL_VARCHAR"}

VARIABLES
  input,     \* the text (DataPtr, Length) and what it means
  sqlType,   \* SqlRec->ConciseType
  buffer,    \* *Buffer: "null", "caller" (a buffer of the caller), "internal"
  internal,  \* CRec->InternalBuffer: "null" or "buf"
  rebind,    \* Stmt->RebindParams
  isTime,    \* the uninitialized local isTime of the SQL_DATETIME case
  tm,        \* the local MYSQL_TIME Tm
  strRc,     \* what MADB_Str2Ts returned ("none" before it is called)
  leaked,    \* MADB_Str2Ts returned without freeing its local copy
  sent,      \* the MYSQL_BIND's buffer type, data and length
  rc,        \* what MADB_Char2Sql returned
  pc

vars == <<input, sqlType, buffer, internal, rebind, isTime, tm, strRc, leaked,
          sent, rc, pc>>

\* *(char*)DataPtr: the first byte of the text, its terminator if empty.
FirstByte(t) == IF t = <<>> THEN 0 ELSE CharCode(t[1])

NoBind == [type |-> "none", data |-> <<>>, len |-> 0]

Init ==
  /\ input \in Inputs
  /\ sqlType \in ConciseTypes
  /\ buffer \in {"null", "caller"}
  /\ internal \in {"null", "buf"}
  /\ rebind \in BOOLEAN
  /\ isTime \in {0, 1}
  /\ tm = ZeroTm
  /\ strRc = "none"
  /\ leaked = FALSE
  /\ sent = NoBind
  /\ rc = "none"
  /\ pc = "call"

\* Mutant: a failed calloc is not reported.
GetBufferForSqlValue_Unchecked(allocOk) ==
  IF rebind \/ internal = "null"
  THEN [ok |-> TRUE, internal |-> IF allocOk THEN "buf" ELSE "null"]
  ELSE [ok |-> TRUE, internal |-> internal]

(***************************************************************************)
(* MADB_GetBufferForSqlValue: a new zeroed buffer when the statement is   *)
(* rebinding or there is none, else the one there is; NULL and HY001 when *)
(* the calloc fails.  Its result: the buffer and the internal buffer.     *)
(***************************************************************************)
GetBufferForSqlValue(allocOk) ==
  IF rebind \/ internal = "null"
  THEN IF allocOk THEN [ok |-> TRUE, internal |-> "buf"]
                  ELSE [ok |-> FALSE, internal |-> "null"]
  ELSE [ok |-> TRUE, internal |-> internal]

\* The SQL_BIT case (lines 374-388).
Char2SqlBit ==
  /\ pc = "call" /\ sqlType = "SQL_BIT"
  /\ \E allocOk \in BOOLEAN :
       LET g == GetBufferForSqlValue(allocOk) IN
       IF buffer = "null" /\ ~g.ok
       THEN /\ internal' = g.internal
            /\ rc' = "HY001"
            /\ UNCHANGED <<buffer, sent>>
       ELSE /\ internal' = IF buffer = "null" THEN g.internal ELSE internal
            /\ buffer' = IF buffer = "null" THEN "internal" ELSE buffer
            /\ sent' = [type |-> "MYSQL_TYPE_TINY", data |-> <<FirstByte(input.text)>>,
                        len |-> 1]
            /\ rc' = "SQL_SUCCESS"
  /\ pc' = "done"
  /\ UNCHANGED <<input, sqlType, rebind, isTime, tm, strRc, leaked>>

\* The default case (lines 402-406): the text itself, as a string.
SendAsString ==
  [type |-> "MYSQL_TYPE_STRING", data |-> input.text, len |-> Len(input.text)]

\* Lines 396-401 once MADB_Str2Ts returned r: its error, or the check of
\* the fields against the SQL type, then the text is sent as a string.
Str2TsChecked(r) ==
  LET check == TsConversionIsPossible(r.tm, sqlType, "22018",
                                      IF r.setTime THEN 1 ELSE isTime)
  IN  /\ strRc' = r.rc
      /\ tm' = r.tm
      /\ leaked' = ~r.freed
      /\ rc' = IF r.rc # "SQL_SUCCESS" THEN r.rc ELSE check
      /\ sent' = IF rc' = "SQL_SUCCESS" THEN SendAsString ELSE sent

(***************************************************************************)
(* The SQL_DATETIME case (lines 389-401), falling through to the default. *)
(* RETURN_ERROR_OR_CONTINUE returns the error of either call.  MADB_ALLOC *)
(* of Str2Ts's local copy may fail (HY001, Tm untouched).                 *)
(***************************************************************************)
Char2SqlDatetime ==
  /\ pc = "call" /\ sqlType \in SqlTypes
  /\ \/ /\ strRc' = "HY001"
        /\ rc' = "HY001"
        /\ UNCHANGED <<tm, leaked, sent>>
     \/ Str2TsChecked(Str2Ts(input.text, FALSE))
  /\ pc' = "done"
  /\ UNCHANGED <<input, sqlType, buffer, internal, rebind, isTime>>

\* Any other SQL type (lines 402-406).
Char2SqlDefault ==
  /\ pc = "call" /\ sqlType = "SQL_VARCHAR"
  /\ sent' = SendAsString
  /\ rc' = "SQL_SUCCESS"
  /\ pc' = "done"
  /\ UNCHANGED <<input, sqlType, buffer, internal, rebind, isTime, tm, strRc, leaked>>

Next == Char2SqlBit \/ Char2SqlDatetime \/ Char2SqlDefault

Spec == Init /\ [][Next]_vars

-----------------------------------------------------------------------------

Rcs == {"none", "SQL_SUCCESS", "HY001", "22007", "22008", "22018"}

\* Type invariant; a parsed fraction is a number of microseconds.
TypeOK ==
  /\ input \in Inputs
  /\ sqlType \in ConciseTypes
  /\ buffer \in {"null", "caller", "internal"}
  /\ internal \in {"null", "buf"}
  /\ rebind \in BOOLEAN /\ isTime \in {0, 1} /\ leaked \in BOOLEAN
  /\ tm \in [Fields -> Int] /\ tm.second_part \in 0..999999
  /\ strRc \in Rcs /\ rc \in Rcs
  /\ sent.type \in {"none", "MYSQL_TYPE_TINY", "MYSQL_TYPE_STRING"}
  /\ pc \in {"call", "done"}

(***************************************************************************)
(* MADB_Str2Ts reads every field of a well-formed temporal text: when it *)
(* succeeds, Tm holds the sign, month, day, clock and the fraction scaled *)
(* to microseconds that the text denotes, whatever the number of fraction *)
(* digits (the FracMulIdx arithmetic of lines 82-96), and no year unless *)
(* the text has a date (whose normalized year is not checked here).       *)
(***************************************************************************)
ClockFieldsParsed ==
  (pc = "done" /\ strRc = "SQL_SUCCESS" /\ input.want.kind # "none") =>
    LET w == input.want IN
    /\ tm.neg = w.neg
    /\ w.kind \in {"time", "zero"} => tm.year = 0
    /\ tm.month = w.month /\ tm.day = w.day
    /\ tm.hour = w.hour /\ tm.minute = w.minute /\ tm.second = w.second
    /\ tm.second_part = w.micro

(***************************************************************************)
(* A temporal parameter MADB_Char2Sql accepts fits its SQL type: a TIME   *)
(* has no fraction and a clock within one day, a DATE no time of day, and *)
(* a DATE or TIMESTAMP a month and a day.  It takes Str2Ts and            *)
(* TsConversionIsPossible together to get this right.                      *)
(***************************************************************************)
AcceptedTextFitsTarget ==
  (pc = "done" /\ sqlType \in SqlTypes /\ rc = "SQL_SUCCESS" /\ input.want.kind # "none") =>
    LET w == input.want IN
    /\ sqlType = "SQL_TYPE_TIME" =>
         w.micro = 0 /\ w.hour <= 23 /\ w.minute <= 59 /\ w.second <= 59
    /\ sqlType = "SQL_TYPE_DATE" =>
         w.hour = 0 /\ w.minute = 0 /\ w.second = 0 /\ w.micro = 0
    /\ sqlType # "SQL_TYPE_TIME" => w.month # 0 /\ w.day # 0

(***************************************************************************)
(* The SQL_BIT case writes through *Buffer: when it had to take the       *)
(* statement's internal buffer, that buffer was allocated.                *)
(***************************************************************************)
BitWrittenToAllocatedBuffer ==
  (pc = "done" /\ sent.type = "MYSQL_TYPE_TINY" /\ buffer = "internal") =>
    internal = "buf"

(***************************************************************************)
(* MADB_Str2Ts frees its local copy of the text on every return.          *)
(***************************************************************************)
CopyReleased == pc = "done" => ~leaked
=============================================================================
