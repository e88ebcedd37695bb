---------------------------- MODULE TemporalText ----------------------------
(***************************************************************************)
(* The temporal text parser of src/ma_typeconv.c: MADB_Str2Ts (lines      *)
(* 26-127), which fills a MYSQL_TIME from "[-]Y-M-D[ h:m:s[.f]]" or       *)
(* "[-]h:m:s[.f]" text through sscanf, and MADB_TsConversionIsPossible    *)
(* (lines 448-477), which checks the parsed fields against the target SQL *)
(* type.  Both are pure functions of their arguments, so they are         *)
(* operators here; the modules of their callers (CharToSql) turn a call   *)
(* into a step.                                                           *)
(*                                                                         *)
(* Text is a sequence of one-character strings over a small alphabet:     *)
(* the digits, the separators "-", ":", ".", " " and a non-digit "x".    *)
(* sscanf is modelled by what it does on that alphabet: a numeric         *)
(* conversion skips blanks, takes an optional sign and at least one       *)
(* digit (at most a field width of characters); a literal must match the *)
(* next character; the result is the number of conversions made before   *)
(* the first failure, and those conversions are assigned.  The values     *)
(* "%u" produces from a text with a '-' sign are kept as negative         *)
(* integers (the code stores them modulo 2^32).                           *)
(***************************************************************************)
EXTENDS Integers, Sequences

Digits == <<"0", "1", "2", "3", "4", "5", "6", "7", "8", "9">>

IsDigit(c) == \E d \in 1..10 : Digits[d] = c

DigitVal(c) == CHOOSE d \in 0..9 : Digits[d + 1] = c

\* The bytes of the alphabet (ASCII).
CharCode(c) ==
  CASE IsDigit(c) -> 48 + DigitVal(c)
    [] c = "-" -> 45 [] c = "+" -> 43 [] c = ":" -> 58 [] c = "." -> 46
    [] c = " " -> 32 [] OTHER -> 120

\* The value of the digit run t[i..j].
DecimalValue(t, i, j) ==
  LET v[k \in i - 1..j] == IF k = i - 1 THEN 0 ELSE 10 * v[k - 1] + DigitVal(t[k])
  IN  v[j]

\* The first position at or after i holding c, or Len(t) + 1 (strchr).
FirstFrom(t, i, c) ==
  CHOOSE p \in i..Len(t) + 1 :
    /\ p > Len(t) \/ t[p] = c
    /\ \A q \in i..p - 1 : t[q] # c

\* The first position at or after i that is not a blank.
SkipBlanks(t, i) ==
  CHOOSE p \in i..Len(t) + 1 :
    /\ p > Len(t) \/ t[p] # " "
    /\ \A q \in i..p - 1 : t[q] = " "

Min2(a, b) == IF a < b THEN a ELSE b

(***************************************************************************)
(* One numeric conversion ("%d", "%u" or "%6lu") at position i: blanks,   *)
(* an optional sign and the longest digit run that keeps the sign and the *)
(* digits within width characters (width 0: no limit).  NumberFrom is the *)
(* conversion once the blanks up to position p are skipped.               *)
(***************************************************************************)
NumberFrom(t, p, width) ==
  LET signed == p <= Len(t) /\ t[p] \in {"+", "-"}
      q     == IF signed THEN p + 1 ELSE p
      limit == IF width = 0 THEN Len(t) ELSE Min2(Len(t), p + width - 1)
      runs  == {e \in q..limit : \A k \in q..e : IsDigit(t[k])}
      e     == IF runs = {} THEN q - 1 ELSE CHOOSE m \in runs : \A n \in runs : n <= m
      mag   == IF e < q THEN 0 ELSE DecimalValue(t, q, e)
  IN  [ok   |-> e >= q,
       val  |-> IF signed /\ t[p] = "-" THEN -mag ELSE mag,
       next |-> e + 1]

ScanNumber(t, i, width) == NumberFrom(t, SkipBlanks(t, i), width)


\* Format directives: a numeric conversion of a width, or a literal.
Num(w) == [kind |-> "num", width |-> w]
Lit(c) == [kind |-> "lit", ch |-> c]

DateFormat     == <<Num(0), Lit("-"), Num(0), Lit("-"), Num(0)>>
TimeFormat     == <<Num(0), Lit(":"), Num(0), Lit(":"), Num(0)>>
\* Mutant: "%7lu" reads a seventh fraction digit.
TimeFracFormat_Width7 == <<Num(0), Lit(":"), Num(0), Lit(":"), Num(0), Lit("."), Num(7)>>

TimeFracFormat == <<Num(0), Lit(":"), Num(0), Lit(":"), Num(0), Lit("."), Num(6)>>

\* The scan state s after a numeric conversion that returned r.
Converted(s, r) ==
  IF r.ok THEN [pos |-> r.next, vals |-> Append(s.vals, r.val), ok |-> TRUE]
          ELSE [s EXCEPT !.ok = FALSE]

\* The scan state s after the directive d.
ScanStep(t, s, d) ==
  CASE ~s.ok -> s
    [] d.kind = "lit" /\ s.pos <= Len(t) /\ t[s.pos] = d.ch -> [s EXCEPT !.pos = @ + 1]
    [] d.kind = "lit" -> [s EXCEPT !.ok = FALSE]
    [] OTHER -> Converted(s, ScanNumber(t, s.pos, d.width))

\* sscanf(t + i - 1, fmt, ...): the conversions made and their values.
Scan(t, i, fmt) ==
  LET st[k \in 0..Len(fmt)] ==
        IF k = 0 THEN [pos |-> i, vals |-> <<>>, ok |-> TRUE]
        ELSE ScanStep(t, st[k - 1], fmt[k])
  IN  st[Len(fmt)].vals

Fields == {"year", "month", "day", "hour", "minute", "second", "second_part", "neg"}

ZeroTm == [f \in Fields |-> 0]

\* The fields names[1..Len(vals)] of tm receive the converted values.
Assign(tm, names, vals) ==
  [f \in Fields |-> IF \E k \in 1..Len(vals) : names[k] = f
                    THEN vals[CHOOSE k \in 1..Len(vals) : names[k] = f]
                    ELSE tm[f]]

Mul == <<100000, 10000, 1000, 100, 10>>

\* Mutant: the characters counted from the '.' itself.
FracMulIdx_FromDot(t, frac) == Len(t) - frac

\* Line 82: End - (Frac + 1) - 1, the characters after the '.' less one.
FracMulIdx(t, frac) == Len(t) - frac - 1

\* Lines 105-122: the year of a non-interval date is moved to 19xx/20xx.
NormalizeYear(tm) ==
  [tm EXCEPT !.year = CASE @ > 0 /\ @ < 70  -> @ + 2000
                        [] @ >= 70 /\ @ < 100 -> @ + 1900
                        [] OTHER -> @]

\* Lines 82-94: the fraction scaled by the characters after the '.'.
ScaleFraction(tm, hasFrac, idx) ==
  IF hasFrac /\ 0 <= idx /\ idx < 5
  THEN [tm EXCEPT !.second_part = @ * Mul[idx + 1]]
  ELSE tm

\* Lines 105-126: the date is normalized unless interval; the copy is freed.
Str2TsDone(interval, isDate, isClock, tm) ==
  [rc |-> "SQL_SUCCESS", tm |-> IF ~interval /\ isDate THEN NormalizeYear(tm) ELSE tm,
   setTime |-> isClock /\ ~isDate, freed |-> TRUE]

\* Lines 75-103, once the clock was scanned into tvals.
ClockScanned(t, interval, isDate, tmD, isClock, frac, tvals) ==
  LET hasFrac == frac <= Len(t)
      tmT     == Assign(tmD, <<"hour", "minute", "second", "second_part">>, tvals)
  IN  IF isClock /\ Len(tvals) < (IF hasFrac THEN 4 ELSE 3)
      THEN [rc |-> "22008", tm |-> tmT, setTime |-> ~isDate, freed |-> FALSE]
      ELSE Str2TsDone(interval, isDate, isClock,
                      IF isClock THEN ScaleFraction(tmT, hasFrac, FracMulIdx(t, frac))
                      ELSE tmD)

\* Lines 70-80: the clock starts at s2, frac is strchr(Start, '.').
ClockFrom(t, interval, isDate, tmD, s2, frac) ==
  ClockScanned(t, interval, isDate, tmD,
               ~(isDate /\ s2 > Len(t)) /\ FirstFrom(t, s2, ":") <= Len(t), frac,
               Scan(t, s2, IF frac <= Len(t) THEN TimeFracFormat ELSE TimeFormat))

\* Lines 60-69, once the date was scanned into dvals.
DateScanned(t, interval, s1, isDate, dvals, tmD) ==
  IF isDate /\ Len(dvals) < 3
  THEN [rc |-> "22008", tm |-> tmD, setTime |-> FALSE, freed |-> FALSE]
  ELSE LET s2 == IF isDate THEN FirstFrom(t, s1, " ") ELSE s1
       IN  ClockFrom(t, interval, isDate, tmD, s2, FirstFrom(t, s2, "."))

\* Lines 58-60: the text from s1 (after the sign) is a date if it has a '-'.
DateFrom(t, interval, s1, isDate, tm0) ==
  LET dvals == Scan(t, s1, DateFormat)
  IN  DateScanned(t, interval, s1, isDate, dvals,
                  IF isDate THEN Assign(tm0, <<"year", "month", "day">>, dvals) ELSE tm0)

(***************************************************************************)
(* MADB_Str2Ts(t, Length(t), Tm, interval, ...) once its local copy is    *)
(* allocated: rc, the fields written to Tm, whether *isTime was set, and  *)
(* whether the copy was freed before returning.  The stages above take   *)
(* the values the earlier lines computed as arguments (lines 40-51 here). *)
(***************************************************************************)
Str2TsFrom(t, interval, s0) ==
  IF s0 > Len(t)
  THEN [rc |-> "SQL_SUCCESS", tm |-> ZeroTm, setTime |-> FALSE, freed |-> TRUE]
  ELSE LET neg == t[s0] = "-"
           s1  == IF neg THEN s0 + 1 ELSE s0
       IN  DateFrom(t, interval, s1, FirstFrom(t, s1, "-") <= Len(t),
                    [ZeroTm EXCEPT !.neg = IF neg THEN 1 ELSE 0])

Str2Ts(t, interval) == Str2TsFrom(t, interval, SkipBlanks(t, 1))

\* VALID_TIME (a macro of the driver's headers): the clock fields of a day.
ValidTime(tm) == tm.hour <= 23 /\ tm.minute <= 59 /\ tm.second <= 59

SqlTypes == {"SQL_TYPE_TIME", "SQL_TYPE_DATE", "SQL_TYPE_TIMESTAMP"}

\* Mutant: a TIME target does not look at the fraction.
TsConversionIsPossible_NoFraction(tm, sqlType, sqlState, isTime) ==
  LET dateless == (isTime = 0 /\ tm.year = 0) \/ tm.month = 0 \/ tm.day = 0
  IN  CASE sqlType = "SQL_TYPE_TIME" /\ ~ValidTime(tm)   -> "22007"
        [] sqlType = "SQL_TYPE_TIME"                     -> "SQL_SUCCESS"
        [] sqlType = "SQL_TYPE_DATE"
             /\ tm.hour + tm.minute + tm.second + tm.second_part # 0 -> "22008"
        [] dateless -> sqlState
        [] OTHER    -> "SQL_SUCCESS"

(***************************************************************************)
(* MADB_TsConversionIsPossible(ts, SqlType, Error, SqlState, isTime): the *)
(* DATE case falls through to the default case.  ts is the MYSQL_TIME     *)
(* copied to an SQL_TIMESTAMP_STRUCT, whose fraction is zero exactly when *)
(* second_part is.                                                        *)
(***************************************************************************)
TsConversionIsPossible(tm, sqlType, sqlState, isTime) ==
  LET dateless == (isTime = 0 /\ tm.year = 0) \/ tm.month = 0 \/ tm.day = 0
  IN  CASE sqlType = "SQL_TYPE_TIME" /\ tm.second_part # 0 -> "22008"
        [] sqlType = "SQL_TYPE_TIME" /\ ~ValidTime(tm)   -> "22007"
        [] sqlType = "SQL_TYPE_TIME"                     -> "SQL_SUCCESS"
        [] sqlType = "SQL_TYPE_DATE"
             /\ tm.hour + tm.minute + tm.second + tm.second_part # 0 -> "22008"
        [] dateless -> sqlState
        [] OTHER    -> "SQL_SUCCESS"
=============================================================================
