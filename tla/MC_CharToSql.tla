----------------------------- MODULE MC_CharToSql -----------------------------
(***************************************************************************)
(* Instance of CharToSql for TLC: temporal texts built from a few years,  *)
(* months, days, clocks and fractions, each given with the value the spec *)
(* says it denotes.  MCPassInputs are the texts the spec's grammar        *)
(* describes with 2-digit years other than 00 and 4-digit years above 99; *)
(* MCAllInputs add the years 00, 0000 and 0070 and a fraction followed by *)
(* a blank.                                                                *)
(***************************************************************************)
EXTENDS CharToSql

Y99   == <<"9", "9">>
Y00   == <<"0", "0">>
Y2024 == <<"2", "0", "2", "4">>
Y0070 == <<"0", "0", "7", "0">>
Y0000 == <<"0", "0", "0", "0">>
M00   == <<"0", "0">>
M01   == <<"0", "1">>
M12   == <<"1", "2">>
D09   == <<"0", "9">>
H10   == <<"1", "0">>
H25   == <<"2", "5">>
N00   == <<"0", "0">>
F5    == <<".", "5">>
F6    == <<".", "1", "2", "3", "4", "5", "6">>
F7    == <<".", "1", "2", "3", "4", "5", "6", "7">>

Date(y, m, d) == y \o <<"-">> \o m \o <<"-">> \o d
Clock(h, m, s) == h \o <<":">> \o m \o <<":">> \o s

\* What a text means: kind, year as written and its digits, the fields.
W(kind, yd, y, mo, d, h, mi, s, us, neg) ==
  [kind |-> kind, yearDigits |-> yd, year |-> y, month |-> mo, day |-> d,
   hour |-> h, minute |-> mi, second |-> s, micro |-> us, neg |-> neg]

In(t, w) == [text |-> t, want |-> w]

MCPassInputs ==
  { In(Date(Y99, M01, D09), W("date", 2, 99, 1, 9, 0, 0, 0, 0, 0)),
    In(Date(Y2024, M12, D09), W("date", 4, 2024, 12, 9, 0, 0, 0, 0, 0)),
    In(Date(Y2024, M00, D09), W("date", 4, 2024, 0, 9, 0, 0, 0, 0, 0)),
    In(Clock(H10, N00, N00), W("time", 0, 0, 0, 0, 10, 0, 0, 0, 0)),
    In(Clock(H10, N00, N00) \o F5, W("time", 0, 0, 0, 0, 10, 0, 0, 500000, 0)),
    In(Clock(H25, N00, N00), W("time", 0, 0, 0, 0, 25, 0, 0, 0, 0)),
    In(Date(Y2024, M01, D09) \o <<" ">> \o Clock(H10, N00, N00) \o F6,
       W("datetime", 4, 2024, 1, 9, 10, 0, 0, 123456, 0)),
    In(<<"-">> \o Clock(H10, N00, N00) \o F7, W("time", 0, 0, 0, 0, 10, 0, 0, 123456, 1)),
    In(<<" ", " ">> \o Date(Y99, M12, D09), W("date", 2, 99, 12, 9, 0, 0, 0, 0, 0)),
    In(<<"x", "x">>, W("zero", 0, 0, 0, 0, 0, 0, 0, 0, 0)),
    In(<<>>, W("zero", 0, 0, 0, 0, 0, 0, 0, 0, 0)),
    In(Y2024 \o <<"-">> \o M01, W("none", 0, 0, 0, 0, 0, 0, 0, 0, 0)),
    In(H10 \o <<":">> \o N00, W("none", 0, 0, 0, 0, 0, 0, 0, 0, 0)) }

MCAllInputs ==
  MCPassInputs \cup
  { In(Date(Y00, M01, D09), W("date", 2, 0, 1, 9, 0, 0, 0, 0, 0)),
    In(Date(Y0070, M01, D09), W("date", 4, 70, 1, 9, 0, 0, 0, 0, 0)),
    In(Date(Y0000, M01, D09), W("date", 4, 0, 1, 9, 0, 0, 0, 0, 0)),
    In(Clock(H10, N00, N00) \o F5 \o <<" ">>, W("time", 0, 0, 0, 0, 10, 0, 0, 500000, 0)) }

MCConciseTypes ==
  {"SQL_BIT", "SQL_VARCHAR", "SQL_TYPE_TIME", "SQL_TYPE_DATE", "SQL_TYPE_TIMESTAMP"}
=============================================================================
