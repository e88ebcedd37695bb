-------------------------- MODULE MC_ResultConversion --------------------------
(***************************************************************************)
(* Instance of ResultConversion for TLC.  A byte has 2 bits, so TINY,     *)
(* SHORT, LONG and LONGLONG targets have 2, 4, 8 and 16 bits: the texts   *)
(* below fall inside and outside each range, and 99999 and 40000 fall     *)
(* outside long long and between LLONG_MAX and ULLONG_MAX.  Text buffers  *)
(* of 0, 2 and 5 cells are read from offsets 0, 1 and 3.                  *)
(***************************************************************************)
EXTENDS ResultConversion

MCByteBits == 2
MCCap == 8

Txt(t, n) == [type |-> "VARCHAR", data |-> t, whole |-> TRUE, num |-> n]
NoNum(ty, t) == [type |-> ty, data |-> t, whole |-> FALSE, num |-> 0]

MCValues ==
  { Txt(<<"1">>, 1), Txt(<<"-", "1">>, -1), Txt(<<"5">>, 5),
    Txt(<<"2", "0", "0">>, 200), Txt(<<" ", "+", "3">>, 3),
    Txt(<<"4", "0", "0", "0", "0">>, 40000),
    Txt(<<"9", "9", "9", "9", "9">>, 99999),
    NoNum("VARCHAR", <<"7", "x">>), NoNum("VARCHAR", <<>>),
    NoNum("DATETIME", <<"9", "9", "-", "0", "1", "-", "0", "9">>),
    NoNum("DATETIME", <<"9", "-", "x">>),
    NoNum("BIT", <<1>>), NoNum("BIT", <<2, 3>>), NoNum("BLOB", <<1, 0, 2>>) }

MCBinds ==
  { [buffer_type |-> t, is_unsigned |-> u, buffer_length |-> Bytes(t), offset |-> 0] :
      t \in {"TINY", "SHORT", "LONG", "LONGLONG"}, u \in BOOLEAN }
  \cup
  { [buffer_type |-> t, is_unsigned |-> FALSE, buffer_length |-> 8, offset |-> 0] :
      t \in {"DOUBLE", "TIMESTAMP"} }
  \cup
  { [buffer_type |-> "STRING", is_unsigned |-> FALSE, buffer_length |-> l, offset |-> o] :
      l \in {0, 2, 5}, o \in {0, 1, 3} }
=============================================================================
