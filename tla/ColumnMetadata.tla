--------------------------- MODULE ColumnMetadata ---------------------------
(***************************************************************************)
(* The metadata the driver reports: S2_GetColumnSize,                      *)
(* S2_GetCharacterOctetLength and S2_GetDecimalDigits (src/ma_type_helper.c)*)
(* describe a result column from its MYSQL_FIELD and its row of the type  *)
(* catalogue, and MADB_GetTypeInfo (src/ma_info.c) answers SQLGetTypeInfo *)
(* with a statement built from TypeInfoV2 or TypeInfoV3.  Each call is one *)
(* step; the state holds the last answer of each.                         *)
(*                                                                         *)
(* A field is a record: type (MYSQL_TYPE_ without its prefix), length,    *)
(* unsigned (UNSIGNED_FLAG), decimals, charsetnr, and the SQL type and     *)
(* type name its caller looks the catalogue row up with (MADB_GetTypeName  *)
(* is outside the sources), fullTypeName as the column's declared type    *)
(* text, and, for the properties only, the declared size and scale the    *)
(* server derived length and decimals from.                               *)
(***************************************************************************)
EXTENDS TypeInfo

CONSTANTS
  Fields,      \* the MYSQL_FIELDs a call may describe
  CharMaxLen,  \* char_maxlen of each charset number, 0 where
               \* mariadb_get_charset_by_nr finds none
  Requests     \* the ODBC version and DataType of SQLGetTypeInfo calls

INT32_MAX == 2147483647
SQL_NO_TOTAL == -4
BINARY_CHARSETNR == 63

\* Field types whose catalogue row S2_GetColumnSize or
\* S2_GetCharacterOctetLength reads.
InfoTypes ==
  {"TINY", "SHORT", "LONG", "FLOAT", "DOUBLE", "NULL", "LONGLONG", "INT24",
   "YEAR", "DATE", "TIME", "NEWDATE", "TIMESTAMP", "DATETIME",
   "BLOB", "TINY_BLOB", "MEDIUM_BLOB", "LONG_BLOB"}
StringTypes == {"GEOMETRY", "ENUM", "SET", "VARCHAR", "VAR_STRING", "STRING"}
DecimalTypes == {"DECIMAL", "NEWDECIMAL"}
\* The string types declared with a size; GEOMETRY is not.
DeclaredStringTypes == StringTypes \ {"GEOMETRY"}

\* The charset is binary or one mariadb_get_charset_by_nr knows.
KnownCharset(f) ==
  f.charsetnr = BINARY_CHARSETNR \/ CharMaxLen[f.charsetnr] > 0

ASSUME FieldsAssumption ==
  /\ CharMaxLen \in [DOMAIN CharMaxLen -> 0..4]
  /\ \A f \in Fields :
       /\ f.length \in Nat /\ f.decimals \in 0..31 /\ f.unsigned \in BOOLEAN
       /\ f.charsetnr \in DOMAIN CharMaxLen \cup {BINARY_CHARSETNR}
       \* the caller finds a catalogue row for the fields whose row is read
       /\ f.type \in InfoTypes => GetTypeInfo(f.sqlType, f.typeName) # NoRow
       \* the server's length of DECIMAL(M,D): M digits, a point, a sign
       /\ f.type \in DecimalTypes =>
            /\ f.declSize \in 1..65
            /\ f.length = f.declSize + (IF f.decimals > 0 THEN 1 ELSE 0)
                                     + (IF f.unsigned THEN 0 ELSE 1)
       \* the server's length of a CHAR, VARCHAR, ENUM or SET of n
       \* characters: n times the charset's char_maxlen (a binary string's
       \* n is its bytes); at most 65535 bytes
       /\ f.type \in DeclaredStringTypes /\ KnownCharset(f) =>
            /\ f.declSize \in Nat
            /\ f.length = f.declSize * (IF f.charsetnr = BINARY_CHARSETNR THEN 1
                                        ELSE CharMaxLen[f.charsetnr])
            /\ f.length <= 65535
ASSUME RequestsAssumption ==
  Requests \subseteq [version : {"ODBC2", "ODBC3"}, DataType : Int]

VARIABLES
  column,     \* the field last described, with the three answers
  catalogue   \* the last SQLGetTypeInfo: request, p - StmtStr, return, rows

vars == <<column, catalogue>>

NoColumn == [field |-> "none"]
NoQuery == [request |-> "none"]

-----------------------------------------------------------------------------
(***************************************************************************)
(* S2_GetColumnSize (ma_type_helper.c 31-103).                             *)
(***************************************************************************)

\* field->length capped at INT32_MAX.
ColumnLength(f) == IF f.length > INT32_MAX THEN INT32_MAX ELSE f.length

\* char_size: 1 for the binary charset and for a charset the client does
\* not know, its char_maxlen otherwise.
CharSize(f) ==
  IF f.charsetnr = BINARY_CHARSETNR \/ CharMaxLen[f.charsetnr] = 0
  THEN 1 ELSE CharMaxLen[f.charsetnr]

\* Mutant: the sign is counted for unsigned columns too.
DecimalColumnSize_SignAlways(f, length) ==
  length - 1 - (IF f.decimals # 0 THEN 1 ELSE 0)

\* DECIMAL: the length less the sign and the decimal point.
DecimalColumnSize(f, length) ==
  length - (IF ~f.unsigned THEN 1 ELSE 0) - (IF f.decimals # 0 THEN 1 ELSE 0)

\* LONG_BLOB: the characters of 4 GB, from the 2 GB the catalogue holds.
LongBlobColumnSize(size, cs) ==
  (size \div cs) * (IF cs > 1 THEN 2 ELSE 1) + (IF cs > 1 THEN 1 ELSE 0)

S2_GetColumnSize(f, info, full_type_name) ==
  LET length == ColumnLength(f)
      cs     == CharSize(f)
      adjust == IF full_type_name \in {"datetime", "timestamp"} THEN 1 ELSE 0
  IN  CASE f.type \in {"TINY", "SHORT", "LONG", "FLOAT", "DOUBLE", "NULL",
                       "LONGLONG", "INT24", "YEAR", "DATE", "TIME"} -> info.ColumnSize
        [] f.type \in {"NEWDATE", "TIMESTAMP", "DATETIME"} -> info.ColumnSize - 7 * adjust
        [] f.type \in DecimalTypes -> DecimalColumnSize(f, length)
        [] f.type = "BIT" -> IF length = 1 THEN 1 ELSE (length + 7) \div 8
        [] f.type \in StringTypes -> length \div cs
        [] f.type \in {"BLOB", "TINY_BLOB", "MEDIUM_BLOB"} -> info.ColumnSize \div cs
        [] f.type = "LONG_BLOB" -> LongBlobColumnSize(info.ColumnSize, cs)
        [] OTHER -> SQL_NO_TOTAL

(***************************************************************************)
(* S2_GetCharacterOctetLength (113-181): sizeof(SQL_DATE_STRUCT) and      *)
(* sizeof(SQL_TIME_STRUCT) are 6, sizeof(SQL_TIMESTAMP_STRUCT) is 16.     *)
(***************************************************************************)
FixedOctets ==
  [TINY |-> 1, SHORT |-> 2, INT24 |-> 3, LONG |-> 4, FLOAT |-> 4, DOUBLE |-> 8,
   NULL |-> 1, LONGLONG |-> 8, YEAR |-> 2, DATE |-> 6, TIME |-> 6,
   TIMESTAMP |-> 16, DATETIME |-> 16, NEWDATE |-> 16]

S2_GetCharacterOctetLength(f, info) ==
  LET length == ColumnLength(f)
  IN  CASE f.type \in DOMAIN FixedOctets -> FixedOctets[f.type]
        [] f.type = "BIT" -> (length + 7) \div 8
        [] f.type \in StringTypes \cup DecimalTypes -> length
        [] f.type \in {"TINY_BLOB", "MEDIUM_BLOB", "LONG_BLOB", "BLOB"} -> info.ColumnSize
        [] OTHER -> SQL_NO_TOTAL

\* Mutant: FLOAT and DOUBLE report field->decimals, which is 31
\* (NOT_FIXED_DEC) for a column declared without a scale.
S2_GetDecimalDigits_Approx(f) ==
  CASE f.type \in DecimalTypes \cup {"DATETIME", "TIMESTAMP", "TIME", "FLOAT", "DOUBLE"} -> f.decimals
    [] f.type \in {"TINY", "SHORT", "LONG", "LONGLONG", "INT24"} -> 0
    [] OTHER -> SQL_NO_TOTAL

\* S2_GetDecimalDigits (199-222).
S2_GetDecimalDigits(f) ==
  CASE f.type \in DecimalTypes \cup {"DATETIME", "TIMESTAMP", "TIME"} -> f.decimals
    [] f.type \in {"TINY", "SHORT", "LONG", "LONGLONG", "INT24"} -> 0
    [] OTHER -> SQL_NO_TOTAL

-----------------------------------------------------------------------------
Init ==
  /\ column = NoColumn
  /\ catalogue = NoQuery

\* The three helpers on one field, with the row GetTypeInfo finds for it.
Describe(f, info) ==
  [field         |-> f,
   columnSize    |-> S2_GetColumnSize(f, info, f.fullTypeName),
   octetLength   |-> S2_GetCharacterOctetLength(f, info),
   decimalDigits |-> S2_GetDecimalDigits(f)]

DescribeColumn(f) ==
  /\ column' = Describe(f, GetTypeInfo(f.sqlType, f.typeName))
  /\ UNCHANGED catalogue

\* MADB_GetTypeInfo once rows are selected: the text written, then
\* ExecDirect, whose outcome the server decides.  A DataType of ODBC 2 is
\* taken as MapToV2Type (outside the sources) has left it.
TypeInfoAnswer(req, rows, ret) ==
  [request |-> req, written |-> Written(rows), ret |-> ret,
   result  |-> IF ret = "SQL_SUCCESS" THEN rows ELSE << >>]

GetTypeInfoCall(req, ret) ==
  /\ catalogue' =
       TypeInfoAnswer(req, SelectRows(IF req.version = "ODBC2" THEN TypeInfoV2 ELSE TypeInfoV3,
                                      req.DataType), ret)
  /\ UNCHANGED column

Next ==
  \/ \E f \in Fields : DescribeColumn(f)
  \/ \E req \in Requests, ret \in {"SQL_SUCCESS", "SQL_ERROR"} : GetTypeInfoCall(req, ret)

Spec == Init /\ [][Next]_vars

-----------------------------------------------------------------------------
TableRows == {TypeInfoV3[i] : i \in 1..Len(TypeInfoV3)} \cup {TypeInfoV2[i] : i \in 1..Len(TypeInfoV2)}

\* SQL_NO_TOTAL or a non-negative SQLINTEGER.
SizeValue(x) == x = SQL_NO_TOTAL \/ (x \in Int /\ 0 <= x /\ x <= INT32_MAX)

\* Types: column sizes and octet lengths are SQL_NO_TOTAL or fit a
\* non-negative SQLINTEGER, whatever the field's length.
TypeOK ==
  /\ column = NoColumn \/
       /\ column.field \in Fields
       /\ SizeValue(column.columnSize)
       /\ SizeValue(column.octetLength)
       /\ column.decimalDigits \in {SQL_NO_TOTAL} \cup 0..30
  /\ catalogue = NoQuery \/
       /\ catalogue.request \in Requests
       /\ catalogue.written \in Nat
       /\ catalogue.ret \in {"SQL_SUCCESS", "SQL_ERROR"}
       /\ \A i \in 1..Len(catalogue.result) : catalogue.result[i] \in TableRows

(***************************************************************************)
(* MADB_GetTypeInfo advances p by what each _snprintf returns and bounds   *)
(* the next write by 10000 - strlen(StmtStr): the statement, with its      *)
(* terminator, must fit StmtStr for every request, SQL_ALL_TYPES included, *)
(* or p passes the end of the array.                                      *)
(***************************************************************************)
StatementFitsBuffer ==
  catalogue # NoQuery => catalogue.written + 1 <= StmtStrSize

(***************************************************************************)
(* SQLGetTypeInfo's result set is ordered by DATA_TYPE: the UNION ALL     *)
(* keeps the table's order, so each table must list its rows by the codes  *)
(* of its own ODBC version (ODBC 2's date and time codes 9-11 come before  *)
(* SQL_VARCHAR, ODBC 3's 91-93 after it).                                 *)
(***************************************************************************)
ResultOrderedByDataType ==
  catalogue # NoQuery =>
    LET rs == catalogue.result
    IN  \A i, j \in 1..Len(rs) : i < j => rs[i].DataType <= rs[j].DataType

(***************************************************************************)
(* The column size of a DECIMAL(M,D) column is its precision M, signed or *)
(* unsigned, with or without a fraction, and a CHAR, VARCHAR, ENUM or SET *)
(* column of a charset the client knows has the size in characters it was *)
(* declared with: S2_GetColumnSize recovers them from the server's byte   *)
(* length, the UNSIGNED_FLAG, decimals and the charset's char_maxlen.     *)
(***************************************************************************)
DescribedAsDeclared ==
  column # NoColumn =>
    LET f == column.field IN
    (f.type \in DecimalTypes \/ (f.type \in DeclaredStringTypes /\ KnownCharset(f))) =>
      column.columnSize = f.declSize
=============================================================================
