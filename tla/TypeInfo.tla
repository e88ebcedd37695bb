------------------------------ MODULE TypeInfo ------------------------------
(***************************************************************************)
(* The type information catalogue (src/ma_info.h, src/ma_info.c): the     *)
(* static tables TypeInfoV3 and TypeInfoV2 that SQLGetTypeInfo reports,   *)
(* GetTypeInfo, which finds the row of a column, and the text of the      *)
(* SELECT ... UNION ALL statement MADB_GetTypeInfo builds from the rows.  *)
(*                                                                         *)
(* A row keeps all 19 fields of MADB_TypeInfo.  Both tables hold 56 rows; *)
(* the first 49 are the same in both, and the two differ in the codes and *)
(* sizes of the date and time rows and in where those rows stand.  Only   *)
(* the length of the statement's text is modelled, as the sum of the      *)
(* lengths of what each _snprintf writes.                                 *)
(***************************************************************************)
EXTENDS Integers, Sequences

\* ODBC codes (sql.h, sqlext.h).
SQL_ALL_TYPES == 0
SQL_WLONGVARCHAR == -10
SQL_WVARCHAR == -9
SQL_WCHAR == -8
SQL_TINYINT == -6
SQL_BIGINT == -5
SQL_LONGVARBINARY == -4
SQL_VARBINARY == -3
SQL_BINARY == -2
SQL_LONGVARCHAR == -1
SQL_CHAR == 1
SQL_NUMERIC == 2
SQL_DECIMAL == 3
SQL_INTEGER == 4
SQL_SMALLINT == 5
SQL_REAL == 7
SQL_DOUBLE == 8
SQL_DATETIME == 9
SQL_VARCHAR == 12
SQL_TYPE_DATE == 91
SQL_TYPE_TIME == 92
SQL_TYPE_TIMESTAMP == 93
SQL_DATE == 9
SQL_TIME == 10
SQL_TIMESTAMP == 11
SQL_SEARCHABLE == 3
SQL_CODE_DATE == 1
SQL_CODE_TIME == 2
SQL_CODE_TIMESTAMP == 3

\* One MADB_TypeInfo initializer.  Every row of both tables has Nullable 1,
\* Searchable SQL_SEARCHABLE, FixedPrecScale 0, IntervalPrecision 0, the
\* same literal prefix and suffix, and its TypeName as LocalTypeName.
Row(name, type, size, quote, params, case, unsigned, auto, minS, maxS, sub, radix, sqlType) ==
  [TypeName |-> name, DataType |-> type, ColumnSize |-> size,
   LiteralPrefix |-> quote, LiteralSuffix |-> quote, CreateParams |-> params,
   Nullable |-> 1, CaseSensitive |-> case, Searchable |-> SQL_SEARCHABLE,
   Unsigned |-> unsigned, FixedPrecScale |-> 0, AutoUniqueValue |-> auto,
   LocalTypeName |-> name, MinimumScale |-> minS, MaximumScale |-> maxS,
   SqlDateTimeSub |-> sub, IntervalPrecision |-> 0, NumPrecRadix |-> radix,
   SqlDataType |-> sqlType]

\* The kinds of rows the tables are made of.
Txt(name, type, size, params) == Row(name, type, size, "'", params, 0, 0, 0, 0, 0, 0, 0, type)
Bin(name, type, size, params) == Row(name, type, size, "'", params, 1, 0, 0, 0, 0, 0, 0, type)
Exact(name, type, size, unsigned) == Row(name, type, size, "", "NULL", 0, unsigned, 1, 0, 0, 0, 10, type)
Approx(name, type, size, scale) == Row(name, type, size, "", "NULL", 0, 0, 1, -scale, scale, 0, 10, type)
Dec(name, type) == Row(name, type, 65, "", "'precision,scale'", 0, 0, 1, -308, 308, 0, 10, type)
Bool(name) == Row(name, SQL_TINYINT, 1, "", "NULL", 1, 0, 0, 0, 0, 0, 10, SQL_TINYINT)

\* Rows 1-49 of both tables.
CommonRows ==
  << Txt("json", SQL_WLONGVARCHAR, 16777216, "NULL"), Txt("long varchar", SQL_WLONGVARCHAR, 16777215, "NULL"),
     Txt("longtext", SQL_WLONGVARCHAR, 2147483647, "NULL"), Txt("mediumtext", SQL_WLONGVARCHAR, 16777215, "NULL"),
     Txt("text", SQL_WLONGVARCHAR, 65535, "NULL"), Txt("tinytext", SQL_WLONGVARCHAR, 255, "NULL"),
     Txt("enum", SQL_WVARCHAR, 65535, "NULL"), Txt("set", SQL_WVARCHAR, 64, "NULL"),
     Txt("varchar", SQL_WVARCHAR, 255, "'length'"), Txt("char", SQL_WCHAR, 255, "'length'"),
     Bool("bool"), Bool("boolean"),
     Exact("tinyint", SQL_TINYINT, 3, 0), Exact("tinyint unsigned", SQL_TINYINT, 3, 1),
     Exact("bigint", SQL_BIGINT, 19, 0), Exact("bigint unsigned", SQL_BIGINT, 20, 1),
     Bin("blob", SQL_LONGVARBINARY, 65535, "NULL"), Bin("long varbinary", SQL_LONGVARBINARY, 16777215, "NULL"),
     Bin("longblob", SQL_LONGVARBINARY, 2147483647, "NULL"), Bin("mediumblob", SQL_LONGVARBINARY, 16777215, "NULL"),
     Bin("tinyblob", SQL_LONGVARBINARY, 255, "NULL"),
     Txt("geography", SQL_VARBINARY, 255, "NULL"), Txt("geographypoint", SQL_VARBINARY, 20, "NULL"),
     Bin("varbinary", SQL_VARBINARY, 255, "'length'"), Bin("binary", SQL_BINARY, 255, "'length'"),
     Row("bit", SQL_BINARY, 8, "", "NULL", 1, 0, 0, 0, 0, 0, 0, SQL_BINARY),
     Txt("json", SQL_LONGVARCHAR, 16777216, "NULL"), Txt("longtext", SQL_LONGVARCHAR, 2147483647, "NULL"),
     Txt("mediumtext", SQL_LONGVARCHAR, 16777215, "NULL"), Txt("text", SQL_LONGVARCHAR, 65535, "NULL"),
     Txt("tinytext", SQL_LONGVARCHAR, 255, "NULL"), Txt("char", SQL_CHAR, 255, "'length'"),
     Dec("numeric", SQL_NUMERIC), Dec("dec", SQL_DECIMAL), Dec("decimal", SQL_DECIMAL), Dec("fixed", SQL_DECIMAL),
     Exact("int", SQL_INTEGER, 10, 0), Exact("int unsigned", SQL_INTEGER, 10, 1),
     Exact("integer", SQL_INTEGER, 10, 0), Exact("integer unsigned", SQL_INTEGER, 10, 1),
     Exact("mediumint", SQL_INTEGER, 7, 0), Exact("mediumint unsigned", SQL_INTEGER, 8, 1),
     Exact("smallint", SQL_SMALLINT, 5, 0), Exact("smallint unsigned", SQL_SMALLINT, 5, 1),
     Exact("year", SQL_SMALLINT, 4, 0),
     Approx("float", SQL_REAL, 7, 38), Approx("double", SQL_DOUBLE, 15, 308),
     Approx("double precision", SQL_DOUBLE, 15, 308), Approx("real", SQL_DOUBLE, 15, 308) >>

\* The three SQL_VARCHAR rows: 50-52 of TypeInfoV3, 54-56 of TypeInfoV2.
VarcharRows ==
  << Txt("enum", SQL_VARCHAR, 65535, "NULL"), Txt("set", SQL_VARCHAR, 64, "NULL"),
     Txt("varchar", SQL_VARCHAR, 255, "'length'") >>

\* The date and time rows of ODBC 3 and of ODBC 2.
Temporal3 ==
  << Row("date", SQL_TYPE_DATE, 10, "'", "NULL", 0, 0, 0, 0, 0, SQL_CODE_DATE, 0, SQL_DATETIME),
     Row("time", SQL_TYPE_TIME, 8, "'", "'scale'", 0, 0, 0, 0, 0, SQL_CODE_TIME, 0, SQL_DATETIME),
     Row("datetime", SQL_TYPE_TIMESTAMP, 26, "'", "'scale'", 0, 0, 0, 0, 0, SQL_CODE_TIMESTAMP, 0, SQL_DATETIME),
     Row("timestamp", SQL_TYPE_TIMESTAMP, 26, "'", "'scale'", 0, 0, 0, 0, 0, SQL_CODE_TIMESTAMP, 0, SQL_DATETIME) >>
Temporal2 ==
  << Row("date", SQL_DATE, 10, "'", "NULL", 0, 0, 0, 0, 0, 0, 0, SQL_DATETIME),
     Row("time", SQL_TIME, 18, "'", "NULL", 0, 0, 0, 0, 0, 0, 0, SQL_DATETIME),
     Row("datetime", SQL_TIMESTAMP, 26, "'", "'scale'", 0, 0, 0, 0, 0, 0, 0, SQL_DATETIME),
     Row("timestamp", SQL_TIMESTAMP, 26, "'", "'scale'", 0, 0, 0, 0, 0, 0, 0, SQL_DATETIME) >>

TypeInfoV3 == CommonRows \o VarcharRows \o Temporal3

\* Mutant: the ODBC 2 table laid out like the ODBC 3 one.
TypeInfoV2_V3Order == CommonRows \o VarcharRows \o Temporal2

TypeInfoV2 == CommonRows \o Temporal2 \o VarcharRows

\* GetTypeInfo: the first row of TypeInfoV3 with the SQL type and the type
\* name MADB_GetTypeName gives for the field, or NoRow for NULL.
NoRow == [TypeName |-> "", DataType |-> 0, ColumnSize |-> 0]
GetTypeInfo(SqlType, name) ==
  LET hits == {i \in 1..Len(TypeInfoV3) :
                 TypeInfoV3[i].DataType = SqlType /\ TypeInfoV3[i].TypeName = name}
  IN  IF hits = {} THEN NoRow
      ELSE TypeInfoV3[CHOOSE i \in hits : \A j \in hits : i <= j]

-----------------------------------------------------------------------------
(***************************************************************************)
(* MADB_GetTypeInfo (ma_info.c 55-126).  The rows it selects, and the     *)
(* characters each _snprintf appends to StmtStr[10000]: the format's     *)
(* text without its 19 conversions (18 of %s or %d, one %lu), plus the    *)
(* text of each argument.  p advances by what _snprintf returns.          *)
(***************************************************************************)
StmtStrSize == 10000

\* The rows of the table with the requested DATA_TYPE, or all of them.
SelectRows(table, DataType) ==
  SelectSeq(table, LAMBDA r : DataType = SQL_ALL_TYPES \/ r.DataType = DataType)

\* Characters of %d and %lu for the values of the tables (|n| < 2^31).
IntTextLen(n) ==
  LET m == IF n < 0 THEN -n ELSE n
  IN  (IF n < 0 THEN 1 ELSE 0)
      + CHOOSE k \in 1..10 : (k = 1 \/ 10 ^ (k - 1) <= m) /\ (k = 10 \/ m < 10 ^ k)

FirstRowFormat ==
  "SELECT \"%s\" AS TYPE_NAME, %d AS DATA_TYPE, %lu AS COLUMN_SIZE, \"%s\" AS LITERAL_PREFIX, \"%s\" AS LITERAL_SUFFIX, %s AS CREATE_PARAMS, %d AS NULLABLE, %d AS CASE_SENSITIVE, %d AS SEARCHABLE, %d AS UNSIGNED_ATTRIBUTE, %d AS FIXED_PREC_SCALE, %d AS AUTO_UNIQUE_VALUE, \"%s\" AS LOCAL_TYPE_NAME, %d AS MINIMUM_SCALE, %d AS MAXIMUM_SCALE, %d AS SQL_DATA_TYPE, %d AS SQL_DATETIME_SUB, %d AS NUM_PREC_RADIX, %d AS INTERVAL_PRECISION "
NextRowFormat ==
  "UNION ALL SELECT \"%s\", %d, %lu , \"%s\", \"%s\", %s, %d, %d, %d, %d, %d, %d, \"%s\", %d, %d, %d, %d, %d, %d "
EmptyQuery ==
  "SELECT \"\" AS TYPE_NAME, 0 AS DATA_TYPE, 0 AS COLUMN_SIZE, \"\" AS LITERAL_PREFIX, \"\" AS LITERAL_SUFFIX, NULL AS CREATE_PARAMS, 0 AS NULLABLE, 0 AS CASE_SENSITIVE, 0 AS SEARCHABLE, 0 AS UNSIGNED_ATTRIBUTE, 0 AS FIXED_PREC_SCALE, 0 AS AUTO_UNIQUE_VALUE, \"\" AS LOCAL_TYPE_NAME, 0 AS MINIMUM_SCALE, 0 AS MAXIMUM_SCALE, 0 AS SQL_DATA_TYPE, 0 AS SQL_DATETIME_SUB, 0 AS NUM_PREC_RADIX, 0 AS INTERVAL_PRECISION LIMIT 0"
ConversionChars == 18 * 2 + 3

\* The text of the 19 arguments of one row, in the order of the format.
ArgsTextLen(r) ==
  Len(r.TypeName) + Len(r.LiteralPrefix) + Len(r.LiteralSuffix)
  + Len(r.CreateParams) + Len(r.LocalTypeName)
  + IntTextLen(r.DataType) + IntTextLen(r.ColumnSize) + IntTextLen(r.Nullable)
  + IntTextLen(r.CaseSensitive) + IntTextLen(r.Searchable) + IntTextLen(r.Unsigned)
  + IntTextLen(r.FixedPrecScale) + IntTextLen(r.AutoUniqueValue)
  + IntTextLen(r.MinimumScale) + IntTextLen(r.MaximumScale) + IntTextLen(r.SqlDataType)
  + IntTextLen(r.SqlDateTimeSub) + IntTextLen(r.NumPrecRadix) + IntTextLen(r.IntervalPrecision)

\* Mutant: isFirst is never cleared.
IsFirstRow_NeverCleared(i) == TRUE

\* isFirst holds for the first selected row only.
IsFirstRow(i) == i = 1

RowTextLen(r, first) ==
  Len(IF first THEN FirstRowFormat ELSE NextRowFormat) - ConversionChars + ArgsTextLen(r)

\* p - StmtStr after the loop and the empty-result branch.
Written(rows) ==
  LET w[i \in 0..Len(rows)] ==
        IF i = 0 THEN 0 ELSE w[i - 1] + RowTextLen(rows[i], IsFirstRow(i))
  IN  IF rows = << >> THEN Len(EmptyQuery) ELSE w[Len(rows)]
=============================================================================
