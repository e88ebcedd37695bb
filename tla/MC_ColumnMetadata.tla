------------------------- MODULE MC_ColumnMetadata -------------------------
(***************************************************************************)
(* Instance of ColumnMetadata for TLC.  The fields are those a server     *)
(* sends for: DECIMAL(M,D) signed and unsigned with and without a         *)
(* fraction; character columns in latin1 (8), ucs2 (35), utf8 (33),       *)
(* utf8mb4 (45), the binary charset and a charset the client does not     *)
(* know (99), whose length is characters times bytes per character; BIT   *)
(* of 1, 10 and 64 bits; the integer, approximate and temporal types;     *)
(* blobs and long blobs in each charset; and JSON, which no case handles.  *)
(* TLC's integers stop at 2^31 - 1, so a long blob's length of 2^32 - 1   *)
(* (which S2_GetColumnSize does not read) is 2^31 - 1 here, and the       *)
(* INT32_MAX cap is left to the proofs.                                   *)
(***************************************************************************)
EXTENDS ColumnMetadata, TLC

MCCharMaxLen == (8 :> 1) @@ (35 :> 2) @@ (33 :> 3) @@ (45 :> 4) @@ (99 :> 0)

Field(type, length, dec, nr, sqlType, name, full) ==
  [type |-> type, length |-> length, unsigned |-> FALSE, decimals |-> dec,
   charsetnr |-> nr, sqlType |-> sqlType, typeName |-> name,
   fullTypeName |-> full, declSize |-> 0]

\* DECIMAL(M,D) with the length the server computes for it.
DecField(type, M, D, uns) ==
  [type |-> type, length |-> M + (IF D > 0 THEN 1 ELSE 0) + (IF uns THEN 0 ELSE 1),
   unsigned |-> uns, decimals |-> D, charsetnr |-> BINARY_CHARSETNR,
   sqlType |-> SQL_DECIMAL, typeName |-> "decimal", fullTypeName |-> "decimal",
   declSize |-> M]

\* A character column of n characters of b bytes each.
StrField(type, n, b, nr) ==
  [type |-> type, length |-> n * b, unsigned |-> FALSE, decimals |-> 0,
   charsetnr |-> nr, sqlType |-> SQL_WVARCHAR, typeName |-> "varchar",
   fullTypeName |-> "varchar", declSize |-> n]

MCFields ==
  { DecField(t, m, d, u) : t \in DecimalTypes, m \in {1, 5}, d \in {0, 1}, u \in BOOLEAN }
  \cup { DecField("NEWDECIMAL", 65, 30, FALSE) }
  \cup { StrField("VARCHAR", 10, 4, 45), StrField("VAR_STRING", 20, 1, 8),
         StrField("STRING", 3, 1, BINARY_CHARSETNR), StrField("ENUM", 5, 3, 33),
         StrField("SET", 64, 2, 35), StrField("GEOMETRY", 65535, 1, BINARY_CHARSETNR),
         StrField("VAR_STRING", 10, 3, 99) }
  \cup { Field("BIT", n, 0, BINARY_CHARSETNR, SQL_BINARY, "bit", "bit") : n \in {1, 10, 64} }
  \cup { Field("TINY", 4, 0, 63, SQL_TINYINT, "tinyint", "tinyint"),
         Field("SHORT", 6, 0, 63, SQL_SMALLINT, "smallint", "smallint"),
         Field("INT24", 9, 0, 63, SQL_INTEGER, "mediumint", "mediumint"),
         Field("LONG", 11, 0, 63, SQL_INTEGER, "int", "int"),
         Field("LONGLONG", 20, 0, 63, SQL_BIGINT, "bigint", "bigint"),
         Field("YEAR", 4, 0, 63, SQL_SMALLINT, "year", "year"),
         Field("FLOAT", 12, 31, 63, SQL_REAL, "float", "float"),
         Field("DOUBLE", 22, 31, 63, SQL_DOUBLE, "double", "double"),
         Field("DATE", 10, 0, 63, SQL_TYPE_DATE, "date", "date"),
         Field("NEWDATE", 10, 0, 63, SQL_TYPE_DATE, "date", "date"),
         Field("TIME", 10, 0, 63, SQL_TYPE_TIME, "time", "time"),
         Field("TIME", 17, 6, 63, SQL_TYPE_TIME, "time", "time(6)"),
         Field("DATETIME", 19, 0, 63, SQL_TYPE_TIMESTAMP, "datetime", "datetime"),
         Field("DATETIME", 26, 6, 63, SQL_TYPE_TIMESTAMP, "datetime", "datetime(6)"),
         Field("TIMESTAMP", 26, 6, 63, SQL_TYPE_TIMESTAMP, "timestamp", "timestamp(6)"),
         Field("JSON", 2147483647, 0, 45, SQL_WLONGVARCHAR, "json", "json") }
  \cup { Field("BLOB", 65535, 0, 45, SQL_WLONGVARCHAR, "text", "text"),
         Field("TINY_BLOB", 255, 0, BINARY_CHARSETNR, SQL_LONGVARBINARY, "tinyblob", "tinyblob"),
         Field("MEDIUM_BLOB", 16777215, 0, 33, SQL_WLONGVARCHAR, "mediumtext", "mediumtext"),
         Field("LONG_BLOB", 2147483647, 0, BINARY_CHARSETNR, SQL_LONGVARBINARY, "longblob", "longblob") }
  \cup { Field("LONG_BLOB", 2147483647, 0, nr, SQL_WLONGVARCHAR, "longtext", "longtext") :
           nr \in {8, 35, 33, 45, 99} }

MCRequests ==
  [version : {"ODBC3"}, DataType : {SQL_ALL_TYPES, SQL_WLONGVARCHAR, SQL_DECIMAL,
                                    SQL_VARCHAR, SQL_TYPE_TIMESTAMP, -7}]
  \cup [version : {"ODBC2"}, DataType : {SQL_ALL_TYPES, SQL_DATE, SQL_TIMESTAMP, SQL_VARCHAR}]
=============================================================================
