----------------------- MODULE ColumnMetadata_proofs -----------------------
(***************************************************************************)
(* Proofs about ColumnMetadata for every set of fields the server may      *)
(* send and every charset table: S2_GetColumnSize reports the declared     *)
(* precision of a DECIMAL and the declared characters of a character      *)
(* column, and its long-blob formula, which doubles a 2 GB size, stays a   *)
(* SQLINTEGER.                                                             *)
(***************************************************************************)
EXTENDS ColumnMetadata, TLAPS


-----------------------------------------------------------------------------
(* The cap at INT32_MAX leaves a declared column's length as it is.       *)
LEMMA DeclaredLengthUncapped ==
  ASSUME NEW f \in Fields,
         f.type \in DecimalTypes \/ (f.type \in DeclaredStringTypes /\ KnownCharset(f))
  PROVE  ColumnLength(f) = f.length
<1>1. f.length \in Nat /\ f.length <= 65535
  BY FieldsAssumption DEF DecimalTypes, DeclaredStringTypes
<1>. QED BY <1>1 DEF ColumnLength, INT32_MAX

(* DECIMAL(M,D): the length less the sign and the point is M.             *)
LEMMA DecimalSizeIsPrecision ==
  ASSUME NEW f \in Fields, f.type \in DecimalTypes, NEW info, NEW name
  PROVE  S2_GetColumnSize(f, info, name) = f.declSize
<1>1. ColumnLength(f) = f.length
  BY DeclaredLengthUncapped
<1>2. S2_GetColumnSize(f, info, name) = DecimalColumnSize(f, ColumnLength(f))
  BY DEF S2_GetColumnSize, DecimalTypes, StringTypes
<1>3. /\ f.unsigned \in BOOLEAN /\ f.decimals \in 0..31 /\ f.declSize \in 1..65
      /\ f.length = f.declSize + (IF f.decimals > 0 THEN 1 ELSE 0)
                               + (IF f.unsigned THEN 0 ELSE 1)
  BY FieldsAssumption
<1>4. DecimalColumnSize(f, f.length) = f.declSize
  BY <1>3 DEF DecimalColumnSize
<1>. QED BY <1>1, <1>2, <1>4

(* A declared character column: its bytes divided by char_maxlen.         *)
LEMMA StringSizeIsCharacters ==
  ASSUME NEW f \in Fields, f.type \in DeclaredStringTypes, KnownCharset(f),
         NEW info, NEW name
  PROVE  S2_GetColumnSize(f, info, name) = f.declSize
<1>. DEFINE cs == CharSize(f)
<1>1. cs \in 1..4 /\ f.length = f.declSize * cs /\ f.declSize \in Nat
  BY FieldsAssumption DEF CharSize, KnownCharset
<1>2. ColumnLength(f) = f.length
  BY DeclaredLengthUncapped
<1>3. S2_GetColumnSize(f, info, name) = ColumnLength(f) \div cs
  BY DEF S2_GetColumnSize, DeclaredStringTypes, StringTypes, DecimalTypes
<1>4. (f.declSize * cs) \div cs = f.declSize
  BY <1>1
<1>. QED BY <1>1, <1>2, <1>3, <1>4

-----------------------------------------------------------------------------
(* LONG_BLOB: for a catalogue size that is a SQLINTEGER and any char_size  *)
(* a charset may have, ColumnSize / char_size * 2 + 1 is a non-negative    *)
(* SQLINTEGER: the doubling cannot overflow.                               *)
THEOREM LongBlobFitsSQLINTEGER ==
  ASSUME NEW size \in Int, 0 <= size, size <= INT32_MAX, NEW cs \in 1..4
  PROVE  /\ 0 <= LongBlobColumnSize(size, cs)
         /\ LongBlobColumnSize(size, cs) <= INT32_MAX
<1>1. CASE cs = 1
  BY <1>1 DEF LongBlobColumnSize
<1>2. CASE cs \in 2..4
  <2>1. LongBlobColumnSize(size, cs) = (size \div cs) * 2 + 1
    BY <1>2 DEF LongBlobColumnSize
  <2>2. 0 <= size \div cs /\ (size \div cs) * 2 + 1 <= INT32_MAX
    BY <1>2 DEF INT32_MAX
  <2>. QED BY <2>1, <2>2
<1>. QED BY <1>1, <1>2

-----------------------------------------------------------------------------
(* The invariant: the column last described is a field of Fields with the *)
(* size S2_GetColumnSize computed for it.                                  *)
ColumnInv ==
  column = NoColumn \/
    /\ column.field \in Fields
    /\ column.columnSize =
         S2_GetColumnSize(column.field,
                          GetTypeInfo(column.field.sqlType, column.field.typeName),
                          column.field.fullTypeName)

LEMMA ColumnInvInductive == Spec => []ColumnInv
<1>1. Init => ColumnInv
  BY DEF Init, ColumnInv
<1>2. ColumnInv /\ [Next]_vars => ColumnInv'
  <2> SUFFICES ASSUME ColumnInv, [Next]_vars PROVE ColumnInv'
    OBVIOUS
  <2>1. ASSUME NEW f \in Fields, DescribeColumn(f) PROVE ColumnInv'
    BY <2>1 DEF DescribeColumn, Describe, ColumnInv
  <2>2. ASSUME NEW req \in Requests, NEW ret, GetTypeInfoCall(req, ret) PROVE ColumnInv'
    BY <2>2 DEF GetTypeInfoCall, ColumnInv
  <2>3. CASE UNCHANGED vars
    BY <2>3 DEF vars, ColumnInv
  <2>. QED BY <2>1, <2>2, <2>3 DEF Next
<1>. QED BY <1>1, <1>2, PTL DEF Spec

(* S2_GetColumnSize reports a DECIMAL(M,D) column as M and a CHAR,        *)
(* VARCHAR, ENUM or SET column of a known charset as its declared          *)
(* characters, in every state, for every field the server may send.       *)
THEOREM DescribedAsDeclaredInvariant == Spec => []DescribedAsDeclared
<1>1. ColumnInv => DescribedAsDeclared
  <2> SUFFICES ASSUME ColumnInv, column # NoColumn,
                      column.field.type \in DecimalTypes
                      \/ (column.field.type \in DeclaredStringTypes /\ KnownCharset(column.field))
               PROVE  column.columnSize = column.field.declSize
    BY DEF DescribedAsDeclared
  <2>1. column.field \in Fields
    BY DEF ColumnInv
  <2>. QED BY <2>1, DecimalSizeIsPrecision, StringSizeIsCharacters DEF ColumnInv
<1>. QED BY <1>1, ColumnInvInductive, PTL
=============================================================================
