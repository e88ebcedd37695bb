-------------------------- MODULE CharToSql_proofs --------------------------
(***************************************************************************)
(* Proofs about CharToSql for every text and every set of SQL types: the  *)
(* SQL_BIT case of MADB_Char2Sql never writes its byte through a *Buffer  *)
(* that MADB_GetBufferForSqlValue failed to allocate.                      *)
(***************************************************************************)
EXTENDS CharToSql, TLAPS

(***************************************************************************)
(* The inductive invariant: the statement's internal buffer is either     *)
(* absent or allocated, and a *Buffer that points to it points to an      *)
(* allocated one.  The second conjunct alone is not inductive: a call that *)
(* reuses the internal buffer needs to know it is "buf" when not "null".  *)
(***************************************************************************)
BufferInv ==
  /\ internal \in {"null", "buf"}
  /\ buffer = "internal" => internal = "buf"

(* MADB_GetBufferForSqlValue reports success only with an allocated       *)
(* buffer: either the calloc it made succeeded or it reused one there was. *)
LEMMA GetBufferOkIsAllocated ==
  ASSUME internal \in {"null", "buf"}, NEW allocOk \in BOOLEAN,
         GetBufferForSqlValue(allocOk).ok
  PROVE  GetBufferForSqlValue(allocOk).internal = "buf"
BY DEF GetBufferForSqlValue

LEMMA BufferInvInductive == Spec => []BufferInv
<1>1. Init => BufferInv
  BY DEF Init, BufferInv
<1>2. BufferInv /\ [Next]_vars => BufferInv'
  <2> SUFFICES ASSUME BufferInv, [Next]_vars PROVE BufferInv'
    OBVIOUS
  <2>1. CASE Char2SqlBit
    <3>1. PICK allocOk \in BOOLEAN :
            LET g == GetBufferForSqlValue(allocOk) IN
            IF buffer = "null" /\ ~g.ok
            THEN /\ internal' = g.internal
                 /\ UNCHANGED buffer
            ELSE /\ internal' = IF buffer = "null" THEN g.internal ELSE internal
                 /\ buffer' = IF buffer = "null" THEN "internal" ELSE buffer
      BY <2>1 DEF Char2SqlBit
    <3>. DEFINE g == GetBufferForSqlValue(allocOk)
    <3>2. g.internal \in {"null", "buf"}
      BY DEF GetBufferForSqlValue, BufferInv
    <3>3. CASE buffer = "null" /\ ~g.ok
      BY <3>1, <3>2, <3>3 DEF BufferInv
    <3>4. CASE buffer = "null" /\ g.ok
      BY <3>1, <3>4, GetBufferOkIsAllocated DEF BufferInv
    <3>5. CASE buffer # "null"
      BY <3>1, <3>5 DEF BufferInv
    <3>. QED BY <3>3, <3>4, <3>5
  <2>2. CASE Char2SqlDatetime
    BY <2>2 DEF Char2SqlDatetime, BufferInv
  <2>3. CASE Char2SqlDefault
    BY <2>3 DEF Char2SqlDefault, BufferInv
  <2>4. CASE UNCHANGED vars
    BY <2>4 DEF vars, BufferInv
  <2>. QED BY <2>1, <2>2, <2>3, <2>4 DEF Next
<1>. QED BY <1>1, <1>2, PTL DEF Spec

(* The byte of an SQL_BIT parameter goes to an allocated buffer: when     *)
(* *Buffer was NULL and the statement's internal buffer was taken, the    *)
(* calloc of MADB_GetBufferForSqlValue succeeded or it reused a buffer.    *)
THEOREM BitWrittenToAllocatedBufferInvariant == Spec => []BitWrittenToAllocatedBuffer
<1>1. BufferInv => BitWrittenToAllocatedBuffer
  BY DEF BufferInv, BitWrittenToAllocatedBuffer
<1>. QED BY <1>1, BufferInvInductive, PTL
=============================================================================
