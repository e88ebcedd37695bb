----------------------- MODULE QueryTokenizer_proofs -----------------------
(***************************************************************************)
(* Proofs about QueryTokenizer for every query text: ParseQuery keeps its  *)
(* types, and the token, placeholder and sub-query lists it builds keep    *)
(* the order and the anchoring that the data model of spec.md (section 3)  *)
(* requires, whatever the text and whatever QueryIsPossiblyMultistmt says. *)
(***************************************************************************)
EXTENDS QueryTokenizer, SequenceTheorems, TLAPS

USE InputsAssumption, NoResultKindsAssumption

-----------------------------------------------------------------------------
(* Lemmas about the searches over the text.                                *)

(* FirstOf returns a member of the set, or the default.                    *)
LEMMA FirstOfRange ==
  ASSUME NEW C, NEW d
  PROVE  FirstOf(C, d) \in C \cup {d}
BY DEF FirstOf

(* A search that starts inside the text (or at its end) stops inside it.   *)
LEMMA FindCharRange ==
  ASSUME NEW t \in Seq(Symbols \cup {NUL}), NEW from \in 0..Len(t), NEW cs
  PROVE  FindChar(t, from, cs) \in from..Len(t)
BY FirstOfRange DEF FindChar

LEMMA LtrimRange ==
  ASSUME NEW t \in Seq(Symbols \cup {NUL}), NEW i \in 0..Len(t)
  PROVE  Ltrim(t, i) \in i..Len(t)
BY FirstOfRange DEF Ltrim

LEMMA SkipQuotedStringRange ==
  ASSUME NEW t \in Seq(Symbols \cup {NUL}), NEW from \in 0..Len(t), NEW q
  PROVE  /\ SkipQuotedString(t, from, q) \in from..Len(t)
         /\ SkipQuotedString_Noescapes(t, from, q) \in from..Len(t)
<1>1. SkipQuotedString(t, from, q) \in from..Len(t)
  BY FirstOfRange DEF SkipQuotedString
<1>2. SkipQuotedString_Noescapes(t, from, q) \in from..Len(t)
  BY FindCharRange DEF SkipQuotedString_Noescapes
<1>. QED BY <1>1, <1>2

(* A comment that starts at i ends after i and at the latest at the end.   *)
LEMMA StripLeadingCommentsRange ==
  ASSUME NEW t \in Seq(Symbols \cup {NUL}), NEW i \in 0..Len(t)
  PROVE  StripLeadingComments(t, i) \in i..Len(t)
<1>1. ASSUME NEW from \in 0..Len(t) PROVE LineCommentEnd(t, from) \in from..Len(t)
  BY FindCharRange DEF LineCommentEnd
<1>2. ASSUME NEW from \in 0..Len(t) PROVE BlockCommentEnd(t, from) \in from..Len(t)
  <2>. DEFINE S == {j \in from..(Len(t) - 1) : t[j + 1] = "*" /\ Char(t, j + 1) = "/"}
  <2>1. FirstOf(S, Len(t)) \in S \cup {Len(t)}
    BY FirstOfRange
  <2>2. CASE FirstOf(S, Len(t)) < Len(t)
    <3>1. FirstOf(S, Len(t)) \in S
      BY <2>1, <2>2
    <3>2. FirstOf(S, Len(t)) + 1 \in 0..(Len(t) - 1)
      BY <3>1 DEF Char, NUL
    <3>. QED BY <2>2, <3>1, <3>2 DEF BlockCommentEnd
  <2>3. CASE ~(FirstOf(S, Len(t)) < Len(t))
    BY <2>3 DEF BlockCommentEnd
  <2>. QED BY <2>2, <2>3
<1>2a. Char(t, i) # NUL => i < Len(t)
  BY DEF Char, NUL
<1>2b. Char(t, i + 1) # NUL => i + 1 < Len(t)
  BY DEF Char, NUL
<1>3. CASE Char(t, i) = "-" /\ Char(t, i + 1) = "-"
  BY <1>3, <1>1, <1>2b DEF StripLeadingComments, NUL
<1>4. CASE ~(Char(t, i) = "-" /\ Char(t, i + 1) = "-") /\ Char(t, i) = "#"
  BY <1>4, <1>1, <1>2a DEF StripLeadingComments, NUL
<1>5. CASE ~(Char(t, i) = "-" /\ Char(t, i + 1) = "-") /\ Char(t, i) # "#"
           /\ Char(t, i) = "/" /\ Char(t, i + 1) = "*"
  BY <1>5, <1>2, <1>2b DEF StripLeadingComments, NUL
<1>6. CASE ~(Char(t, i) = "-" /\ Char(t, i + 1) = "-") /\ Char(t, i) # "#"
           /\ ~(Char(t, i) = "/" /\ Char(t, i + 1) = "*")
  BY <1>6 DEF StripLeadingComments
<1>. QED BY <1>3, <1>4, <1>5, <1>6

(* One iteration of SkipSpacesAndComments never moves backwards and never  *)
(* leaves the text.                                                        *)
LEMMA SkipIterationRange ==
  ASSUME NEW t \in Seq(Symbols \cup {NUL}), NEW i \in 0..Len(t)
  PROVE  SkipIteration(t, i) \in i..Len(t)
BY StripLeadingCommentsRange, LtrimRange DEF SkipIteration

(* Blanking a comment keeps the text's length and characters, and leaves   *)
(* every offset before the comment as it was.                              *)
LEMMA BlankProps ==
  ASSUME NEW t \in Seq(Symbols \cup {NUL}), NEW i \in Nat, NEW j \in Nat
  PROVE  /\ Blank(t, i, j) \in Seq(Symbols \cup {NUL})
         /\ Len(Blank(t, i, j)) = Len(t)
         /\ \A k \in 0..(i - 1) : Char(Blank(t, i, j), k) = Char(t, k)
<1>1. " " \in Symbols \cup {NUL}
  BY DEF Symbols, Whitespace
<1>2a. \A k \in 1..Len(t) : t[k] \in Symbols \cup {NUL}
  OBVIOUS
<1>2. Blank(t, i, j) \in [1..Len(t) -> Symbols \cup {NUL}]
  BY <1>1, <1>2a DEF Blank
<1>3. Blank(t, i, j) \in Seq(Symbols \cup {NUL}) /\ Len(Blank(t, i, j)) = Len(t)
  BY <1>2
<1>4. \A k \in 0..(i - 1) : Char(Blank(t, i, j), k) = Char(t, k)
  <2>. TAKE m \in 0..(i - 1)
  <2>1. CASE m \in 0..(Len(t) - 1)
    <3>1. ~(i < m + 1) /\ m + 1 \in 1..Len(t)
      BY <2>1
    <3>2. Blank(t, i, j)[m + 1] = t[m + 1]
      BY <3>1, Zenon DEF Blank
    <3>. QED BY <1>3, <2>1, <3>2 DEF Char
  <2>2. CASE m \notin 0..(Len(t) - 1)
    BY <1>3, <2>2 DEF Char
  <2>. QED BY <2>1, <2>2
<1>. QED BY <1>3, <1>4

(* Every classification is a query kind.                                   *)
LEMMA GetQueryTypeKind ==
  ASSUME NEW t, NEW a, NEW b
  PROVE  MADB_GetQueryType(t, a, b) \in QueryKinds
BY DEF MADB_GetQueryType, QueryKinds

-----------------------------------------------------------------------------
(* Setting the type of a sub-query record keeps its start.                *)
LEMMA RecordTypeSet ==
  ASSUME NEW r, r = [start |-> r.start, type |-> r.type], NEW v
  PROVE  [r EXCEPT !.type = v] = [start |-> r.start, type |-> v]
<1>. DEFINE u == [r EXCEPT !.type = v]
            w == [start |-> r.start, type |-> v]
<1>1. u = [x \in {"start", "type"} |-> u[x]]
  BY Zenon
<1>2. w = [x \in {"start", "type"} |-> w[x]]
  BY Zenon
<1>3. u["start"] = w["start"] /\ u["type"] = w["type"]
  BY Zenon
<1>. HIDE DEF u, w
<1>4. \A x \in {"start", "type"} : u[x] = w[x]
  BY <1>3
<1>5. [x \in {"start", "type"} |-> u[x]] = [x \in {"start", "type"} |-> w[x]]
  BY <1>4
<1>. QED BY <1>1, <1>2, <1>5

(* An offset holding a character other than the terminator is inside the *)
(* text.                                                                   *)
LEMMA CharInside ==
  ASSUME NEW t \in Seq(Symbols \cup {NUL}), NEW i \in Int, Char(t, i) # NUL
  PROVE  i \in 0..(Len(t) - 1)
BY DEF Char

(* The switch on the token's first character, in every one of its cases:  *)
(* p moves forward by at least one and at most past the terminator, the   *)
(* text keeps its length and everything before p, and a placeholder, when  *)
(* one is recorded, is at p and is a '?'.                                  *)
LEMMA DispatchStep ==
  ASSUME TypeOK, p \in 0..Len(text), NEW n \in Nat, DispatchFirstChar(n)
  PROVE  /\ p' \in (p + 1)..(Len(text) + 1)
         /\ text' \in Seq(Symbols \cup {NUL})
         /\ Len(text') = Len(text)
         /\ \A k \in 0..(p - 1) : Char(text', k) = Char(text, k)
         /\ \/ params' = params
            \/ params' = Append(params, p) /\ Char(text', p) = "?"
         /\ stmtTokens' \in {0, n}
         /\ reading' \in BOOLEAN
         /\ hasParameters' \in BOOLEAN
<1>. USE DEF TypeOK
<1>1. Len(text) \in Nat /\ p \in Int /\ text \in Seq(Symbols \cup {NUL})
  OBVIOUS
<1>2. CASE Char(text, p) \in Quotes
  <2>1. Char(text, p) # NUL /\ Char(text, p) # "?" /\ Char(text, p) # ";"
    BY <1>2, Zenon DEF NUL, Quotes
  <2>2a. p \in 0..(Len(text) - 1)
    BY <1>1, <2>1, CharInside
  <2>2. p + 1 \in 0..Len(text)
    BY <2>2a
  <2>. DEFINE close == IF Char(text, p) = "BACKTICK"
                         THEN SkipQuotedString_Noescapes(text, p + 1, Char(text, p))
                         ELSE SkipQuotedString(text, p + 1, Char(text, p))
  <2>3. close \in (p + 1)..Len(text)
    BY <2>2, SkipQuotedStringRange
  <2>4. QuotedToken(n)
    BY <1>2, <2>1 DEF DispatchFirstChar
  <2>5. p' \in (p + 1)..(Len(text) + 1)
    BY <2>2, <2>3, <2>4 DEF QuotedToken
  <2>6. /\ UNCHANGED <<text, params, hasParameters>>
        /\ stmtTokens' = n
        /\ reading' \in BOOLEAN
    BY <2>4 DEF QuotedToken
  <2>. QED BY <2>5, <2>6
<1>3. CASE Char(text, p) \notin Quotes /\ Char(text, p) = "?"
  <2>1. Char(text, p) # NUL /\ Char(text, p) # ";"
    BY <1>3, Zenon DEF NUL
  <2>2. PlaceholderToken(n)
    BY <1>3, <2>1 DEF DispatchFirstChar
  <2>3. p \in 0..(Len(text) - 1)
    BY <1>1, <2>1, CharInside
  <2>4. /\ p' = p + 1
        /\ text' = text
        /\ params' = Append(params, p)
        /\ stmtTokens' = n
        /\ reading' = FALSE
        /\ hasParameters' = TRUE
    BY <2>2 DEF PlaceholderToken
  <2>5. Char(text', p) = "?"
    BY <1>3, <2>4
  <2>6. p' \in (p + 1)..(Len(text) + 1)
    BY <1>1, <2>3, <2>4
  <2>7. \A k \in 0..(p - 1) : Char(text', k) = Char(text, k)
    BY <2>4
  <2>8. stmtTokens' \in {0, n} /\ reading' \in BOOLEAN /\ hasParameters' \in BOOLEAN
    BY <2>4
  <2>. QED BY <1>1, <2>4, <2>5, <2>6, <2>7, <2>8
<1>4. CASE Char(text, p) \notin Quotes /\ Char(text, p) # "?" /\ Char(text, p) = ";"
  <2>1. Char(text, p) # NUL
    BY <1>4, Zenon DEF NUL
  <2>2. SeparatorToken(n)
    BY <1>4 DEF DispatchFirstChar
  <2>3. p \in 0..(Len(text) - 1)
    BY <1>1, <2>1, CharInside
  <2>4. NUL \in Symbols \cup {NUL}
    OBVIOUS
  <2>5. PICK multi \in BOOLEAN :
          /\ text' = IF multi /\ batchAllowed THEN [text EXCEPT ![p + 1] = NUL] ELSE text
          /\ stmtTokens' = IF multi THEN 0 ELSE n
          /\ reading' = FALSE
          /\ p' = p + 1
          /\ UNCHANGED <<params, hasParameters>>
    BY <2>2 DEF SeparatorToken
  <2>6. /\ text' \in Seq(Symbols \cup {NUL})
        /\ Len(text') = Len(text)
        /\ \A k \in 0..(p - 1) : Char(text', k) = Char(text, k)
    <3>1. CASE multi /\ batchAllowed
      <4>1. text' = [text EXCEPT ![p + 1] = NUL]
        BY <2>5, <3>1
      <4>2. /\ text' \in Seq(Symbols \cup {NUL})
            /\ Len(text') = Len(text)
            /\ \A j \in 1..Len(text) : text'[j] = IF j = p + 1 THEN NUL ELSE text[j]
        BY <1>1, <2>3, <2>4, <4>1, ExceptSeq
      <4>3. \A k \in 0..(p - 1) : Char(text', k) = Char(text, k)
        BY <1>1, <2>3, <4>2 DEF Char
      <4>. QED BY <4>2, <4>3
    <3>2. CASE ~(multi /\ batchAllowed)
      BY <1>1, <2>5, <3>2
    <3>. QED BY <3>1, <3>2
  <2>7. p' \in (p + 1)..(Len(text) + 1)
    BY <1>1, <2>3, <2>5
  <2>8. /\ params' = params
        /\ stmtTokens' \in {0, n}
        /\ reading' \in BOOLEAN
        /\ hasParameters' \in BOOLEAN
    BY <2>5
  <2>. QED BY <2>6, <2>7, <2>8
<1>5. CASE Char(text, p) \notin Quotes /\ Char(text, p) # "?" /\ Char(text, p) # ";"
  <2>1. PlainToken(n)
    BY <1>5 DEF DispatchFirstChar
  <2>. QED BY <2>1 DEF PlainToken
<1>. QED BY <1>2, <1>3, <1>4, <1>5

-----------------------------------------------------------------------------
(* The inductive invariant holds initially and is kept by every step.      *)

LEMMA InitIInv == Init => IInv
<1>. SUFFICES ASSUME Init PROVE IInv
  OBVIOUS
<1>1. input \in Seq(Symbols)
  BY InputsAssumption DEF Init
<1>2. text \in Seq(Symbols \cup {NUL})
  BY <1>1, SeqMonotonic DEF Init
<1>3. /\ << >> \in Seq(0..Len(input))
      /\ << >> \in Seq([start : 0..Len(input), type : QueryKinds])
      /\ Len(input) \in Nat
  BY <1>1, EmptySeq
<1>4. "NO_RESULT" \in QueryKinds
  BY DEF QueryKinds
<1>5. TypeOK
  <2>1. /\ input \in Seq(Symbols)
        /\ text \in Seq(Symbols \cup {NUL})
        /\ Len(text) = Len(input)
    BY <1>1, <1>2 DEF Init
  <2>4. /\ p \in 0..(Len(input) + 1)
        /\ stmtTokens \in Nat
    BY <1>3 DEF Init
  <2>5. /\ batchAllowed \in BOOLEAN
        /\ pc \in {"loop", "skip", "done"}
        /\ reading \in BOOLEAN
    BY DEF Init
  <2>2. /\ stmtType \in QueryKinds
        /\ curQuery \in {NoOffset} \cup 0..Len(input)
        /\ queryType \in QueryKinds
    BY <1>4 DEF Init
  <2>3. /\ tokens \in Seq(0..Len(input))
        /\ subQueries \in Seq([start : 0..Len(input), type : QueryKinds])
        /\ params \in Seq(0..Len(input))
        /\ hasParameters \in BOOLEAN
        /\ returnsResult \in BOOLEAN
    BY <1>3 DEF Init
  <2>. QED BY <2>1, <2>2, <2>3, <2>4, <2>5 DEF TypeOK
<1>. QED BY <1>5 DEF Init, IInv, Bookkeeping, TokensWellFormed, QueryTypeIsFirstSubQuery

(* Steps that only move the control point or the end of a token.           *)
LEMMA ParseDoneIInv == IInv /\ ParseDone => IInv'
BY DEF IInv, TypeOK, Bookkeeping, TokensWellFormed, QueryTypeIsFirstSubQuery,
       ParseDone, Char

LEMMA GapBeginIInv == IInv /\ GapBegin => IInv'
BY DEF IInv, TypeOK, Bookkeeping, TokensWellFormed, QueryTypeIsFirstSubQuery,
       GapBegin, Char

LEMMA TokenEndIInv == IInv /\ TokenEnd => IInv'
BY DEF IInv, TypeOK, Bookkeeping, TokensWellFormed, QueryTypeIsFirstSubQuery,
       TokenEnd, Char

LEMMA TokenCharIInv == IInv /\ TokenChar => IInv'
<1>. SUFFICES ASSUME IInv, TokenChar PROVE IInv'
  OBVIOUS
<1>1. /\ TypeOK /\ Bookkeeping /\ TokensWellFormed /\ QueryTypeIsFirstSubQuery
      /\ p \in 0..(Len(text) - 1)
      /\ p' = p + 1
      /\ pc = "loop"
      /\ UNCHANGED <<input, text, batchAllowed, pc, reading, stmtTokens, stmtType,
                     curQuery, tokens, subQueries, params, hasParameters,
                     returnsResult, queryType>>
  BY DEF IInv, TypeOK, TokenChar
<1>2. TypeOK'
  BY <1>1 DEF TypeOK
<1>3. Bookkeeping'
  <2>1. /\ tokens \in Seq(Int) /\ params \in Seq(Int)
        /\ \A i \in 1..Len(tokens) : tokens[i] < p
        /\ \A i \in 1..Len(params) : params[i] < p
    BY <1>1 DEF TypeOK, Bookkeeping
  <2>2. /\ \A i \in 1..Len(tokens) : tokens[i] < p + 1
        /\ \A i \in 1..Len(params) : params[i] < p + 1
    BY <2>1, <1>1
  <2>. QED BY <1>1, <2>2 DEF Bookkeeping
<1>4. TokensWellFormed' /\ QueryTypeIsFirstSubQuery'
  BY <1>1 DEF TokensWellFormed, QueryTypeIsFirstSubQuery
<1>. QED BY <1>2, <1>3, <1>4 DEF IInv

LEMMA StutterIInv == IInv /\ UNCHANGED vars => IInv'
BY DEF IInv, TypeOK, Bookkeeping, TokensWellFormed, QueryTypeIsFirstSubQuery,
       vars, Char

(* Blanking a comment only touches offsets at or after p, behind which     *)
(* every token and placeholder lies.                                       *)
LEMMA SkipCommentsStepIInv == IInv /\ SkipCommentsStep => IInv'
<1>. SUFFICES ASSUME IInv, SkipCommentsStep PROVE IInv'
  OBVIOUS
<1>1. /\ TypeOK /\ Bookkeeping /\ TokensWellFormed /\ QueryTypeIsFirstSubQuery
      /\ text \in Seq(Symbols \cup {NUL})
      /\ p \in 0..Len(text)
  BY DEF IInv, TypeOK, Bookkeeping, SkipCommentsStep
<1>2. StripLeadingComments(text, p) \in Nat
  BY <1>1, StripLeadingCommentsRange
<1>3. /\ text' \in Seq(Symbols \cup {NUL})
      /\ Len(text') = Len(text)
      /\ \A k \in 0..(p - 1) : Char(text', k) = Char(text, k)
  BY <1>1, <1>2, BlankProps DEF SkipCommentsStep
<1>4. p' \in p..Len(text)
  BY <1>1, SkipIterationRange DEF SkipCommentsStep
<1>5. UNCHANGED <<input, batchAllowed, pc, reading, stmtTokens, stmtType, curQuery,
                 tokens, subQueries, params, hasParameters, returnsResult, queryType>>
  BY DEF SkipCommentsStep
<1>6. TypeOK'
  BY <1>1, <1>3, <1>4, <1>5 DEF TypeOK
<1>7. Bookkeeping'
  <2>1. /\ tokens \in Seq(Int) /\ params \in Seq(Int)
        /\ \A i \in 1..Len(tokens) : tokens[i] < p
        /\ \A i \in 1..Len(params) : params[i] < p
    BY <1>1 DEF TypeOK, Bookkeeping
  <2>2. /\ \A i \in 1..Len(tokens) : tokens[i] < p'
        /\ \A i \in 1..Len(params) : params[i] < p'
    BY <2>1, <1>1, <1>4
  <2>3. pc' = "skip" => p' <= Len(text')
    BY <1>3, <1>4
  <2>. QED BY <1>1, <1>5, <2>2, <2>3 DEF Bookkeeping
<1>8. TokensWellFormed'
  <2>1. \A i \in 1..Len(params) : params[i] \in 0..(p - 1)
    BY <1>1 DEF Bookkeeping, TypeOK
  <2>. QED BY <1>1, <1>3, <1>5, <2>1 DEF TokensWellFormed
<1>9. QueryTypeIsFirstSubQuery'
  BY <1>1, <1>5 DEF QueryTypeIsFirstSubQuery
<1>. QED BY <1>6, <1>7, <1>8, <1>9 DEF IInv

(* Starting a token: SAVE_TOKEN appends p, behind which every earlier      *)
(* token lies; the counting code appends or patches the sub-query of the   *)
(* current statement, which Bookkeeping identifies; and the dispatch moves *)
(* p forward without touching the text before p.                           *)
LEMMA TokenStartIInv == IInv /\ TokenStart => IInv'
<1>. SUFFICES ASSUME IInv, TokenStart PROVE IInv'
  OBVIOUS
<1>. DEFINE n == stmtTokens + 1
<1>1. /\ TypeOK /\ Bookkeeping /\ TokensWellFormed /\ QueryTypeIsFirstSubQuery
  BY DEF IInv
<1>2. /\ p \in 0..Len(text)
      /\ n \in Nat
      /\ Len(input) \in Nat
      /\ Len(text) = Len(input)
      /\ tokens \in Seq(0..Len(input))
      /\ params \in Seq(0..Len(input))
      /\ subQueries \in Seq([start : 0..Len(input), type : QueryKinds])
      /\ \A i \in 1..Len(tokens) : tokens[i] < p
      /\ \A i \in 1..Len(params) : params[i] < p
  BY <1>1 DEF TokenStart, Bookkeeping, TypeOK
<1>3. /\ p' \in (p + 1)..(Len(text) + 1)
      /\ text' \in Seq(Symbols \cup {NUL})
      /\ Len(text') = Len(text)
      /\ \A k \in 0..(p - 1) : Char(text', k) = Char(text, k)
      /\ \/ params' = params
         \/ params' = Append(params, p) /\ Char(text', p) = "?"
      /\ stmtTokens' \in {0, n}
      /\ reading' \in BOOLEAN
      /\ hasParameters' \in BOOLEAN
  <2>1. DispatchFirstChar(n)
    BY DEF TokenStart
  <2>. QED BY <1>1, <1>2, <2>1, DispatchStep
<1>4. /\ tokens' = Append(tokens, p)
      /\ pc' = "loop"
      /\ UNCHANGED <<input, batchAllowed>>
      /\ CountToken(n)
  BY DEF TokenStart
<1>5. /\ tokens' \in Seq(0..Len(input))
      /\ Len(tokens') = Len(tokens) + 1
      /\ \A i \in 1..Len(tokens) : tokens'[i] = tokens[i]
      /\ tokens'[Len(tokens) + 1] = p
  BY <1>2, <1>4, AppendProperties
(* Tokens and placeholders stay increasing, behind p, and on '?'.          *)
<1>6. /\ \A i \in 1..Len(tokens') : tokens'[i] < p'
      /\ \A i \in 1..(Len(tokens') - 1) : tokens'[i] < tokens'[i + 1]
  <2>1. \A i \in 1..(Len(tokens) - 1) : tokens[i] < tokens[i + 1]
    BY <1>1 DEF TokensWellFormed
  <2>2. ASSUME NEW i \in 1..Len(tokens') PROVE tokens'[i] <= p
    <3>1. CASE i \in 1..Len(tokens)
      <4>1. tokens'[i] = tokens[i]
        BY <1>5, <3>1
      <4>2. tokens[i] < p
        BY <1>2, <3>1
      <4>3. tokens[i] \in Int /\ p \in Int
        BY <1>2, <3>1
      <4>. QED BY <4>1, <4>2, <4>3
    <3>2. CASE i = Len(tokens) + 1
      BY <1>2, <1>5, <3>2
    <3>. QED BY <1>2, <1>5, <3>1, <3>2
  <2>3. ASSUME NEW i \in 1..(Len(tokens') - 1) PROVE tokens'[i] < tokens'[i + 1]
    <3>1. CASE i + 1 \in 1..Len(tokens)
      BY <1>2, <1>5, <2>1, <3>1
    <3>2. CASE i = Len(tokens)
      <4>1. i \in 1..Len(tokens)
        BY <1>5, <3>2
      <4>2. tokens'[i] = tokens[i] /\ tokens'[i + 1] = p
        BY <1>5, <3>2, <4>1
      <4>3. tokens[i] < p /\ tokens[i] \in Int /\ p \in Int
        BY <1>2, <4>1
      <4>. QED BY <4>2, <4>3
    <3>. QED BY <1>2, <1>5, <3>1, <3>2
  <2>. QED BY <1>2, <1>3, <1>5, <2>2, <2>3
<1>7. /\ params' \in Seq(0..Len(input))
      /\ \A i \in 1..Len(params') : params'[i] < p'
      /\ \A i \in 1..Len(params') : Char(text', params'[i]) = "?"
      /\ \A i \in 1..(Len(params') - 1) : params'[i] < params'[i + 1]
  <2>1. /\ \A i \in 1..Len(params) : Char(text, params[i]) = "?"
        /\ \A i \in 1..(Len(params) - 1) : params[i] < params[i + 1]
    BY <1>1 DEF TokensWellFormed
  <2>2. \A i \in 1..Len(params) : Char(text', params[i]) = "?"
    BY <1>2, <1>3, <2>1
  <2>3. CASE params' = params
    BY <1>2, <1>3, <2>1, <2>2, <2>3
  <2>4. CASE params' = Append(params, p) /\ Char(text', p) = "?"
    <3>1. /\ params' \in Seq(0..Len(input))
          /\ Len(params') = Len(params) + 1
          /\ \A i \in 1..Len(params) : params'[i] = params[i]
          /\ params'[Len(params) + 1] = p
      BY <1>2, <2>4, AppendProperties
    <3>. QED BY <1>2, <1>3, <2>1, <2>2, <2>4, <3>1
  <2>. QED BY <1>3, <2>3, <2>4
(* What the counting code does to the statement's bookkeeping, for the    *)
(* token count n, stated so that it covers both values stmtTokens' can     *)
(* take: n, or 0 after a separator.                                        *)
<1>8. /\ curQuery' \in {NoOffset} \cup 0..Len(input)
      /\ stmtType' \in QueryKinds
      /\ subQueries' \in Seq([start : 0..Len(input), type : QueryKinds])
      /\ returnsResult' \in BOOLEAN
      /\ queryType' \in QueryKinds
      /\ n >= 1 => \E i \in 1..Len(tokens') : tokens'[i] = curQuery'
      /\ n = 1 => \A k \in 1..Len(subQueries') : subQueries'[k].start < curQuery'
      /\ n >= 2 => /\ subQueries' # <<>>
                   /\ subQueries'[Len(subQueries')].start = curQuery'
      /\ \A k \in 1..Len(subQueries') :
           \E i \in 1..Len(tokens') : tokens'[i] = subQueries'[k].start
      /\ \A k \in 1..(Len(subQueries') - 1) :
           subQueries'[k].start < subQueries'[k + 1].start
      /\ Len(subQueries') > 0 => queryType' = subQueries'[1].type
  <2>. DEFINE kind == MADB_GetQueryType(text, tokens[Len(tokens)], p)
  <2>1. /\ kind \in QueryKinds
        /\ "SELECT_INTO" \in QueryKinds
    BY GetQueryTypeKind DEF QueryKinds
  <2>2. /\ stmtType \in QueryKinds
        /\ curQuery \in {NoOffset} \cup 0..Len(input)
        /\ returnsResult \in BOOLEAN
        /\ queryType \in QueryKinds
        /\ stmtTokens \in Nat
    BY <1>1 DEF TypeOK
  <2>3. /\ stmtTokens >= 1 => \E i \in 1..Len(tokens) : tokens[i] = curQuery
        /\ stmtTokens = 1 => \A k \in 1..Len(subQueries) : subQueries[k].start < curQuery
        /\ stmtTokens >= 2 => /\ subQueries # <<>>
                              /\ subQueries[Len(subQueries)].start = curQuery
    BY <1>1 DEF Bookkeeping
  <2>4. /\ \A k \in 1..Len(subQueries) :
             \E i \in 1..Len(tokens) : tokens[i] = subQueries[k].start
        /\ \A k \in 1..(Len(subQueries) - 1) :
             subQueries[k].start < subQueries[k + 1].start
        /\ Len(subQueries) > 0 => queryType = subQueries[1].type
    BY <1>1 DEF TokensWellFormed, QueryTypeIsFirstSubQuery
  <2>5. \A k \in 1..Len(subQueries) :
          \E i \in 1..Len(tokens') : tokens'[i] = subQueries[k].start
    <3>1. \A i \in 1..Len(tokens) : i \in 1..Len(tokens') /\ tokens'[i] = tokens[i]
      BY <1>2, <1>5
    <3>. QED BY <2>4, <3>1
  <2>6. CASE n = 1
    <3>1. /\ curQuery' = p
          /\ UNCHANGED <<stmtType, subQueries, returnsResult, queryType>>
      BY <1>4, <2>6 DEF CountToken
    <3>2. \A k \in 1..Len(subQueries) : subQueries[k].start < p
      BY <1>2, <2>4
    <3>3. /\ Len(tokens) + 1 \in 1..Len(tokens')
          /\ tokens'[Len(tokens) + 1] = curQuery'
          /\ curQuery' \in 0..Len(input)
      BY <1>2, <1>5, <3>1
    <3>4. /\ curQuery' \in {NoOffset} \cup 0..Len(input)
          /\ stmtType' \in QueryKinds
          /\ subQueries' \in Seq([start : 0..Len(input), type : QueryKinds])
          /\ returnsResult' \in BOOLEAN
          /\ queryType' \in QueryKinds
      BY <1>2, <2>2, <3>1, <3>3
    <3>5. \E i \in 1..Len(tokens') : tokens'[i] = curQuery'
      BY <3>3
    <3>6. \A k \in 1..Len(subQueries') : subQueries'[k].start < curQuery'
      BY <3>1, <3>2
    <3>7. ~(n >= 2)
      BY <2>2, <2>6
    <3>8. /\ \A k \in 1..Len(subQueries') :
               \E i \in 1..Len(tokens') : tokens'[i] = subQueries'[k].start
          /\ \A k \in 1..(Len(subQueries') - 1) :
               subQueries'[k].start < subQueries'[k + 1].start
          /\ Len(subQueries') > 0 => queryType' = subQueries'[1].type
      BY <2>4, <2>5, <3>1
    <3>. QED BY <3>4, <3>5, <3>6, <3>7, <3>8, Zenon
  <2>7. CASE n = 2
    <3>1. /\ stmtType' = kind
          /\ returnsResult' = (returnsResult \/ kind \notin NoResultKinds)
          /\ subQueries' = Append(subQueries, [start |-> curQuery, type |-> kind])
          /\ queryType' = IF subQueries = <<>> THEN kind ELSE queryType
          /\ UNCHANGED curQuery
      BY <1>4, <2>7 DEF CountToken
    <3>2. PICK j \in 1..Len(tokens) : tokens[j] = curQuery
      BY <2>2, <2>3, <2>7
    <3>3. /\ curQuery \in 0..Len(input)
          /\ j \in 1..Len(tokens')
          /\ tokens'[j] = curQuery
      BY <1>2, <1>5, <3>2
    <3>4. /\ subQueries' \in Seq([start : 0..Len(input), type : QueryKinds])
          /\ Len(subQueries') = Len(subQueries) + 1
          /\ \A k \in 1..Len(subQueries) : subQueries'[k] = subQueries[k]
          /\ subQueries'[Len(subQueries) + 1] = [start |-> curQuery, type |-> kind]
      BY <1>2, <2>1, <3>1, <3>3, AppendProperties
    <3>5. Len(subQueries') > 0 => queryType' = subQueries'[1].type
      BY <1>2, <2>4, <3>1, <3>4, EmptySeq
    <3>6. \A k \in 1..Len(subQueries') :
            \E i \in 1..Len(tokens') : tokens'[i] = subQueries'[k].start
      <4>1. ASSUME NEW k \in 1..Len(subQueries)
            PROVE  \E i \in 1..Len(tokens') : tokens'[i] = subQueries'[k].start
        BY <2>5, <3>4
      <4>2. \E i \in 1..Len(tokens') : tokens'[i] = subQueries'[Len(subQueries) + 1].start
        BY <3>3, <3>4
      <4>3. ASSUME NEW k \in 1..Len(subQueries')
            PROVE  k \in 1..Len(subQueries) \/ k = Len(subQueries) + 1
        BY <1>2, <3>4
      <4>. QED BY <4>1, <4>2, <4>3
    <3>7. \A k \in 1..(Len(subQueries') - 1) :
            subQueries'[k].start < subQueries'[k + 1].start
      <4>1. stmtTokens = 1
        BY <2>2, <2>7
      <4>2. \A k \in 1..Len(subQueries) : subQueries[k].start < curQuery
        BY <2>3, <4>1
      <4>3. ASSUME NEW k \in 1..(Len(subQueries') - 1)
            PROVE  subQueries'[k].start < subQueries'[k + 1].start
        <5>1. CASE k + 1 \in 1..Len(subQueries)
          <6>1. k \in 1..(Len(subQueries) - 1)
            BY <1>2, <5>1
          <6>2. /\ subQueries'[k] = subQueries[k]
                /\ subQueries'[k + 1] = subQueries[k + 1]
            BY <3>4, <5>1, <6>1
          <6>. QED BY <2>4, <6>1, <6>2
        <5>2. CASE k = Len(subQueries)
          <6>1. subQueries'[k + 1].start = curQuery
            BY <3>4, <5>2
          <6>2. k \in 1..Len(subQueries) /\ subQueries'[k] = subQueries[k]
            BY <1>2, <3>4, <5>2
          <6>3. subQueries[k].start < curQuery
            BY <4>2, <6>2
          <6>4. subQueries'[k].start = subQueries[k].start
            BY <6>2
          <6>. QED BY <6>1, <6>3, <6>4
        <5>3. k + 1 \in 1..Len(subQueries) \/ k = Len(subQueries)
          <6>1. Len(subQueries) \in Nat /\ Len(subQueries') = Len(subQueries) + 1
            BY <1>2, <3>4
          <6>. QED BY <6>1
        <5>. QED BY <5>1, <5>2, <5>3
      <4>. QED BY <4>3
    <3>8. /\ stmtType' \in QueryKinds
          /\ returnsResult' \in BOOLEAN
          /\ queryType' \in QueryKinds
      BY <2>1, <2>2, <3>1
    <3>9. /\ subQueries' # <<>>
          /\ subQueries'[Len(subQueries')].start = curQuery'
      <4>1. Len(subQueries') = Len(subQueries) + 1 /\ Len(subQueries) \in Nat
        BY <1>2, <3>4
      <4>2. subQueries' # <<>>
        BY <4>1
      <4>3. subQueries'[Len(subQueries')].start = curQuery
        BY <3>4, <4>1
      <4>. QED BY <3>1, <4>2, <4>3
    <3>10. /\ curQuery' \in {NoOffset} \cup 0..Len(input)
           /\ \E i \in 1..Len(tokens') : tokens'[i] = curQuery'
      BY <3>1, <3>3
    <3>11. ~(n = 1)
      BY <2>7
    <3>. QED BY <3>4, <3>5, <3>6, <3>7, <3>8, <3>9, <3>10, <3>11, Zenon
  <2>8. CASE n > 2 /\ stmtType = "SELECT" /\ Char(text, p) = "INTO"
    <3>1. /\ stmtType' = "SELECT_INTO"
          /\ subQueries' = [subQueries EXCEPT ![Len(subQueries)].type = "SELECT_INTO"]
          /\ queryType' = IF Len(subQueries) = 1 THEN "SELECT_INTO" ELSE queryType
          /\ UNCHANGED <<curQuery, returnsResult>>
      BY <1>4, <2>8 DEF CountToken
    <3>2. /\ stmtType' = "SELECT_INTO"
          /\ queryType' = IF Len(subQueries) = 1 THEN "SELECT_INTO" ELSE queryType
          /\ UNCHANGED <<curQuery, returnsResult>>
      BY <3>1, Zenon
    <3>3. /\ subQueries # <<>>
          /\ subQueries[Len(subQueries)].start = curQuery
          /\ \E i \in 1..Len(tokens') : tokens'[i] = curQuery
      <4>1. \E i \in 1..Len(tokens) : tokens[i] = curQuery
        BY <2>2, <2>3, <2>8
      <4>2. \A i \in 1..Len(tokens) : i \in 1..Len(tokens') /\ tokens'[i] = tokens[i]
        BY <1>2, <1>5
      <4>. QED BY <2>2, <2>3, <2>8, <4>1, <4>2
    <3>. DEFINE L == Len(subQueries)
                last == [start |-> subQueries[L].start, type |-> "SELECT_INTO"]
    <3>4. L \in 1..Len(subQueries)
      BY <1>2, <3>3, EmptySeq
    <3>6. /\ subQueries[L] \in [start : 0..Len(input), type : QueryKinds]
          /\ last \in [start : 0..Len(input), type : QueryKinds]
      <4>1. subQueries[L] \in [start : 0..Len(input), type : QueryKinds]
        BY <1>2, <3>4, ElementOfSeq
      <4>. QED BY <2>1, <4>1
    <3>5. subQueries' = [subQueries EXCEPT ![L] = last]
      <4>1. subQueries[L] = [start |-> subQueries[L].start, type |-> subQueries[L].type]
        BY <3>6
      <4>2. [subQueries EXCEPT ![L].type = "SELECT_INTO"] = [subQueries EXCEPT ![L] = last]
        <5>1. [subQueries[L] EXCEPT !.type = "SELECT_INTO"] = last
          BY <4>1, RecordTypeSet
        <5>. QED BY <5>1, Zenon
      <4>. QED BY <3>1, <4>2, Zenon
    <3>7. /\ subQueries' \in Seq([start : 0..Len(input), type : QueryKinds])
          /\ Len(subQueries') = Len(subQueries)
          /\ \A k \in 1..Len(subQueries) :
               /\ subQueries'[k].start = subQueries[k].start
               /\ subQueries'[k].type = IF k = L THEN "SELECT_INTO"
                                        ELSE subQueries[k].type
      BY <1>2, <3>4, <3>5, <3>6, ExceptSeq
    <3>8. Len(subQueries') > 0 => queryType' = subQueries'[1].type
      <4>1. CASE L = 1
        BY <3>2, <3>4, <3>7, <4>1
      <4>2. CASE L # 1
        <5>1. 1 \in 1..Len(subQueries) /\ queryType = subQueries[1].type
          BY <1>2, <2>4, <3>4
        <5>. QED BY <3>2, <3>7, <4>2, <5>1
      <4>. QED BY <4>1, <4>2
    <3>9. /\ curQuery' \in {NoOffset} \cup 0..Len(input)
          /\ stmtType' \in QueryKinds
          /\ returnsResult' \in BOOLEAN
          /\ queryType' \in QueryKinds
      BY <2>1, <2>2, <3>2
    <3>10. /\ n >= 1 => \E i \in 1..Len(tokens') : tokens'[i] = curQuery'
           /\ ~(n = 1)
           /\ subQueries' # <<>>
           /\ subQueries'[Len(subQueries')].start = curQuery'
      BY <1>2, <2>2, <2>8, <3>2, <3>3, <3>4, <3>7
    <3>11. \A k \in 1..Len(subQueries') :
             \E i \in 1..Len(tokens') : tokens'[i] = subQueries'[k].start
      BY <2>5, <3>7
    <3>12. \A k \in 1..(Len(subQueries') - 1) :
             subQueries'[k].start < subQueries'[k + 1].start
      <4>1. ASSUME NEW k \in 1..(Len(subQueries') - 1)
            PROVE  subQueries'[k].start < subQueries'[k + 1].start
        <5>1. k \in 1..Len(subQueries) /\ k + 1 \in 1..Len(subQueries)
              /\ k \in 1..(Len(subQueries) - 1)
          BY <3>7, SMTT(30)
        <5>. QED BY <2>4, <3>7, <5>1
      <4>. QED BY <4>1
    <3>. QED BY <3>7, <3>8, <3>9, <3>10, <3>11, <3>12, Zenon
  <2>9. CASE n # 1 /\ n # 2 /\ ~(n > 2 /\ stmtType = "SELECT" /\ Char(text, p) = "INTO")
    <3>1. UNCHANGED <<curQuery, stmtType, subQueries, returnsResult, queryType>>
      BY <1>4, <2>9 DEF CountToken
    <3>2. /\ stmtTokens >= 2
          /\ \E i \in 1..Len(tokens') : tokens'[i] = curQuery
      BY <1>5, <2>2, <2>3, <2>9
    <3>. QED BY <1>2, <2>2, <2>3, <2>4, <2>5, <2>9, <3>1, <3>2
  <2>. QED BY <2>6, <2>7, <2>8, <2>9
<1>9. TypeOK'
  <2>1. /\ input' = input
        /\ text' \in Seq(Symbols \cup {NUL})
        /\ Len(text') = Len(input')
    BY <1>2, <1>3, <1>4
  <2>2. /\ p' \in 0..(Len(input') + 1)
        /\ stmtTokens' \in Nat
    BY <1>2, <1>3, <2>1
  <2>3. /\ input' \in Seq(Symbols)
        /\ pc' \in {"loop", "skip", "done"}
        /\ batchAllowed' \in BOOLEAN
    BY <1>1, <1>4 DEF TypeOK
  <2>4. /\ curQuery' \in {NoOffset} \cup 0..Len(input')
        /\ stmtType' \in QueryKinds
        /\ tokens' \in Seq(0..Len(input'))
        /\ subQueries' \in Seq([start : 0..Len(input'), type : QueryKinds])
        /\ params' \in Seq(0..Len(input'))
        /\ returnsResult' \in BOOLEAN
        /\ queryType' \in QueryKinds
    BY <1>5, <1>7, <1>8, <2>1
  <2>. QED BY <1>3, <2>1, <2>2, <2>3, <2>4 DEF TypeOK
<1>10. Bookkeeping'
  <2>1. CASE stmtTokens' = 0
    BY <1>4, <1>6, <1>7, <2>1 DEF Bookkeeping
  <2>2. CASE stmtTokens' = n
    BY <1>2, <1>4, <1>6, <1>7, <1>8, <2>2 DEF Bookkeeping
  <2>. QED BY <1>3, <2>1, <2>2
<1>11. TokensWellFormed' /\ QueryTypeIsFirstSubQuery'
  BY <1>6, <1>7, <1>8 DEF TokensWellFormed, QueryTypeIsFirstSubQuery
<1>. QED BY <1>9, <1>10, <1>11 DEF IInv

-----------------------------------------------------------------------------
(* The inductive invariant is kept by every step of ParseQuery.            *)
LEMMA NextIInv == IInv /\ [Next]_vars => IInv'
<1>. SUFFICES ASSUME IInv, [Next]_vars PROVE IInv'
  OBVIOUS
<1>1. CASE ParseDone        BY <1>1, ParseDoneIInv
<1>2. CASE GapBegin         BY <1>2, GapBeginIInv
<1>3. CASE SkipCommentsStep BY <1>3, SkipCommentsStepIInv
<1>4. CASE TokenStart       BY <1>4, TokenStartIInv
<1>5. CASE TokenEnd         BY <1>5, TokenEndIInv
<1>6. CASE TokenChar        BY <1>6, TokenCharIInv
<1>7. CASE UNCHANGED vars   BY <1>7, StutterIInv
<1>. QED BY <1>1, <1>2, <1>3, <1>4, <1>5, <1>6, <1>7 DEF Next

(* IInv holds in every state of every run of ParseQuery.                   *)
THEOREM IInvInvariant == Spec => []IInv
<1>1. Init => IInv
  BY InitIInv
<1>2. IInv /\ [Next]_vars => IInv'
  BY NextIInv
<1>. QED BY <1>1, <1>2, PTL DEF Spec

(* Whatever the query text and whatever QueryIsPossiblyMultistmt answers,  *)
(* ParseQuery keeps every offset it records inside the text, every         *)
(* sub-query kind among the query kinds, and the text's length unchanged   *)
(* by the comment blanking and the ';' overwrite.                          *)
THEOREM TypeCorrect == Spec => []TypeOK
BY IInvInvariant, PTL DEF IInv

(* For every query text, the token and placeholder offsets ParseQuery      *)
(* records are strictly increasing, each recorded placeholder is a '?' of  *)
(* the refined text (neither blanked as a comment nor overwritten as a     *)
(* separator later), and every sub-query starts at a recorded token, in    *)
(* order.                                                                  *)
THEOREM TokensWellFormedInvariant == Spec => []TokensWellFormed
BY IInvInvariant, PTL DEF IInv

(* For every query text, the query type ParseQuery reports is the type of  *)
(* the first sub-statement, also after an INTO token reclassifies it.      *)
THEOREM QueryTypeInvariant == Spec => []QueryTypeIsFirstSubQuery
BY IInvInvariant, PTL DEF IInv

-----------------------------------------------------------------------------
(* ParseQuery implements QueryScan.                                        *)

(* Blanking a comment from offset i writes blanks after the first i cells  *)
(* and nothing else.                                                       *)
LEMMA BlankRewrites ==
  ASSUME NEW t \in Seq(Symbols \cup {NUL}), NEW i \in Nat, NEW j \in Nat
  PROVE  Scan!Rewritten(t, Blank(t, i, j), i)
<1>1. Len(Blank(t, i, j)) = Len(t)
  BY BlankProps
<1>2. \A k \in 1..Len(t) : Blank(t, i, j)[k] = IF i < k /\ k <= j THEN " " ELSE t[k]
  BY DEF Blank
<1>. QED BY <1>1, <1>2 DEF Scan!Rewritten

(* The switch on the token's first character overwrites at most the ';'   *)
(* at p, with the terminator, and records a placeholder only at a '?'.    *)
LEMMA DispatchRewrites ==
  ASSUME TypeOK, p \in 0..Len(text), NEW n \in Nat, DispatchFirstChar(n)
  PROVE  /\ Scan!Rewritten(text, text', p)
         /\ \/ params' = params
            \/ /\ p < Len(text) /\ text[p + 1] = "?"
               /\ params' = Append(params, p)
<1>. USE DEF TypeOK
<1>1. Len(text) \in Nat /\ p \in Int /\ text \in Seq(Symbols \cup {NUL})
  OBVIOUS
<1>2. Scan!Rewritten(text, text, p)
  BY DEF Scan!Rewritten
<1>3. CASE Char(text, p) \in Quotes
  <2>1. Char(text, p) # "?" /\ Char(text, p) # ";"
    BY <1>3, Zenon DEF Quotes
  <2>2. QuotedToken(n)
    BY <1>3, <2>1 DEF DispatchFirstChar
  <2>. QED BY <1>2, <2>2 DEF QuotedToken
<1>4. CASE Char(text, p) \notin Quotes /\ Char(text, p) = "?"
  <2>1. Char(text, p) # NUL /\ Char(text, p) # ";"
    BY <1>4, Zenon DEF NUL
  <2>2. PlaceholderToken(n)
    BY <1>4, <2>1 DEF DispatchFirstChar
  <2>3. p \in 0..(Len(text) - 1)
    BY <1>1, <2>1, CharInside
  <2>4. text[p + 1] = "?"
    BY <1>4, <2>3 DEF Char
  <2>. QED BY <1>2, <2>2, <2>3, <2>4 DEF PlaceholderToken
<1>5. CASE Char(text, p) \notin Quotes /\ Char(text, p) # "?" /\ Char(text, p) = ";"
  <2>1. Char(text, p) # NUL
    BY <1>5, Zenon DEF NUL
  <2>2. SeparatorToken(n)
    BY <1>5 DEF DispatchFirstChar
  <2>3. p \in 0..(Len(text) - 1)
    BY <1>1, <2>1, CharInside
  <2>4. PICK multi \in BOOLEAN :
          /\ text' = IF multi /\ batchAllowed THEN [text EXCEPT ![p + 1] = NUL] ELSE text
          /\ UNCHANGED params
    BY <2>2 DEF SeparatorToken
  <2>5. CASE multi /\ batchAllowed
    <3>1. text' = [text EXCEPT ![p + 1] = NUL]
      BY <2>4, <2>5
    <3>2. /\ Len(text') = Len(text)
          /\ \A j \in 1..Len(text) : text'[j] = IF j = p + 1 THEN NUL ELSE text[j]
      <4>1. NUL \in Symbols \cup {NUL}
        OBVIOUS
      <4>. QED BY <1>1, <2>3, <3>1, <4>1, ExceptSeq
    <3>3. \A k \in 1..Len(text) : text'[k] # text[k] => k > p /\ text'[k] \in {" ", NUL}
      <4>1. SUFFICES ASSUME NEW k \in 1..Len(text), text'[k] # text[k]
                     PROVE  k > p /\ text'[k] \in {" ", NUL}
        OBVIOUS
      <4>2. k = p + 1
        BY <3>2, <4>1
      <4>3. text'[k] = NUL
        BY <3>2, <4>2
      <4>. QED BY <1>1, <4>2, <4>3
    <3>. QED BY <2>4, <3>2, <3>3 DEF Scan!Rewritten
  <2>6. CASE ~(multi /\ batchAllowed)
    BY <1>2, <2>4, <2>6
  <2>. QED BY <2>5, <2>6
<1>6. CASE Char(text, p) \notin Quotes /\ Char(text, p) # "?" /\ Char(text, p) # ";"
  <2>1. PlainToken(n)
    BY <1>6 DEF DispatchFirstChar
  <2>. QED BY <1>2, <2>1 DEF PlainToken
<1>. QED BY <1>3, <1>4, <1>5, <1>6

(* Every step of ParseQuery is a step of QueryScan or leaves its state    *)
(* alone: the gap branch's start and the end of a token do not move p.    *)
LEMMA NextRefines == IInv /\ [Next]_vars => [Scan!Next]_Scan!avars
<1>. SUFFICES ASSUME IInv, [Next]_vars PROVE [Scan!Next]_Scan!avars
  OBVIOUS
<1>1. /\ TypeOK /\ Bookkeeping
      /\ text \in Seq(Symbols \cup {NUL}) /\ Len(text) \in Nat /\ p \in Int
  BY DEF IInv, TypeOK
<1>2. CASE ParseDone
  BY <1>2 DEF ParseDone, Scan!Next, Scan!Finish
<1>3. CASE GapBegin \/ TokenEnd \/ UNCHANGED vars
  BY <1>3 DEF GapBegin, TokenEnd, vars, Scan!avars
<1>4. CASE SkipCommentsStep
  <2>0. p \in 0..Len(text)
    BY <1>1, <1>4 DEF SkipCommentsStep, TypeOK
  <2>1. StripLeadingComments(text, p) \in Nat
    BY <1>1, <2>0, StripLeadingCommentsRange
  <2>2a. SkipIteration(text, p) \in p..Len(text)
    BY <1>1, <2>0, SkipIterationRange
  <2>2b. p' = SkipIteration(text, p) /\ SkipIteration(text, p) # p
    BY <1>4 DEF SkipCommentsStep
  <2>2. p' \in (p + 1)..(Len(text) + 1)
    BY <1>1, <2>2a, <2>2b
  <2>3. Scan!Rewritten(text, text', p)
    <3>1. text' = Blank(text, p, StripLeadingComments(text, p))
      BY <1>4 DEF SkipCommentsStep
    <3>2. Scan!Rewritten(text, Blank(text, p, StripLeadingComments(text, p)), p)
      BY <1>1, <2>0, <2>1, BlankRewrites
    <3>. QED BY <3>1, <3>2
  <2>. QED BY <1>4, <2>2, <2>3 DEF SkipCommentsStep, Scan!Next, Scan!Advance
<1>5. CASE TokenStart
  <2>1. p \in 0..Len(text) /\ stmtTokens + 1 \in Nat
    BY <1>1, <1>5 DEF TokenStart, Bookkeeping, TypeOK
  <2>2. DispatchFirstChar(stmtTokens + 1)
    BY <1>5 DEF TokenStart
  <2>3. p' \in (p + 1)..(Len(text) + 1)
    BY <1>1, <2>1, <2>2, DispatchStep
  <2>4. /\ Scan!Rewritten(text, text', p)
        /\ \/ params' = params
           \/ /\ p < Len(text) /\ text[p + 1] = "?"
              /\ params' = Append(params, p)
    BY <1>1, <2>1, <2>2, DispatchRewrites
  <2>. QED BY <1>5, <2>3, <2>4 DEF TokenStart, Scan!Next, Scan!Advance
<1>6. CASE TokenChar
  <2>1. Scan!Rewritten(text, text, p)
    BY DEF Scan!Rewritten
  <2>. QED BY <1>1, <1>6, <2>1 DEF TokenChar, Scan!Next, Scan!Advance
<1>. QED BY <1>2, <1>3, <1>4, <1>5, <1>6 DEF Next

(* ParseQuery is a single forward pass over the query, for every text,    *)
(* every NoResultKinds and every answer of QueryIsPossiblyMultistmt: p    *)
(* only moves forward, a token or placeholder is recorded at p (a         *)
(* placeholder only at a '?'), and the comment blanking and the ';'       *)
(* overwrite never touch the text p has passed.                           *)
THEOREM ScanRefinement == Spec => ScanRefined
<1>1. Init => Scan!Init
  BY DEF Init, Scan!Init
<1>2. IInv /\ [Next]_vars => [Scan!Next]_Scan!avars
  BY NextRefines
<1>. QED BY <1>1, <1>2, IInvInvariant, PTL DEF Spec, ScanRefined, Scan!Spec
=============================================================================
