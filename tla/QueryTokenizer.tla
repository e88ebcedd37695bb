--------------------------- MODULE QueryTokenizer ---------------------------
(***************************************************************************)
(* The statement tokenizer of the driver: ParseQuery in src/ma_parse.c,    *)
(* together with the scanner primitives it calls (SkipSpacesAndComments,  *)
(* StripLeadingComments, SkipQuotedString, SkipQuotedString_Noescapes)     *)
(* and the command classifier MADB_GetQueryType.                           *)
(*                                                                         *)
(* The refined text is a sequence of symbols.  A symbol is one character   *)
(* of the query, except that a keyword the classifier looks for (SELECT,   *)
(* INTO, ...) is one symbol, and "x" stands for any other letter.  The     *)
(* code compares a token with a keyword by a case-insensitive prefix       *)
(* comparison (_strnicmp(token, kw, strlen(kw))); at symbol level that is  *)
(* the comparison of the symbol at the token's offset.  Offsets are        *)
(* 0-based, as in the code (SAVE_TOKEN stores p - RefinedText); the symbol *)
(* at offset i is text[i+1], and offset Len(text) holds the terminator.    *)
(*                                                                         *)
(* One step of the specification is one iteration of the main loop of     *)
(* ParseQuery, or one iteration of the loop inside SkipSpacesAndComments   *)
(* (pc = "skip"), which ParseQuery calls at the start of every gap.        *)
(***************************************************************************)
EXTENDS Integers, Sequences

CONSTANTS
  Inputs,        \* the refined texts ParseQuery may be handed
  NoResultKinds  \* the kinds QUERY_DOESNT_RETURN_RESULT holds for (ma_odbc.h)

(* The terminator written over a statement separator, and the one past    *)
(* the end of the refined text.                                           *)
NUL == "<NUL>"

Whitespace == {" ", "\t", "\r", "\n"}                 \* isspace()
Quotes     == {"'", "\"", "BACKTICK"}
(* Mutant: the token branch does not stop at a '?'.                      *)
TokenDelimiters_NoQuestion == {"\"", "'", "BACKTICK", " ", "\t", "\r", "\n", "-", "#", "/", ";"}

(* The characters that end a token (ParseQuery, lines 581-592).           *)
TokenDelimiters == {"?", "\"", "'", "BACKTICK", " ", "\t", "\r", "\n", "-", "#", "/", ";"}

(* The keywords MADB_GetQueryType and ParseQuery compare tokens with.      *)
Keywords == {"DO", "SELECT", "WITH", "INSERT", "REPLACE", "UPDATE", "DELETE",
             "CALL", "SHOW", "ANALYZE", "EXPLAIN", "CHECK", "EXECUTE", "CREATE",
             "PROCEDURE", "FUNCTION", "DEFINER", "SET", "NAMES", "DESC",
             "BEGIN", "NOT", "INTO"}
Letters  == Keywords \cup {"x"}                        \* isalpha()
Symbols  == Letters \cup Whitespace \cup Quotes \cup
            {"\\", "?", ";", "-", "#", "/", "*", "(", "0"}

QueryKinds == {"NO_RESULT", "INSERT", "UPDATE", "DELETE", "CREATE_PROC",
               "CREATE_FUNC", "CREATE_DEFINER", "SET", "SET_NAMES", "SELECT",
               "SELECT_INTO", "SHOW", "CALL", "ANALYZE", "EXPLAIN", "CHECK",
               "EXECUTE", "DESCRIBE", "NOT_ATOMIC_BLOCK", "ANONYMOUS_CODE_BLOCKS"}

ASSUME InputsAssumption == Inputs \subseteq Seq(Symbols)
ASSUME NoResultKindsAssumption == NoResultKinds \subseteq QueryKinds

(* Offset used for CurQuery before the first token (NULL in the code).     *)
NoOffset == -1

-----------------------------------------------------------------------------
(* Character access and searches over the text.                           *)

(* The character at offset i, the terminator at and past the end.          *)
Char(t, i) == IF i \in 0..(Len(t) - 1) THEN t[i + 1] ELSE NUL

(* The least element of a set of offsets, or d when there is none.  The    *)
(* guard states that the least element exists, which is what CHOOSE needs. *)
FirstOf(C, d) ==
  IF \E j \in C : \A k \in C : j <= k
    THEN CHOOSE j \in C : \A k \in C : j <= k
    ELSE d

(* The first offset at or after from holding one of the characters cs,     *)
(* or the end of the text (strchr and the like, which stop at the end).    *)
FindChar(t, from, cs) == FirstOf({j \in from..(Len(t) - 1) : t[j + 1] \in cs}, Len(t))

(* ltrim: the first offset at or after i that does not hold whitespace.    *)
Ltrim(t, i) == FirstOf({j \in i..(Len(t) - 1) : t[j + 1] \notin Whitespace}, Len(t))

(* Mutant: the newline that ends a line comment is left out of it.        *)
LineCommentEnd_KeepNewline(t, from) == FindChar(t, from, {"\n"})

(* StripLeadingComments, without the overwriting: the offset just past a   *)
(* comment that starts at i, or i when none does.  A line comment ends     *)
(* past its newline, a block comment past its "*/"; an unterminated        *)
(* comment runs to the end of the text.                                    *)
LineCommentEnd(t, from) ==
  LET nl == FindChar(t, from, {"\n"}) IN IF nl < Len(t) THEN nl + 1 ELSE Len(t)
BlockCommentEnd(t, from) ==
  LET close == FirstOf({j \in from..(Len(t) - 1) :
                          t[j + 1] = "*" /\ Char(t, j + 1) = "/"}, Len(t))
  IN IF close < Len(t) THEN close + 2 ELSE Len(t)
StripLeadingComments(t, i) ==
  CASE Char(t, i) = "-" /\ Char(t, i + 1) = "-" -> LineCommentEnd(t, i + 2)
    [] Char(t, i) = "#"                         -> LineCommentEnd(t, i + 1)
    [] Char(t, i) = "/" /\ Char(t, i + 1) = "*" -> BlockCommentEnd(t, i + 2)
    [] OTHER                                    -> i

(* Mutant: the memset is one byte short.                                  *)
Blank_ShortByOne(t, i, j) == [k \in 1..Len(t) |-> IF i < k /\ k < j THEN " " ELSE t[k]]

(* The text with offsets i..j-1 overwritten by spaces (the memset of       *)
(* StripLeadingComments when OverWrite is set).                            *)
Blank(t, i, j) == [k \in 1..Len(t) |-> IF i < k /\ k <= j THEN " " ELSE t[k]]

(* One iteration of the loop of SkipSpacesAndComments: strip one comment,  *)
(* then ltrim.  The loop stops at the end or when an iteration moves       *)
(* nothing.                                                                *)
SkipIteration(t, i) == Ltrim(t, StripLeadingComments(t, i))

(* The character at offset j is taken by a backslash when a quoted run is  *)
(* scanned from offset from: the backslashes right before it, after from,  *)
(* are odd in number (each backslash takes itself and the next character). *)
Escaped(t, from, j) ==
  \E k \in 0..(j - from) :
     /\ \A m \in 1..k : Char(t, j - m) = "\\"
     /\ (k = j - from \/ Char(t, j - k - 1) # "\\")
     /\ k % 2 = 1

(* SkipQuotedString: the offset of the closing quote, or the end.          *)
SkipQuotedString(t, from, q) ==
  FirstOf({j \in from..(Len(t) - 1) : t[j + 1] = q /\ ~Escaped(t, from, j)}, Len(t))

(* SkipQuotedString_Noescapes, used for backticks.                         *)
SkipQuotedString_Noescapes(t, from, q) == FindChar(t, from, {q})

(* MADB_GetQueryType(Token1, Token2) with the tokens at offsets tok1 and   *)
(* tok2: Token1 first skips the characters that are not letters (up to the *)
(* terminator), and the first keyword that matches wins.                   *)
MADB_GetQueryType(t, tok1, tok2) ==
  LET w1 == Char(t, FindChar(t, tok1, Letters \cup {NUL}))
      w2 == Char(t, tok2)
  IN CASE w1 = "DO"                         -> "ANONYMOUS_CODE_BLOCKS"
       [] w1 \in {"SELECT", "WITH"}         -> "SELECT"
       [] w1 \in {"INSERT", "REPLACE"}      -> "INSERT"
       [] w1 = "UPDATE"                     -> "UPDATE"
       [] w1 = "DELETE"                     -> "DELETE"
       [] w1 = "CALL"                       -> "CALL"
       [] w1 = "SHOW"                       -> "SHOW"
       [] w1 = "ANALYZE"                    -> "ANALYZE"
       [] w1 = "EXPLAIN"                    -> "EXPLAIN"
       [] w1 = "CHECK"                      -> "CHECK"
       [] w1 = "EXECUTE"                    -> "EXECUTE"
       [] w1 = "CREATE" /\ w2 = "PROCEDURE" -> "CREATE_PROC"
       [] w1 = "CREATE" /\ w2 = "FUNCTION"  -> "CREATE_FUNC"
       [] w1 = "CREATE" /\ w2 = "DEFINER"   -> "CREATE_DEFINER"
       [] w1 = "SET" /\ w2 = "NAMES"        -> "SET_NAMES"
       [] w1 = "SET"                        -> "SET"
       [] w1 = "DESC"                       -> "DESCRIBE"
       [] w1 = "BEGIN" /\ w2 = "NOT"        -> "NOT_ATOMIC_BLOCK"
       [] OTHER                             -> "NO_RESULT"

-----------------------------------------------------------------------------
VARIABLES
  input,          \* the text ParseQuery was handed (history, never changes)
  text,           \* Query->RefinedText, overwritten in place
  batchAllowed,   \* Query->BatchAllowed
  p,              \* the scan position
  pc,             \* "loop": main loop head; "skip": in SkipSpacesAndComments
  reading,        \* ReadingToken
  stmtTokens,     \* StmtTokensCount
  stmtType,       \* StmtType
  curQuery,       \* CurQuery: offset of the current statement's first token
  tokens,         \* Query->Tokens
  subQueries,     \* Query->SubQuery: records [start, type]
  params,         \* Query->ParamPositions
  hasParameters,  \* Query->HasParameters
  returnsResult,  \* Query->ReturnsResult
  queryType       \* Query->QueryType

vars == <<input, text, batchAllowed, p, pc, reading, stmtTokens, stmtType,
          curQuery, tokens, subQueries, params, hasParameters, returnsResult,
          queryType>>

(* The Query after MADB_DeleteQuery zeroed it and MADB_ResetParser set     *)
(* BatchAllowed and the refined text.  StmtType is uninitialised in the    *)
(* code and is never read before the 2nd token of a statement sets it.     *)
Init ==
  /\ input \in Inputs
  /\ text = input
  /\ batchAllowed \in BOOLEAN
  /\ p = 0
  /\ pc = "loop"
  /\ reading = FALSE
  /\ stmtTokens = 0
  /\ stmtType = "NO_RESULT"
  /\ curQuery = NoOffset
  /\ tokens = <<>>
  /\ subQueries = <<>>
  /\ params = <<>>
  /\ hasParameters = FALSE
  /\ returnsResult = FALSE
  /\ queryType = "NO_RESULT"

-----------------------------------------------------------------------------
(* The steps of ParseQuery.                                               *)

(* Main loop exit: p reached the end of the refined text.                 *)
ParseDone ==
  /\ pc = "loop"
  /\ p >= Len(text)
  /\ pc' = "done"
  /\ UNCHANGED <<input, text, batchAllowed, p, reading, stmtTokens, stmtType,
                 curQuery, tokens, subQueries, params, hasParameters,
                 returnsResult, queryType>>

(* Between tokens: the gap branch begins by calling SkipSpacesAndComments. *)
GapBegin ==
  /\ pc = "loop"
  /\ p < Len(text)
  /\ ~reading
  /\ pc' = "skip"
  /\ UNCHANGED <<input, text, batchAllowed, p, reading, stmtTokens, stmtType,
                 curQuery, tokens, subQueries, params, hasParameters,
                 returnsResult, queryType>>

(* One iteration of the loop of SkipSpacesAndComments(&p, &Length, TRUE)  *)
(* that moves p: the comment at p is overwritten with spaces.              *)
SkipCommentsStep ==
  /\ pc = "skip"
  /\ p < Len(text)
  /\ SkipIteration(text, p) # p
  /\ text' = Blank(text, p, StripLeadingComments(text, p))
  /\ p' = SkipIteration(text, p)
  /\ UNCHANGED <<input, batchAllowed, pc, reading, stmtTokens, stmtType,
                 curQuery, tokens, subQueries, params, hasParameters,
                 returnsResult, queryType>>

(* Mutant: the 1st token of a statement does not set CurQuery.           *)
CountToken_KeepCurQuery(n) ==
  LET kind == MADB_GetQueryType(text, tokens[Len(tokens)], p)
  IN CASE n = 1 ->
            UNCHANGED <<curQuery, stmtType, subQueries, returnsResult, queryType>>
       [] n = 2 ->
            /\ stmtType' = kind
            /\ returnsResult' = (returnsResult \/ kind \notin NoResultKinds)
            /\ subQueries' = Append(subQueries, [start |-> curQuery, type |-> kind])
            /\ queryType' = IF subQueries = <<>> THEN kind ELSE queryType
            /\ UNCHANGED curQuery
       [] n > 2 /\ stmtType = "SELECT" /\ Char(text, p) = "INTO" ->
            /\ stmtType' = "SELECT_INTO"
            /\ subQueries' = [subQueries EXCEPT ![Len(subQueries)].type = "SELECT_INTO"]
            /\ queryType' = IF Len(subQueries) = 1 THEN "SELECT_INTO" ELSE queryType
            /\ UNCHANGED <<curQuery, returnsResult>>
       [] OTHER ->
            UNCHANGED <<curQuery, stmtType, subQueries, returnsResult, queryType>>

(* Mutant: the INTO branch sets QueryType whatever the sub-query index.  *)
CountToken_IntoAlwaysSetsQueryType(n) ==
  LET kind == MADB_GetQueryType(text, tokens[Len(tokens)], p)
  IN CASE n = 1 ->
            /\ curQuery' = p
            /\ UNCHANGED <<stmtType, subQueries, returnsResult, queryType>>
       [] n = 2 ->
            /\ stmtType' = kind
            /\ returnsResult' = (returnsResult \/ kind \notin NoResultKinds)
            /\ subQueries' = Append(subQueries, [start |-> curQuery, type |-> kind])
            /\ queryType' = IF subQueries = <<>> THEN kind ELSE queryType
            /\ UNCHANGED curQuery
       [] n > 2 /\ stmtType = "SELECT" /\ Char(text, p) = "INTO" ->
            /\ stmtType' = "SELECT_INTO"
            /\ subQueries' = [subQueries EXCEPT ![Len(subQueries)].type = "SELECT_INTO"]
            /\ queryType' = "SELECT_INTO"
            /\ UNCHANGED <<curQuery, returnsResult>>
       [] OTHER ->
            UNCHANGED <<curQuery, stmtType, subQueries, returnsResult, queryType>>

(* Lines 490-523, for the token at p that is the n-th of its statement:    *)
(* the 1st is remembered as the statement's start, at the 2nd the          *)
(* statement is classified from its first two tokens and recorded as a     *)
(* sub-query, and a later INTO token turns a SELECT into SELECT_INTO.      *)
(* The code also requires (previous token) + 4 < end before comparing      *)
(* with "INTO"; in characters that always holds when the current token is  *)
(* the 4 letters INTO, so at symbol level the comparison alone decides.    *)
CountToken(n) ==
  LET kind == MADB_GetQueryType(text, tokens[Len(tokens)], p)
  IN CASE n = 1 ->
            /\ curQuery' = p
            /\ UNCHANGED <<stmtType, subQueries, returnsResult, queryType>>
       [] n = 2 ->
            /\ stmtType' = kind
            /\ returnsResult' = (returnsResult \/ kind \notin NoResultKinds)
            /\ subQueries' = Append(subQueries, [start |-> curQuery, type |-> kind])
            /\ queryType' = IF subQueries = <<>> THEN kind ELSE queryType
            /\ UNCHANGED curQuery
       [] n > 2 /\ stmtType = "SELECT" /\ Char(text, p) = "INTO" ->
            /\ stmtType' = "SELECT_INTO"
            /\ subQueries' = [subQueries EXCEPT ![Len(subQueries)].type = "SELECT_INTO"]
            /\ queryType' = IF Len(subQueries) = 1 THEN "SELECT_INTO" ELSE queryType
            /\ UNCHANGED <<curQuery, returnsResult>>
       [] OTHER ->
            UNCHANGED <<curQuery, stmtType, subQueries, returnsResult, queryType>>

(* Lines 524-575 and the ++p that follows: the switch on the token's first *)
(* character, one operator per case; n is the statement's token count.    *)

(* A quote opens a quoted token, skipped to its closing quote (backslash   *)
(* escapes honoured except in backticks), and the ++p steps past the      *)
(* closing quote.  With no closing quote, p goes back to SavePosition,     *)
(* just after the opening quote, and the ++p steps over one more character.*)
QuotedToken(n) ==
  LET q     == Char(text, p)
      close == IF q = "BACKTICK" THEN SkipQuotedString_Noescapes(text, p + 1, q)
                                 ELSE SkipQuotedString(text, p + 1, q)
  IN /\ IF close >= Len(text)
          THEN p' = p + 2 /\ reading' = FALSE
          ELSE p' = close + 1 /\ reading' = TRUE
     /\ stmtTokens' = n
     /\ UNCHANGED <<text, params, hasParameters>>

(* Mutant: the placeholder case does not step past the '?'.                *)
PlaceholderToken_NoAdvance(n) ==
  /\ params' = Append(params, p)
  /\ hasParameters' = TRUE
  /\ reading' = FALSE
  /\ p' = p
  /\ stmtTokens' = n
  /\ UNCHANGED text

(* A '?' is a complete token: its offset is recorded.                      *)
PlaceholderToken(n) ==
  /\ params' = Append(params, p)
  /\ hasParameters' = TRUE
  /\ reading' = FALSE
  /\ p' = p + 1
  /\ stmtTokens' = n
  /\ UNCHANGED text

(* A ';' that QueryIsPossiblyMultistmt accepts ends the statement, and is  *)
(* overwritten by the terminator when batches are allowed.                 *)
(* QueryIsPossiblyMultistmt is a macro of ma_odbc.h, outside this          *)
(* repository's sources: its answer is left free.                          *)
SeparatorToken(n) ==
  \E possiblyMultistmt \in BOOLEAN :
    /\ text' = IF possiblyMultistmt /\ batchAllowed
                 THEN [text EXCEPT ![p + 1] = NUL] ELSE text
    /\ stmtTokens' = IF possiblyMultistmt THEN 0 ELSE n
    /\ reading' = FALSE
    /\ p' = p + 1
    /\ UNCHANGED <<params, hasParameters>>

(* Any other character starts an ordinary token.                           *)
PlainToken(n) ==
  /\ reading' = TRUE
  /\ p' = p + 1
  /\ stmtTokens' = n
  /\ UNCHANGED <<text, params, hasParameters>>

DispatchFirstChar(n) ==
  CASE Char(text, p) \in Quotes -> QuotedToken(n)
    [] Char(text, p) = "?"     -> PlaceholderToken(n)
    [] Char(text, p) = ";"     -> SeparatorToken(n)
    [] OTHER                   -> PlainToken(n)

(* Mutant: SAVE_TOKEN after the switch instead of before it.              *)
TokenStart_SaveAfter ==
  /\ pc = "skip"
  /\ p >= Len(text) \/ SkipIteration(text, p) = p
  /\ CountToken(stmtTokens + 1)
  /\ DispatchFirstChar(stmtTokens + 1)
  /\ tokens' = Append(tokens, p')
  /\ pc' = "loop"
  /\ UNCHANGED <<input, batchAllowed>>

(* The rest of the gap branch, once SkipSpacesAndComments returns (at the  *)
(* end, or when its loop no longer moves p): SAVE_TOKEN(p), count and      *)
(* classify, then dispatch on the first character.                         *)
TokenStart ==
  /\ pc = "skip"
  /\ p >= Len(text) \/ SkipIteration(text, p) = p
  /\ tokens' = Append(tokens, p)
  /\ CountToken(stmtTokens + 1)
  /\ DispatchFirstChar(stmtTokens + 1)
  /\ pc' = "loop"
  /\ UNCHANGED <<input, batchAllowed>>

(* Mutant: the delimiter case forgets to clear ReadingToken.              *)
TokenEnd_KeepReading ==
  /\ pc = "loop"
  /\ p < Len(text)
  /\ reading
  /\ Char(text, p) \in TokenDelimiters
  /\ UNCHANGED vars

(* Inside a token: a delimiter ends it without moving p (continue).        *)
TokenEnd ==
  /\ pc = "loop"
  /\ p < Len(text)
  /\ reading
  /\ Char(text, p) \in TokenDelimiters
  /\ reading' = FALSE
  /\ UNCHANGED <<input, text, batchAllowed, p, pc, stmtTokens, stmtType,
                 curQuery, tokens, subQueries, params, hasParameters,
                 returnsResult, queryType>>

(* Inside a token: any other character belongs to it.                      *)
TokenChar ==
  /\ pc = "loop"
  /\ p < Len(text)
  /\ reading
  /\ Char(text, p) \notin TokenDelimiters
  /\ p' = p + 1
  /\ UNCHANGED <<input, text, batchAllowed, pc, reading, stmtTokens, stmtType,
                 curQuery, tokens, subQueries, params, hasParameters,
                 returnsResult, queryType>>

Next ==
  \/ ParseDone
  \/ GapBegin
  \/ SkipCommentsStep
  \/ TokenStart
  \/ TokenEnd
  \/ TokenChar

Spec == Init /\ [][Next]_vars

(* ParseQuery is one sequential loop: nothing else runs while it does, so  *)
(* the process keeps taking steps until it returns.                        *)
FairSpec == Spec /\ WF_vars(Next)

-----------------------------------------------------------------------------
(* Invariants of the tokenizer.                                            *)

TypeOK ==
  /\ input \in Seq(Symbols)
  /\ text \in Seq(Symbols \cup {NUL})
  /\ Len(text) = Len(input)
  /\ batchAllowed \in BOOLEAN
  /\ p \in 0..(Len(input) + 1)
  /\ pc \in {"loop", "skip", "done"}
  /\ reading \in BOOLEAN
  /\ stmtTokens \in Nat
  /\ stmtType \in QueryKinds
  /\ curQuery \in {NoOffset} \cup 0..Len(input)
  /\ tokens \in Seq(0..Len(input))
  /\ subQueries \in Seq([start : 0..Len(input), type : QueryKinds])
  /\ params \in Seq(0..Len(input))
  /\ hasParameters \in BOOLEAN
  /\ returnsResult \in BOOLEAN
  /\ queryType \in QueryKinds

(* The invariant the data model states for a Query (spec, section 3):      *)
(* token offsets are strictly increasing and point into the refined text   *)
(* (at most at its terminator); every recorded parameter offset holds a    *)
(* '?' of the refined text, in increasing order; and every sub-query       *)
(* starts at a recorded token, the sub-queries in increasing order.  It    *)
(* is about SAVE_TOKEN, the '?' case, the ';' overwrite and the comment    *)
(* blanking of ParseQuery and SkipSpacesAndComments.                       *)
TokensWellFormed ==
  /\ \A i \in 1..(Len(tokens) - 1) : tokens[i] < tokens[i + 1]
  /\ \A i \in 1..Len(params) : Char(text, params[i]) = "?"
  /\ \A i \in 1..(Len(params) - 1) : params[i] < params[i + 1]
  /\ \A k \in 1..Len(subQueries) : \E i \in 1..Len(tokens) : tokens[i] = subQueries[k].start
  /\ \A k \in 1..(Len(subQueries) - 1) : subQueries[k].start < subQueries[k + 1].start

(* The overall query type is always the type of the first sub-statement,   *)
(* including after a later INTO token reclassifies a SELECT: the           *)
(* "SubQuery.elements == 1" checks of the 2nd-token and INTO branches.     *)
QueryTypeIsFirstSubQuery ==
  Len(subQueries) > 0 => queryType = subQueries[1].type

(* The bookkeeping ParseQuery relies on between loop passes: the scan      *)
(* position stays inside the text while comments are skipped, every        *)
(* recorded token and placeholder lies behind it, CurQuery is a recorded   *)
(* token from the 1st token of a statement on, all sub-queries recorded    *)
(* before that token start before it, and from the 2nd token on the last   *)
(* sub-query is the current statement.  It is what makes the 2nd-token and *)
(* INTO branches of the counting code append and patch the right record.   *)
Bookkeeping ==
  /\ pc = "skip" => p <= Len(text)
  /\ \A i \in 1..Len(tokens) : tokens[i] < p
  /\ \A i \in 1..Len(params) : params[i] < p
  /\ stmtTokens >= 1 => \E i \in 1..Len(tokens) : tokens[i] = curQuery
  /\ stmtTokens = 1 => \A k \in 1..Len(subQueries) : subQueries[k].start < curQuery
  /\ stmtTokens >= 2 => /\ subQueries # <<>>
                        /\ subQueries[Len(subQueries)].start = curQuery

(* The inductive invariant of ParseQuery: TokensWellFormed and             *)
(* QueryTypeIsFirstSubQuery strengthened by the bookkeeping above.         *)
IInv == TypeOK /\ Bookkeeping /\ TokensWellFormed /\ QueryTypeIsFirstSubQuery

(* ParseQuery returns: every pass of its loop either moves p forward or    *)
(* ends the current token without moving (the "continue" of the token      *)
(* branch), and the latter is always followed by the gap branch, which     *)
(* moves p.                                                                *)
Termination == <>(pc = "done")

-----------------------------------------------------------------------------
(* ParseQuery implements the single forward pass of QueryScan: the scan   *)
(* position is the cursor, the refined text and the token and placeholder *)
(* records are the same, and the pass has returned at "done".  The        *)
(* comment blanking of SkipSpacesAndComments and the ';' overwrite write  *)
(* only at or after p, every branch of the loop that moves p moves it      *)
(* forward, SAVE_TOKEN records p, and the '?' case records p at a '?'.    *)
Scan == INSTANCE QueryScan WITH pos <- p, done <- (pc = "done"), Fillers <- {" ", NUL}

ScanRefined == Scan!Spec
=============================================================================
