-------------------------- MODULE MC_QueryTokenizer --------------------------
(***************************************************************************)
(* Model-checking harness for QueryTokenizer: the query texts ParseQuery   *)
(* is run on, and a reference lexer written from the description of the    *)
(* scanner in spec.md (sections 4.1 and 4.3), against which the refined    *)
(* text and the placeholder list that ParseQuery produces are compared.    *)
(* The reference is recursive, so it lives here and not in the module the  *)
(* proofs are about.                                                       *)
(***************************************************************************)
EXTENDS QueryTokenizer

-----------------------------------------------------------------------------
(* Inputs.  MADB_ParseQuery hands ParseQuery a text that SqlRtrim has      *)
(* stripped of trailing whitespace and ';' and that SkipSpacesAndComments  *)
(* (without overwriting) has advanced past leading whitespace and comments.*)

(* Bound: the length of the texts of the lexing runs.                      *)
MaxLen == 5

(* Texts as ParseQuery receives them.                                      *)
Prepared(s) ==
  Len(s) > 0 =>
    /\ s[1] \notin Whitespace \cup {"#"}
    /\ Len(s) > 1 => ~(<<s[1], s[2]>> \in {<<"-", "-">>, <<"/", "*">>})
    /\ s[Len(s)] \notin Whitespace \cup {";"}

TextsOver(A, n) == { s \in UNION {[1..k -> A] : k \in 0..n} : Prepared(s) }

(* Backslash-escaped strings, '#' comments ended by a newline (which is   *)
(* also the whitespace of this alphabet) and ';' separators.               *)
LexAlphabet == {"x", "\n", "'", "\\", "?", ";", "#"}
(* Backtick identifiers, double quotes, "--" line comments running to the *)
(* end, block comments, and '-' and '/' as delimiters.                     *)
BlockAlphabet == {"x", "\"", "BACKTICK", "?", "-", "/", "*"}

MCInputsLex == TextsOver(LexAlphabet, MaxLen)
MCInputsBlock == TextsOver(BlockAlphabet, MaxLen)
MCInputsLexBlock == MCInputsLex \cup MCInputsBlock

(* Classification: words separated by one space or one ';'.  Bound: at    *)
(* most four words, enough for "x;SELECT x INTO" and for "SELECT x x INTO".*)
MaxWords == 4
Words == {"x", "SELECT", "INTO", "CREATE", "PROCEDURE", "SET", "NAMES"}
Separators == {" ", ";"}
Joined(ws, ss) ==
  [i \in 1..(2 * Len(ws) - 1) |->
     IF i % 2 = 1 THEN ws[(i + 1) \div 2] ELSE ss[i \div 2]]
MCInputsWords ==
  { Joined(ws, ss) : ws \in UNION {[1..n -> Words] : n \in 1..MaxWords},
                     ss \in [1..(MaxWords - 1) -> Separators] }

(* QUERY_DOESNT_RETURN_RESULT of ma_odbc.h: the kinds that precede SELECT  *)
(* in enum_madb_query_type.                                                *)
MCNoResultKinds == {"NO_RESULT", "INSERT", "UPDATE", "DELETE", "CREATE_PROC",
                    "CREATE_FUNC", "CREATE_DEFINER", "SET", "SET_NAMES"}

-----------------------------------------------------------------------------
(* Reference lexer, character by character: the class of every offset of  *)
(* a text.  "str": inside a quoted run, delimiters included; "cmt": inside *)
(* a comment, its closing newline or star-slash included; "open": a quote  *)
(* with no closing quote, after which scanning resumes at the next         *)
(* character as non-string content (section 4.1); "code": anything else.  *)

RECURSIVE RefQuoteEnd(_, _, _)
RefQuoteEnd(t, j, q) ==
  IF j >= Len(t) THEN Len(t)
  ELSE IF t[j + 1] = q THEN j
  ELSE IF t[j + 1] = "\\" /\ q # "BACKTICK" THEN RefQuoteEnd(t, j + 2, q)
  ELSE RefQuoteEnd(t, j + 1, q)

RECURSIVE RefLineEnd(_, _)
RefLineEnd(t, j) ==
  IF j >= Len(t) THEN Len(t)
  ELSE IF t[j + 1] = "\n" THEN j + 1
  ELSE RefLineEnd(t, j + 1)

RECURSIVE RefBlockEnd(_, _)
RefBlockEnd(t, j) ==
  IF j + 1 >= Len(t) THEN Len(t)
  ELSE IF t[j + 1] = "*" /\ t[j + 2] = "/" THEN j + 2
  ELSE RefBlockEnd(t, j + 1)

Run(cls, n) == [k \in 1..n |-> cls]

RECURSIVE RefClasses(_, _)
RefClasses(t, i) ==
  IF i >= Len(t) THEN <<>>
  ELSE LET c == t[i + 1]
           d == IF i + 1 < Len(t) THEN t[i + 2] ELSE NUL
       IN IF c \in Quotes
            THEN LET e == RefQuoteEnd(t, i + 1, c)
                 IN IF e < Len(t) THEN Run("str", e - i + 1) \o RefClasses(t, e + 1)
                                  ELSE <<"open">> \o RefClasses(t, i + 1)
          ELSE IF c = "#" \/ (c = "-" /\ d = "-")
            THEN LET e == RefLineEnd(t, IF c = "#" THEN i + 1 ELSE i + 2)
                 IN Run("cmt", e - i) \o RefClasses(t, e)
          ELSE IF c = "/" /\ d = "*"
            THEN LET e == RefBlockEnd(t, i + 2)
                 IN Run("cmt", e - i) \o RefClasses(t, e)
          ELSE <<"code">> \o RefClasses(t, i + 1)

Classes == RefClasses(input, 0)

(* Every quote of the input is closed, for the reference lexer.            *)
QuotesClosed == \A k \in 1..Len(input) : Classes[k] # "open"

-----------------------------------------------------------------------------
(* Properties checked against the reference lexer.                         *)

(* When ParseQuery returns on a text whose quotes are all closed, the      *)
(* recorded parameter offsets are exactly the '?' characters outside       *)
(* strings and comments: the '?' case of the gap branch, the '?'           *)
(* delimiter of the token branch, the quote skipping and the comment       *)
(* skipping must agree for this to hold.                                   *)
ParamsMatchLexer ==
  pc = "done" /\ QuotesClosed =>
    { params[i] : i \in 1..Len(params) } =
      { k \in 0..(Len(input) - 1) : Classes[k + 1] = "code" /\ input[k + 1] = "?" }

(* When ParseQuery returns on a text whose quotes are all closed, the      *)
(* refined text differs from the input exactly in its comments, blanked    *)
(* to spaces by SkipSpacesAndComments, and possibly in ';' separators      *)
(* outside strings and comments, overwritten by the terminator only when   *)
(* batches are allowed; string literals come through untouched.            *)
RefinedTextMatchesLexer ==
  pc = "done" /\ QuotesClosed =>
    \A k \in 1..Len(input) :
      CASE Classes[k] = "cmt" -> text[k] = " "
        [] Classes[k] = "code" /\ input[k] = ";" ->
             text[k] \in {";"} \cup (IF batchAllowed THEN {NUL} ELSE {})
        [] OTHER -> text[k] = input[k]

-----------------------------------------------------------------------------
(* Properties the violation runs check.                                    *)

(* Section 4.1: a quote with no closing quote is a recoverable condition:  *)
(* the tokenizer resumes after the quote and treats the rest as            *)
(* non-string content, so a '?' right after it is still a placeholder.     *)
(* ParseQuery resets p to just after the quote and then its loop's ++p     *)
(* skips that character as well.                                           *)
UnclosedQuoteParamsFound ==
  pc = "done" =>
    { k \in 0..(Len(input) - 1) : Classes[k + 1] = "code" /\ input[k + 1] = "?" }
      \subseteq { params[i] : i \in 1..Len(params) }

=============================================================================
