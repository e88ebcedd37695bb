------------------------------ MODULE QueryScan ------------------------------
(***************************************************************************)
(* What ParseQuery (src/ma_parse.c) promises of its pass over a query,     *)
(* abstracted from how it tokenizes: one cursor moves forward through the  *)
(* refined text, from offset 0 to at most one past its end, and stops     *)
(* once it has reached the end.  A step may record a token at the cursor, *)
(* and a placeholder there when the character at the cursor is a '?'.    *)
(* The text keeps its length, and only cells at or after the cursor are  *)
(* ever overwritten, each with one of the Fillers (the blank of a comment *)
(* or the terminator of a statement): what the cursor has passed is the   *)
(* text the records were made from.                                       *)
(***************************************************************************)
EXTENDS Integers, Sequences

CONSTANTS
  Inputs,   \* the query texts, as sequences of symbols
  Fillers   \* what the pass may write over a cell of the text

VARIABLES
  text,     \* the refined text
  pos,      \* the cursor: the offset of the next character to read
  tokens,   \* offsets of the recorded tokens
  params,   \* offsets of the recorded placeholders
  done      \* the pass has returned

avars == <<text, pos, tokens, params, done>>

\* u is t with cells after the first from of them overwritten by Fillers.
Rewritten(t, u, from) ==
  /\ Len(u) = Len(t)
  /\ \A k \in 1..Len(t) : u[k] # t[k] => k > from /\ u[k] \in Fillers

Init ==
  /\ text \in Inputs
  /\ pos = 0
  /\ tokens = << >>
  /\ params = << >>
  /\ done = FALSE

\* A step of the pass: the cursor moves forward, the text ahead of it may
\* be overwritten, and a token (and a placeholder at a '?') may be
\* recorded at the cursor's offset before the move.
Advance ==
  /\ ~done
  /\ pos' \in (pos + 1)..(Len(text) + 1)
  /\ Rewritten(text, text', pos)
  /\ \/ UNCHANGED <<tokens, params>>
     \/ /\ tokens' = Append(tokens, pos)
        /\ \/ params' = params
           \/ /\ pos < Len(text) /\ text[pos + 1] = "?"
              /\ params' = Append(params, pos)
  /\ UNCHANGED done

\* The pass returns once the cursor is at or past the end.
Finish ==
  /\ ~done
  /\ pos >= Len(text)
  /\ done' = TRUE
  /\ UNCHANGED <<text, pos, tokens, params>>

Next == Advance \/ Finish

Spec == Init /\ [][Next]_avars
=============================================================================
