------------------------------ MODULE Scanner ------------------------------
(***************************************************************************)
(* What the lexer promises: the tokens of a text, one at a time, each by      *)
(* looking at the whole text.  A token is a parenthesis, a quote, a string,   *)
(* or the longest run of characters that are no delimiters; what kind of      *)
(* token a run is depends on the run alone.                                  *)
(***************************************************************************)
EXTENDS Characters

VARIABLES
  input,
  tokens,   \* those returned so far, with the position each one ends at
  failed    \* an Error was thrown

vars == <<input, tokens, failed>>

Token(type, text, end) == [type |-> type, text |-> text, end |-> end]

PunctuationType(c) ==
  CASE c = "(" -> "LPAREN" [] c = ")" -> "RPAREN" [] c = "'" -> "QUOTE"

\* the first position from p on with a character of S next, or the end of the text
FirstFrom(p, S) ==
  LET ks == {k \in p..(Len(input) - 1) : input[k + 1] \in S}
  IN IF ks = {} THEN Len(input) ELSE CHOOSE k \in ks : \A j \in ks : k <= j

(***************************************************************************)
(* Where the token after position p begins, behind blanks and comments; -1   *)
(* behind a comment that no line end closes.                                 *)
(***************************************************************************)
Begins(p) ==
  LET B[q \in 0..Len(input)] ==
        CASE q < Len(input) /\ input[q + 1] \in Space -> B[q + 1]
          [] q < Len(input) /\ input[q + 1] = ";" ->
               LET e == FirstFrom(q, LineEnd)
               IN IF e = Len(input) THEN -1 ELSE B[e + 1]
          [] OTHER -> q
  IN B[p]

IsIdentifier(w) ==
  \/ w \in {<<"+">>, <<"-">>, <<".", ".", ".">>}
  \/ w[1] \in Initial /\ \A k \in 1..Len(w) : w[k] \in Subsequent

IsBoolean(w) == w \in {<<"#", "t">>, <<"#", "f">>}

IsNumber(w) ==
  \/ w[1] \in Digit
  \/ Len(w) > 1 /\ \/ w[1] \in {"+", "-"}
                   \/ w[1] = "." /\ w[2] # "."
                   \/ w[1] = "#" /\ w[2] \in Radix \cup Exactness

RunType(w) == CASE IsIdentifier(w) -> "SYMBOL"
                [] IsBoolean(w) -> "BOOL"
                [] IsNumber(w) -> "NUMBER"
                [] w = <<".">> -> "PERIOD"
                [] OTHER -> "error"

(***************************************************************************)
(* The token that begins at q.  A run that the end of the text cuts short is  *)
(* an error if it can only be an identifier or a boolean, and never becomes   *)
(* a token ("waits") if it may still be a number; so does an open string.     *)
(***************************************************************************)
TokenAt(q) ==
  LET c == input[q + 1]
      e == FirstFrom(q, Delimiter)
      w == SubSeq(input, q + 1, e)
      s == FirstFrom(q + 1, {"\""})
  IN IF q = Len(input) \/ c = EOF THEN Token("EOF", <<>>, q)
     ELSE CASE c \in {"(", ")", "'"} -> Token(PunctuationType(c), <<c>>, q + 1)
            [] c = "\"" /\ s < Len(input) -> Token("STRING", SubSeq(input, q + 2, s), s + 1)
            [] c = "\"" /\ s = Len(input) -> Token("waits", <<>>, q)
            [] OTHER ->
                 CASE e < Len(input) -> Token(RunType(w), w, e)
                   [] e = Len(input) /\ (IsNumber(w) \/ w \in {<<"+">>, <<"-">>, <<".">>}) ->
                        Token("waits", <<>>, q)
                   [] OTHER -> Token("error", <<>>, q)

Last == IF tokens = <<>> THEN Token("none", <<>>, 0) ELSE tokens[Len(tokens)]

Upcoming ==
  IF Begins(Last.end) = -1 THEN Token("waits", <<>>, 0) ELSE TokenAt(Begins(Last.end))

Asked == ~failed /\ Last.type # "EOF"

Init ==
  /\ input \in Seq(STRING)
  /\ tokens = <<>>
  /\ failed = FALSE

Scan ==
  /\ Asked
  /\ Upcoming.type \notin {"waits", "error"}
  /\ tokens' = Append(tokens, Upcoming)
  /\ UNCHANGED <<input, failed>>

Fail ==
  /\ Asked
  /\ Upcoming.type = "error"
  /\ failed' = TRUE
  /\ UNCHANGED <<input, tokens>>

Next == Scan \/ Fail

Spec == Init /\ [][Next]_vars /\ WF_vars(Next)
=============================================================================
