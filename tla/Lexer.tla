------------------------------- MODULE Lexer -------------------------------
(***************************************************************************)
(* The lexer (src/lexer.cc) on its stream of characters (src/codestream.cc). *)
(* The parser asks for one token after the other until the end of the input  *)
(* or an Error.  Every step looks at the current character, so that the      *)
(* stream has read it, and most consume it.                                  *)
(***************************************************************************)
EXTENDS Characters

CONSTANT Inputs    \* bound: the texts

ASSUME InputsAssumption == Inputs \subseteq Seq(STRING)

VARIABLES
  input,
  pos,      \* characters consumed
  taken,    \* get() calls on the istream: one more than pos while `avail'
  pc,       \* "idle" between tokens, or the place in nextToken and its helpers
  text,     \* the text of the token so far
  tokens    \* the tokens returned, with the position behind each

lexVars == <<input, pos, taken, pc, text, tokens>>

Places == {"next", "ident", "sign", "number", "digits", "dot", "dots", "ellipsis",
           "comment", "string", "pound", "bool"}

TokenTypes == {"EOF", "LPAREN", "RPAREN", "QUOTE", "SYMBOL", "NUMBER", "PERIOD",
               "STRING", "BOOL"}

LexTypeOK ==
  /\ input \in Inputs
  /\ pos \in 0..Len(input)
  /\ taken \in {pos, pos + 1}
  /\ pc \in {"idle", "error"} \cup Places
  /\ text \in Seq(STRING)
  /\ tokens \in Seq([type : TokenTypes, text : Seq(STRING), end : Nat])

LexInit ==
  /\ input \in Inputs
  /\ pos = 0 /\ taken = 0
  /\ pc = "idle"
  /\ text = <<>> /\ tokens = <<>>

-----------------------------------------------------------------------------

curChar == IF pos < Len(input) THEN input[pos + 1] ELSE EOF

isDelimiter == curChar \in Delimiter

\* curChar() without consume()
peek == taken' = pos + 1 /\ UNCHANGED pos

\* mutant: the next character is read at once
consumeAndFill ==
  /\ pos' = IF pos < Len(input) THEN pos + 1 ELSE pos
  /\ taken' = pos' + 1

\* mutant: the end of the input is consumed like a character
consumePastEnd == pos' = pos + 1 /\ taken' = pos + 1

\* at the end of the input the character stays
consume ==
  /\ pos' = IF pos < Len(input) THEN pos + 1 ELSE pos
  /\ taken' = pos + 1

\* sym += curChar(); the -1s that a loop adds behind the end are left out
grown == IF pos < Len(input) THEN Append(text, curChar) ELSE text

Return(type, w) ==
  /\ tokens' = Append(tokens, [type |-> type, text |-> w, end |-> pos'])
  /\ pc' = "idle"
  /\ text' = <<>>
  /\ UNCHANGED input

GoTo(place, w) ==
  /\ pc' = place
  /\ text' = w
  /\ UNCHANGED <<input, tokens>>

Throw == peek /\ GoTo("error", text)

Ended == tokens # <<>> /\ tokens[Len(tokens)].type = "EOF"

\* the parser's call
nextToken ==
  /\ pc = "idle" /\ ~Ended
  /\ GoTo("next", <<>>)
  /\ UNCHANGED <<pos, taken>>

AtEnd == pc = "next" /\ curChar = EOF /\ peek /\ Return("EOF", <<>>)

SkipSpace == pc = "next" /\ curChar \in Space /\ consume /\ GoTo("next", <<>>)

Punctuation ==
  /\ pc = "next"
  /\ consume
  /\ \/ curChar = "(" /\ Return("LPAREN", <<"(">>)
     \/ curChar = ")" /\ Return("RPAREN", <<")">>)
     \/ curChar = "'" /\ Return("QUOTE", <<"'">>)

InvalidCharacter ==
  /\ pc = "next"
  /\ curChar \notin Space \cup Digit \cup Initial
                     \cup {EOF, "(", ")", "'", "+", "-", ".", ";", "\"", "#"}
  /\ Throw

\* mutant: a character that cannot continue an identifier ends it
getIdentifierLax ==
  \/ /\ \/ pc = "next" /\ curChar \in Initial
        \/ pc = "ident" /\ curChar \in Subsequent
     /\ consume /\ GoTo("ident", grown)
  \/ /\ pc = "ident" /\ curChar \notin Subsequent
     /\ peek /\ Return("SYMBOL", text)

getIdentifier ==
  \/ /\ \/ pc = "next" /\ curChar \in Initial
        \/ pc = "ident" /\ curChar \in Subsequent
     /\ consume /\ GoTo("ident", grown)
  \/ /\ pc = "ident" /\ curChar \notin Subsequent
     /\ \/ isDelimiter /\ peek /\ Return("SYMBOL", text)
        \/ ~isDelimiter /\ Throw

getPeculiarIdentifier ==
  \/ pc = "next" /\ curChar \in {"+", "-"} /\ consume /\ GoTo("sign", grown)
  \/ /\ pc = "sign" /\ peek
     /\ \/ isDelimiter /\ Return("SYMBOL", text)
        \/ ~isDelimiter /\ GoTo("number", text)

\* do ... while: the first character is taken whatever it is
getNumber ==
  \/ /\ \/ pc = "next" /\ curChar \in Digit
        \/ pc = "number"
        \/ pc = "digits" /\ ~isDelimiter
     /\ consume /\ GoTo("digits", grown)
  \/ pc = "digits" /\ isDelimiter /\ peek /\ Return("NUMBER", text)

getDot ==
  \/ pc = "next" /\ curChar = "." /\ consume /\ GoTo("dot", grown)
  \/ pc = "dot" /\ isDelimiter /\ peek /\ Return("PERIOD", text)
  \/ pc = "dot" /\ curChar = "." /\ consume /\ GoTo("dots", grown)
  \/ pc = "dot" /\ ~isDelimiter /\ curChar # "." /\ peek /\ GoTo("number", text)
  \/ pc = "dots" /\ curChar = "." /\ consume /\ GoTo("ellipsis", grown)
  \/ pc = "dots" /\ curChar # "." /\ Throw
  \/ pc = "ellipsis" /\ isDelimiter /\ peek /\ Return("SYMBOL", text)
  \/ pc = "ellipsis" /\ ~isDelimiter /\ Throw

\* a comment ends with its line, never with the input
skipComment ==
  \/ pc = "next" /\ curChar = ";" /\ consume /\ GoTo("comment", <<>>)
  \/ pc = "comment" /\ curChar \notin LineEnd /\ consume /\ GoTo("comment", <<>>)
  \/ pc = "comment" /\ curChar \in LineEnd /\ consume /\ GoTo("next", <<>>)

getString ==
  \/ pc = "next" /\ curChar = "\"" /\ consume /\ GoTo("string", <<>>)
  \/ pc = "string" /\ curChar # "\"" /\ consume /\ GoTo("string", grown)
  \/ pc = "string" /\ curChar = "\"" /\ consume /\ Return("STRING", text)

getPoundSpecial ==
  \/ pc = "next" /\ curChar = "#" /\ consume /\ GoTo("pound", grown)
  \/ pc = "pound" /\ curChar \in {"t", "f"} /\ consume /\ GoTo("bool", grown)
  \/ pc = "pound" /\ curChar \in Radix \cup Exactness /\ peek /\ GoTo("number", text)
  \/ pc = "pound" /\ curChar \notin {"t", "f"} \cup Radix \cup Exactness /\ Throw
  \/ pc = "bool" /\ isDelimiter /\ peek /\ Return("BOOL", text)
  \/ pc = "bool" /\ ~isDelimiter /\ Throw

LexNext ==
  \/ nextToken \/ AtEnd \/ SkipSpace \/ Punctuation \/ InvalidCharacter
  \/ getIdentifier \/ getPeculiarIdentifier \/ getNumber \/ getDot
  \/ skipComment \/ getString \/ getPoundSpecial

-----------------------------------------------------------------------------

(***************************************************************************)
(* When a token is returned, no character behind it has been asked for,      *)
(* except the one that shows where a symbol, a number, a boolean or a dot     *)
(* ends; so a list typed at the prompt is complete with its parenthesis.      *)
(***************************************************************************)
ReadsNoFurther ==
  pc = "idle" /\ tokens # <<>> =>
    LET t == tokens[Len(tokens)] IN
    /\ pos = t.end
    /\ taken = IF t.type \in {"LPAREN", "RPAREN", "QUOTE", "STRING"}
               THEN pos ELSE pos + 1

(***************************************************************************)
(* The lexer implements the scanner: it returns exactly the tokens of the     *)
(* text, throws exactly where the scanner fails, and its loops come to an end *)
(* unless the input ends inside a number, a string or a comment.             *)
(***************************************************************************)
ScannerSpec == INSTANCE Scanner WITH failed <- (pc = "error")

ImplementsScanner == ScannerSpec!Spec
=============================================================================
