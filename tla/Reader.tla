------------------------------- MODULE Reader -------------------------------
(***************************************************************************)
(* Text to values: the lexer, and what becomes of its number and string      *)
(* tokens.  A program made of constants runs once it has been read: a number  *)
(* stands for itself, a string is passed to string->number, and each number   *)
(* that comes out is displayed.                                             *)
(***************************************************************************)
EXTENDS Lexer, Numeral

CONSTANT Radices    \* bound: second arguments of string->number

\* number.c checks nothing of them; above 36, GMP tells A from a
ASSUME RadicesAssumption == Radices \subseteq 2..36

VARIABLE ran        \* constants that have run, or are running

vars == <<input, pos, taken, pc, text, tokens, conv, ran>>

TypeOK == LexTypeOK /\ conv \in Conversion /\ ran \in 0..Len(tokens)

Init == LexInit /\ conv = Idle /\ ran = 0

IsProgram == Ended /\ \A k \in 1..Len(tokens) : tokens[k].type \in {"NUMBER", "STRING", "EOF"}

Run ==
  LET t == tokens[ran + 1] IN
  /\ IsProgram /\ ran < Len(tokens)
  /\ conv.out \notin {"trap", "error"} /\ ~Displays
  /\ \/ t.type = "NUMBER" /\ Literal(t.text)
     \/ t.type = "STRING" /\ \E r \in Radices : string2number(t.text, r)
  /\ ran' = ran + 1
  /\ UNCHANGED lexVars

Lex == LexNext /\ UNCHANGED <<conv, ran>>

Next ==
  \/ Lex
  \/ Run
  \/ Convert /\ UNCHANGED <<lexVars, ran>>

\* nothing but its own steps can keep the lexer from going on
Spec == Init /\ [][Next]_vars /\ WF_vars(Lex)
=============================================================================
