----------------------------- MODULE Characters -----------------------------
(***************************************************************************)
(* The classes of characters that src/lexer.cc tells apart.  A character is  *)
(* a string of length one.  getchar() returns -1 at the end of the input and *)
(* for a byte 255, so the two are one value; the other bytes above 127, on   *)
(* which isalpha() is undefined, are left out.                              *)
(***************************************************************************)
EXTENDS Integers, Sequences

EOF == "-1"

Space == {" ", "\t", "\n", "\r"}

LineEnd == {"\r", "\n"}

Digit == {"0", "1", "2", "3", "4", "5", "6", "7", "8", "9"}

Letter ==
  {"a", "b", "c", "d", "e", "f", "g", "h", "i", "j", "k", "l", "m",
   "n", "o", "p", "q", "r", "s", "t", "u", "v", "w", "x", "y", "z",
   "A", "B", "C", "D", "E", "F", "G", "H", "I", "J", "K", "L", "M",
   "N", "O", "P", "Q", "R", "S", "T", "U", "V", "W", "X", "Y", "Z"}

SpecialInitial ==
  {"!", "$", "%", "&", "*", "/", ":", "<", "=", ">", "?", "^", "_", "~"}

Initial == Letter \cup SpecialInitial

Subsequent == Initial \cup Digit \cup {"+", "-", ".", "@"}

\* neither the quote nor the end of the input is one
Delimiter == Space \cup {"\"", "(", ")", ";"}

\* what follows # in a number
Radix == {"b", "o", "d", "x"}
Exactness == {"i", "e"}
=============================================================================
