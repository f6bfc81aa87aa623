------------------------------ MODULE MCReader ------------------------------
(***************************************************************************)
(* Texts for the reader: all short ones over one character of each class,     *)
(* longer ones over the characters that meet in one token, and numerals, each *)
(* as a number in the program and some as strings.                          *)
(***************************************************************************)
EXTENDS Reader

Upto(S, n) == UNION {[1..k -> S] : k \in 0..n}

Mixed ==
  Upto({" ", "(", "'", "+", ".", ";", "\"", "#", "t", "1", "@", EOF}, 3)
    \cup Upto({".", "-", "1", " "}, 4)
    \cup Upto({"#", "f", "e", ")"}, 4)
    \cup Upto({";", "\n", "\"", "a"}, 4)

\* 10 to the power of two digits is beyond TLC's integers
SmallExponent(w) ==
  ~\E k \in 1..(Len(w) - 2) : w[k] = "e" /\ \E j \in {k + 1, k + 2} :
     j < Len(w) /\ w[j] \in Digit /\ w[j + 1] \in Digit

Numerals ==
  {w \in Upto({"1", "0", "-", "i", "/"}, 4)
           \cup Upto({"1", ".", "#", "e", "-"}, 4)
           \cup Upto({"#", "x", "i", "f", "+"}, 4)
           \cup {<<"#", "e">> \o v : v \in Upto({"5", ".", "#", "e", "-"}, 3)} :
     SmallExponent(w)}

Strings == Upto({"1", "f", "i", "+", "/"}, 3) \cup Upto({"e", "1", "#", "b", "d"}, 3)

\* exponents at the limit, fractions of two parts, bytes behind a whole number
Longer ==
  {<<"#", "e", "1", "e", "-", "0", "0", "0", "1">>, <<"#", "e", "1", "e", "0", "0", "0", "2">>,
   <<"1", "/", "2", "-", "3", "/", "4", "i">>, <<"1", "#", "/", "2">>, <<"1", "/", "2", "#">>,
   <<"#", "i", "1", "/", "0">>, <<"#", "x", "#", "i", "f", "/", "2">>, <<"-", "2", "i", "3", "i">>,
   <<"#", "i", "1", "/", "2", "+", "0", "i">>, <<"1", "+", "0", ".", "i">>,
   <<"1", ".", "-", "0", "i">>}

MCInputs ==
  Mixed \cup {w \o <<" ">> : w \in Numerals \cup Longer}
    \cup {<<"\"">> \o w \o <<"\"">> : w \in {v \in Strings : SmallExponent(v)}}

MCRadices == {2, 10, 16}
=============================================================================
