------------------------------ MODULE MCParser ------------------------------
(***************************************************************************)
(* Inputs for the parser: all short ones, and longer ones without the tokens  *)
(* that only add variety; each shorter one also with a token that has no end. *)
(***************************************************************************)
EXTENDS Quotation

Upto(S, n) == UNION {[1..k -> S] : k \in 0..n}

Short == Upto({"a", "b", "(", ")", "'", ".", "bad"}, 4)
Long  == Upto({"a", "(", ")", "'", "."}, 6)

Unended(S) == {Append(s, "unended") : s \in S}

MCInputs ==
  Short \cup Long \cup Unended(Upto({"a", "b", "(", ")", "'", ".", "bad"}, 3))
        \cup Unended(Upto({"a", "(", ")", "'", "."}, 5))
=============================================================================
