------------------------------- MODULE MCHeap -------------------------------
(***************************************************************************)
(* Four kinds of programs, with room for two or three objects more than they  *)
(* start with: one makes lists and circles and asks for their length, one     *)
(* makes vectors, one has a big number for an index, and one makes strings.                    *)
(***************************************************************************)
EXTENDS Strings

nil == Obj("nil", 0, <<>>)

\* addresses 4, 5, ... come after the globals
MCLists ==
  [calls |-> {"cons", "set-cdr!", "list?", "length", "list-ref"},
   given |-> <<nil, Obj("small", 1, <<>>)>>, max |-> 8]

MCVectors ==
  [calls |-> {"list", "set-car!", "vector?", "vector-length", "make-vector", "vector",
              "vector-ref", "vector->list"},
   given |-> <<Obj("small", 1, <<>>), Obj("vector", 2, <<4, unspec>>)>>, max |-> 8]

MCBig ==
  [calls |-> {"cons", "car", "cdr", "set-cdr!", "null?", "pair?", "length", "list-ref",
              "make-vector", "vector-ref"},
   given |-> <<nil, Obj("big", 0, <<>>)>>, max |-> 7]

\* a string "aB", a symbol named "bA", and the ends of the first
MCStrings ==
  [calls |-> StringOps,
   given |-> <<Obj("small", 1, <<>>), Obj("string", 0, <<>>), Obj("symbol", 3, <<>>)>>,
   max |-> 8]

MCData == [a \in 0..5 |-> <<1, 12, 0, 2, 11, 0>>[a + 1]]

MCPrograms == {MCLists, MCVectors, MCBig, MCStrings}

MCBigPrograms == {MCBig}

MCPointerBits == {-1, 0, 1}
=============================================================================
