----------------------------- MODULE Quotation -----------------------------
(***************************************************************************)
(* Data: each datum that main() gets from the parser is quoted, made into    *)
(* objects by the code of SExprASTNode::codeGen (src/codegen.cc), and written *)
(* by display (src/runtime/io.c), before the parser goes on.                 *)
(***************************************************************************)
EXTENDS Parser

VARIABLE shown    \* forms that display has written

allVars == <<vars, shown>>

\* "nil", "pair", or the text of an atom
Object(kind, car, cdr) == [kind |-> kind, car |-> car, cdr |-> cdr]

-----------------------------------------------------------------------------
(***************************************************************************)
(* codeGenNoBind of node n on a heap h: the heap with the objects added, and  *)
(* the one that stands for the node.  A list is made from its first pair on,  *)
(* the element of each before the next pair.                                *)
(***************************************************************************)
Made(h, o) == [heap |-> h, obj |-> o]

New(h, kind) == Made(Append(h, Object(kind, 0, 0)), Len(h) + 1)

RECURSIVE codeGen(_, _), Cells(_, _, _)

codeGen(h, n) ==
  LET x == nodes[n] IN
  CASE x.text # "list" -> New(h, x.text)
    [] x.text = "list" /\ x.args = <<>> -> New(h, "nil")
    [] OTHER -> Cells(h, x, 1)

\* the pairs for the elements from the i-th on
Cells(h, x, i) ==
  LET p == New(h, "pair")
      car == codeGen(p.heap, x.args[i])
      cdr == CASE i + 1 < Len(x.args) \/ (i + 1 = Len(x.args) /\ ~x.dotted) ->
                    Cells(car.heap, x, i + 1)
               [] i + 1 = Len(x.args) /\ x.dotted -> codeGen(car.heap, x.args[i + 1])
               [] OTHER -> New(car.heap, "nil")
  IN Made([cdr.heap EXCEPT ![p.obj] = Object("pair", car.obj, cdr.obj)], p.obj)

(***************************************************************************)
(* Some node is garbage, or ( . datum), which has one argument and is dotted: *)
(* codeGen takes args[0] for the car and args[1], which does not exist, for   *)
(* the cdr.                                                                 *)
(***************************************************************************)
Unusable(n) ==
  LET P[m \in 0..Len(nodes)] ==
        IF m = Garbage THEN TRUE
        ELSE \/ nodes[m].dotted /\ Len(nodes[m].args) = 1
             \/ \E k \in 1..Len(nodes[m].args) : P[nodes[m].args[k]]
  IN P[n]

-----------------------------------------------------------------------------
RECURSIVE displayListed(_, _, _)

\* mutant: a list in the cdr is written like one in the car
displayListed(h, o, fp) ==
  LET x == h[o]
      cdr == h[x.cdr]
      rest == CASE cdr.kind = "nil" -> <<>>
                [] cdr.kind = "pair" -> displayListed(h, x.cdr, FALSE)
                [] OTHER -> <<".">> \o displayListed(h, x.cdr, FALSE)
      all == displayListed(h, x.car, FALSE) \o rest
  IN CASE x.kind = "nil" -> <<"(", ")">>
       [] x.kind = "pair" -> IF fp THEN all ELSE <<"(">> \o all \o <<")">>
       [] OTHER -> <<x.kind>>

RECURSIVE display(_, _, _)

\* _display; fp says that a pair continues the list around it
display(h, o, fp) ==
  LET x == h[o]
      cdr == h[x.cdr]
      rest == CASE cdr.kind = "nil" -> <<>>
                [] cdr.kind = "pair" -> display(h, x.cdr, TRUE)
                [] OTHER -> <<".">> \o display(h, x.cdr, TRUE)
      all == display(h, x.car, FALSE) \o rest
  IN CASE x.kind = "nil" -> <<"(", ")">>
       [] x.kind = "pair" -> IF fp THEN all ELSE <<"(">> \o all \o <<")">>
       [] OTHER -> <<x.kind>>

-----------------------------------------------------------------------------

Pending == shown < Len(forms)

Newest == Last(forms).node

\* what display writes for a node; it depends on nothing that changes later
Output(n) == LET d == codeGen(<<>>, n) IN display(d.heap, d.obj, FALSE)

Show ==
  /\ Pending /\ ~Unusable(Newest)
  /\ shown' = shown + 1
  /\ UNCHANGED vars

\* a node nobody assigned, or an argument that is not there
ShowUndefined ==
  /\ Pending /\ Unusable(Newest)
  /\ pc' \in {pc, "fault"}
  /\ shown' = shown + 1
  /\ UNCHANGED <<input, fetched, pos, nodes, calls, ret, forms>>

QTypeOK == TypeOK /\ shown \in 0..Len(forms)

QInit == Init /\ shown = 0

QNext ==
  \/ ~Pending /\ Next /\ UNCHANGED shown
  \/ Show
  \/ ShowUndefined

QSpec == QInit /\ [][QNext]_allVars /\ WF_allVars(QNext)

-----------------------------------------------------------------------------

(***************************************************************************)
(* The reference: the value of a sequence of tokens that is one datum, pairs   *)
(* and all, from the splits of R5RS 7.1.2.                                   *)
(***************************************************************************)
Pair(a, d) == <<"pair", a, d>>
Nil == <<"nil">>

Matches(s, a, b) ==
  LET depth(k) == Cardinality({j \in a..k : s[j] = "("}) - Cardinality({j \in a..k : s[j] = ")"})
  IN depth(b) = 0 /\ \A k \in a..(b - 1) : depth(k) > 0

\* where the datum at a ends
RECURSIVE EndsAt(_, _)
EndsAt(s, a) == CASE s[a] = "'" -> EndsAt(s, a + 1)
                  [] s[a] = "(" -> CHOOSE b \in a..Len(s) : Matches(s, a, b)
                  [] OTHER -> a

\* the datum at a, and the rest of a list from a on
RECURSIVE Reading(_, _), Listing(_, _)
Reading(s, a) == CASE s[a] = "'" -> Pair(<<"quote">>, Pair(Reading(s, a + 1), Nil))
                   [] s[a] = "(" -> Listing(s, a + 1)
                   [] OTHER -> <<s[a]>>
Listing(s, a) == CASE s[a] = ")" -> Nil
                   [] s[a] = "." -> Reading(s, a + 1)
                   [] OTHER -> Pair(Reading(s, a), Listing(s, EndsAt(s, a) + 1))

(***************************************************************************)
(* What display writes of a quoted datum reads as the datum that was written, *)
(* however the two are abbreviated: the parser's nodes, the pairs made from   *)
(* them and the output agree.  Left out is what starts a list with a dot.     *)
(***************************************************************************)
ShownReadsSame ==
  \A k \in 1..shown :
    Unusable(forms[k].node) \/
      Reading(Output(forms[k].node), 1) = Reading(SubSeq(input, Start(k) + 1, forms[k].end), 1)
=============================================================================
