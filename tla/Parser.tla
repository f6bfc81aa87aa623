------------------------------- MODULE Parser -------------------------------
(***************************************************************************)
(* The parser (src/parser.cc) under main()'s loop.  parseSExp keeps the open  *)
(* lists of one call on a stack of its own, and calls itself for what follows *)
(* a quote or a dot, so that there are activations with a stack each.        *)
(***************************************************************************)
EXTENDS Integers, Sequences, SequencesExt

CONSTANTS
  Atom,      \* texts of BOOL, STRING, NUMBER and SYMBOL tokens
  Inputs     \* bound: the inputs, as token sequences

\* "bad" is input that makes the lexer throw, "unended" input that stops inside of a token
Tokens == Atom \cup {"(", ")", "'", ".", "bad", "unended"}

\* the texts of atoms are none of the marks that the model uses for other things
ASSUME ParserAssumption ==
  /\ Atom \cap {"(", ")", "'", ".", "bad", "unended", "EOF", "quote", "list", "garbage"} = {}
  /\ Inputs \subseteq Seq(Tokens)
  /\ \A s \in Inputs : \A k \in 1..Len(s) : s[k] = "unended" => k = Len(s)

VARIABLES
  pc,        \* "main", in "parse", at a "return", "endless" in the lexer;
             \* ended by "exit", "error", "crash", "fault"
  input,
  fetched,   \* tokens taken from the lexer; those after pos are `lookahead'
  pos,       \* tokens consumed
  nodes,     \* the AST nodes made so far
  calls,     \* activations of parseSExp, the running one last
  ret,       \* what the activation that just ended returned
  forms      \* what main() got: the node and the position after it

vars == <<pc, input, fetched, pos, nodes, calls, ret, forms>>

Node  == [text : Atom \cup {"quote", "list"}, dotted : BOOLEAN, args : Seq(Nat)]
Call  == [stk : Seq(Nat \ {0}), wait : {"none", "quote", "dot"}]
Form  == [node : Nat, end : Nat]

Garbage == 0    \* an ASTNode pointer nobody assigned

TypeOK ==
  /\ pc \in {"main", "parse", "return", "endless", "exit", "error", "crash", "fault"}
  /\ input \in Inputs
  /\ pos \in 0..Len(input)
  /\ fetched \in {pos, pos + 1}
  /\ nodes \in Seq(Node)
  /\ calls \in Seq(Call)
  /\ ret \in 0..Len(nodes)
  /\ forms \in Seq(Form)

Init ==
  /\ pc = "main"
  /\ input \in Inputs
  /\ fetched = 0 /\ pos = 0
  /\ nodes = <<>> /\ calls = <<>>
  /\ ret = Garbage
  /\ forms = <<>>

-----------------------------------------------------------------------------

\* peekToken(1), which fills the lookahead when it is empty
Peek == IF pos < Len(input) THEN input[pos + 1] ELSE "EOF"
Fill == fetched' = pos + 1

\* mutant: the token is not put into the lookahead first
ConsumeUnfilled == pos' = pos + 1 /\ UNCHANGED fetched

\* mutant: the lookahead is filled again at once
ConsumeAndFill == pos' = pos + 1 /\ fetched' = pos + 2

\* consume() of the token just peeked
Consume == pos' = pos + 1 /\ fetched' = pos + 1

Stk == Last(calls).stk

NewNode(t, as) == [text |-> t, dotted |-> FALSE, args |-> as]

addArgument(ns, n, a) == [ns EXCEPT ![n].args = Append(@, a)]

setStk(s) == [calls EXCEPT ![Len(calls)].stk = s, ![Len(calls)].wait = "none"]

\* the running activation returns n
Return(n) ==
  /\ pc' = "return"
  /\ ret' = n
  /\ calls' = Front(calls)

\* mutant: the complete list is popped but not added to the list around it
REDUCE_STKDropped(ns) ==
  \/ /\ Len(Stk) = 1
     /\ Return(Last(Stk))
     /\ nodes' = ns
  \/ /\ Len(Stk) > 1
     /\ nodes' = ns
     /\ calls' = setStk(Front(Stk))
     /\ pc' = "parse"
     /\ UNCHANGED ret

(***************************************************************************)
(* REDUCE_STK: the innermost open list is complete.                          *)
(***************************************************************************)
REDUCE_STK(ns) ==
  \/ /\ Len(Stk) = 1
     /\ Return(Last(Stk))
     /\ nodes' = ns
  \/ /\ Len(Stk) > 1
     /\ nodes' = addArgument(ns, Last(Front(Stk)), Last(Stk))
     /\ calls' = setStk(Front(Stk))
     /\ pc' = "parse"
     /\ UNCHANGED ret

\* CONSUME_TOK: an atom is the whole datum or an argument of the open list
Datum ==
  /\ pc = "parse" /\ Peek \in Atom
  /\ Consume
  /\ LET n == Len(nodes) + 1
         ns == Append(nodes, NewNode(Peek, <<>>))
     IN \/ Stk = <<>> /\ Return(n) /\ nodes' = ns
        \/ /\ Stk # <<>>
           /\ nodes' = addArgument(ns, Last(Stk), n)
           /\ UNCHANGED <<pc, calls, ret>>
  /\ UNCHANGED <<input, forms>>

OpenList ==
  /\ pc = "parse" /\ Peek = "("
  /\ Consume
  /\ nodes' = Append(nodes, NewNode("list", <<>>))
  /\ calls' = setStk(Append(Stk, Len(nodes) + 1))
  /\ UNCHANGED <<pc, input, ret, forms>>

CloseList ==
  /\ pc = "parse" /\ Peek = ")" /\ Stk # <<>>
  /\ Consume
  /\ REDUCE_STK(nodes)
  /\ UNCHANGED <<input, forms>>

\* calls with the running activation waiting for a new one
Nested(s, why) ==
  Append([calls EXCEPT ![Len(calls)] = [stk |-> s, wait |-> why]],
         [stk |-> <<>>, wait |-> "none"])

\* 'datum is (quote datum), without a token for the closing parenthesis
Quote ==
  /\ pc = "parse" /\ Peek = "'"
  /\ Consume
  /\ LET l == Len(nodes) + 1 IN
       /\ nodes' = nodes \o <<NewNode("list", <<l + 1>>), NewNode("quote", <<>>)>>
       /\ calls' = Nested(Append(Stk, l), "quote")
  /\ UNCHANGED <<pc, input, ret, forms>>

Dot ==
  /\ pc = "parse" /\ Peek = "." /\ Stk # <<>>
  /\ Consume
  /\ nodes' = [nodes EXCEPT ![Last(Stk)].dotted = TRUE]
  /\ calls' = Nested(Stk, "dot")
  /\ UNCHANGED <<pc, input, ret, forms>>

\* mutant: the stack is not reduced by hand
AfterQuoteOpen ==
  /\ pc = "return" /\ calls # <<>> /\ Last(calls).wait = "quote"
  /\ nodes' = addArgument(nodes, Last(Stk), ret)
  /\ calls' = setStk(Stk)
  /\ pc' = "parse"
  /\ UNCHANGED <<input, fetched, pos, ret, forms>>

AfterQuote ==
  /\ pc = "return" /\ calls # <<>> /\ Last(calls).wait = "quote"
  /\ REDUCE_STK(addArgument(nodes, Last(Stk), ret))
  /\ UNCHANGED <<input, fetched, pos, forms>>

\* parseSExp returned what follows a dot: match(RPAREN) is next
Matching == pc = "return" /\ calls # <<>> /\ Last(calls).wait = "dot"

\* mutant: the list ends after the datum, whatever token follows
AfterDotUnmatched ==
  /\ Matching /\ Peek \notin {"bad", "unended", "EOF"}
  /\ Consume
  /\ REDUCE_STK(addArgument(nodes, Last(Stk), ret))
  /\ UNCHANGED <<input, forms>>

AfterDot ==
  /\ Matching /\ Peek = ")"
  /\ Consume
  /\ REDUCE_STK(addArgument(nodes, Last(Stk), ret))
  /\ UNCHANGED <<input, forms>>

(***************************************************************************)
(* An Error of the parser or the lexer is not caught: it ends the compiler   *)
(* and the interpreter.                                                     *)
(***************************************************************************)
Throws == pc' = "error" /\ UNCHANGED <<input, nodes, calls, ret, forms>>

\* the parser or main() asks for a token
Asking == pc \in {"main", "parse"} \/ Matching

\* nextToken throws before the token is in the lookahead
LexerError ==
  /\ Asking /\ Peek = "bad"
  /\ Throws
  /\ UNCHANGED <<fetched, pos>>

(***************************************************************************)
(* At the end of the input inside of a number, a comment or a string (any     *)
(* atom that no delimiter follows is one) nextToken reads on for ever.       *)
(***************************************************************************)
Endless ==
  /\ Asking /\ Peek = "unended"
  /\ pc' = "endless"
  /\ UNCHANGED <<input, fetched, pos, nodes, calls, ret, forms>>

\* a closing parenthesis or a dot outside of every list
Unexpected ==
  /\ pc = "parse" /\ Peek \in {")", "."} /\ Stk = <<>>
  /\ Consume
  /\ Throws

\* match(RPAREN) behind the datum after a dot
Mismatch ==
  /\ Matching /\ Peek \notin {")", "bad", "unended"}
  /\ Fill
  /\ Throws
  /\ UNCHANGED pos

(***************************************************************************)
(* parseSExp has no return statement behind its loop: at the end of input it *)
(* returns whatever is there, if it gets that far.                          *)
(***************************************************************************)
EndOfInput ==
  /\ pc = "parse" /\ Peek = "EOF"
  /\ Fill
  /\ \/ Return(Garbage)
     \/ pc' = "crash" /\ UNCHANGED <<calls, ret>>
  /\ UNCHANGED <<input, pos, nodes, forms>>

\* mutant: main() reads on at the end of input
MainLoopForever ==
  /\ pc = "main" /\ Peek \notin {"bad", "unended"}
  /\ Fill
  /\ pc' = IF Peek = "EOF" THEN "main" ELSE "parse"
  /\ calls' = IF Peek = "EOF" THEN <<>> ELSE <<[stk |-> <<>>, wait |-> "none"]>>
  /\ UNCHANGED <<input, pos, nodes, ret, forms>>

MainLoop ==
  /\ pc = "main" /\ Peek \notin {"bad", "unended"}
  /\ Fill
  /\ pc' = IF Peek = "EOF" THEN "exit" ELSE "parse"
  /\ calls' = IF Peek = "EOF" THEN <<>> ELSE <<[stk |-> <<>>, wait |-> "none"]>>
  /\ UNCHANGED <<input, pos, nodes, ret, forms>>

\* main() takes the datum; the interpreter runs it before it peeks again
Take ==
  /\ pc = "return" /\ calls = <<>>
  /\ forms' = Append(forms, [node |-> ret, end |-> pos])
  /\ pc' = "main"
  /\ UNCHANGED <<input, fetched, pos, nodes, calls, ret>>

Next ==
  \/ Datum \/ OpenList \/ CloseList \/ Quote \/ Dot \/ AfterQuote \/ AfterDot
  \/ LexerError \/ Endless \/ Unexpected \/ Mismatch \/ EndOfInput \/ MainLoop \/ Take

Spec == Init /\ [][Next]_vars /\ WF_vars(Next)

-----------------------------------------------------------------------------

(***************************************************************************)
(* The written form of a node.  Only 'datum makes a list that starts with    *)
(* the symbol quote, since no input has that symbol.                        *)
(***************************************************************************)
Written(node) ==
  LET W[n \in 0..Len(nodes)] ==
        IF n = Garbage THEN <<"garbage">>
        ELSE LET x == nodes[n]
                 each(as) == FlattenSeq([k \in 1..Len(as) |-> W[as[k]]])
             IN CASE x.text # "list" -> <<x.text>>
                  [] x.text = "list" /\ x.dotted /\ x.args # <<>> ->
                       <<"(">> \o each(Front(x.args)) \o <<".">> \o W[Last(x.args)] \o <<")">>
                  [] x.text = "list" /\ ~x.dotted /\ x.args # <<>>
                       /\ nodes[x.args[1]].text = "quote" -> <<"'">> \o each(Tail(x.args))
                  [] OTHER -> <<"(">> \o each(x.args) \o <<")">>
  IN W[node]

Broken(node) == \E k \in 1..Len(Written(node)) : Written(node)[k] = "garbage"

Start(k) == IF k = 1 THEN 0 ELSE forms[k - 1].end

(***************************************************************************)
(* Each datum that main() gets stands for exactly the tokens consumed for it: *)
(* nothing is dropped, duplicated or moved to another list, whatever nesting *)
(* of lists, quotes and dots the stacks went through.                        *)
(***************************************************************************)
RoundTrip ==
  \A k \in 1..Len(forms) :
    Broken(forms[k].node) \/
      Written(forms[k].node) = SubSeq(input, Start(k) + 1, forms[k].end)

(***************************************************************************)
(* The grammar of R5RS 7.1.2 for these tokens, as a reference: tokens a to b  *)
(* of the sequence s are a datum, G[<<"datum", a, b>>], or data in a row.     *)
(***************************************************************************)
GrammarOf(s) ==
  LET G[c \in {"datum", "data"} \X (1..(Len(s) + 1)) \X (0..Len(s))] ==
        LET a == c[2]
            b == c[3]
        IN IF c[1] = "data"
           THEN a > b \/ \E k \in a..b : G[<<"datum", a, k>>] /\ G[<<"data", k + 1, b>>]
           ELSE \/ a = b /\ s[a] \in Atom
                \/ a < b /\ s[a] = "'" /\ G[<<"datum", a + 1, b>>]
                \/ /\ a < b /\ s[a] = "(" /\ s[b] = ")"
                   /\ \/ G[<<"data", a + 1, b - 1>>]
                      \/ \E k \in (a + 2)..(b - 2) :
                           /\ s[k] = "."
                           /\ G[<<"data", a + 1, k - 1>>] /\ G[<<"datum", k + 1, b - 1>>]
  IN G

IsDatum(s, a, b) == GrammarOf(s)[<<"datum", a, b>>]

\* A datum starts at token a.
HasDatum(s, a) == \E b \in a..Len(s) : IsDatum(s, a, b)

(***************************************************************************)
(* A datum is never refused: where the parser throws, is never answered by   *)
(* the lexer, runs off the end of its loop or hands out a broken node, no     *)
(* datum starts after the last good form.                                    *)
(***************************************************************************)
DataAccepted ==
  /\ pc \in {"error", "endless", "crash"} => ~HasDatum(input, Start(Len(forms) + 1) + 1)
  /\ \A k \in 1..Len(forms) : Broken(forms[k].node) => ~HasDatum(input, Start(k) + 1)

\* A lone dot behind a parenthesis, which R5RS does not have.
EmptyDotted(a, b) == \E k \in a..(b - 1) : input[k] = "(" /\ input[k + 1] = "."

(***************************************************************************)
(* Nothing but a datum is accepted, except that a list may start with a dot. *)
(***************************************************************************)
OnlyData ==
  \A k \in 1..Len(forms) :
    \/ Broken(forms[k].node)
    \/ EmptyDotted(Start(k) + 1, forms[k].end)
    \/ IsDatum(input, Start(k) + 1, forms[k].end)

(***************************************************************************)
(* The interpreter gets a complete datum without the parser having asked for *)
(* a token behind it, so it can answer before more is typed.                 *)
(***************************************************************************)
NoReadAhead ==
  pc = "return" /\ calls = <<>> /\ ~Broken(ret) => fetched = pos

(***************************************************************************)
(* main()'s loop comes to an end on every finite input, unless the input      *)
(* stops inside of a token: then it ends before that token is asked for, by   *)
(* an Error or a crash, or it is asked for and there is no end.               *)
(***************************************************************************)
Terminates ==
  <>(\/ pc \in {"exit", "error", "crash", "fault"}
     \/ pc = "endless" /\ Last(input) = "unended")
=============================================================================
