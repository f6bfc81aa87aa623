---------------------------- MODULE ExecutionEnv ----------------------------
(***************************************************************************)
(* The compile-time environment of the code generator: class ExecutionEnv  *)
(* of src/env.cc.  An environment holds the global symbols, a stack of      *)
(* lexical scopes and, in parallel, a stack of `refs': for every scope the  *)
(* names it takes from the scope around it, which createFunction turns into *)
(* the closure's freelist.                                                  *)
(*                                                                         *)
(* Each method is an operator from an environment to the next environment; *)
(* the specification that owns the variable is CodeGen.                    *)
(***************************************************************************)
EXTENDS Integers, Sequences

CONSTANT Name       \* identifiers; std::map iterates them in increasing order

ASSUME NameAssumption == Name \subseteq Nat

(***************************************************************************)
(* An llvm::Value the environment can hold: the load of argument idx of     *)
(* function fn, the load of slot idx of fn's freelist, or the idx-th         *)
(* AllocaInst created as a placeholder.  NULL is "not bound here".          *)
(***************************************************************************)
Value == [kind : {"arg", "load", "alloca"}, fn : Nat, idx : Nat]
NULL  == [kind |-> "null", fn |-> 0, idx |-> 0]

Arg(f, i)  == [kind |-> "arg",    fn |-> f, idx |-> i]
Load(f, i) == [kind |-> "load",   fn |-> f, idx |-> i]
Alloca(i)  == [kind |-> "alloca", fn |-> 0, idx |-> i]

Binding      == [Name -> Value \cup {NULL}]
EmptyBinding == [n \in Name |-> NULL]

Env == [global  : SUBSET Name,
        lexical : Seq(Binding),
        refs    : Seq(Binding),
        nalloca : Nat]

Back(s)    == s[Len(s)]
PopBack(s) == SubSeq(s, 1, Len(s) - 1)

(***************************************************************************)
(* std::map::insert: a key that is already there keeps its value.           *)
(***************************************************************************)
insert(b, n, v) == IF b[n] = NULL THEN [b EXCEPT ![n] = v] ELSE b

NewEnv == [global  |-> {},
           lexical |-> <<EmptyBinding>>,
           refs    |-> <<EmptyBinding>>,
           nalloca |-> 0]

withScopes(e, lex, ref, count) ==
  [e EXCEPT !.lexical = lex, !.refs = ref, !.nalloca = count]

\* addBinding of every name that b binds; a name bound before keeps its value
addBindings(e, b) ==
  LET d == Len(e.lexical) IN
  withScopes(e, [e.lexical EXCEPT ![d] =
                   [n \in Name |-> IF @[n] = NULL THEN b[n] ELSE @[n]]],
             e.refs, e.nalloca)

addGlobalBinding(e, n) == [e EXCEPT !.global = @ \cup {n}]

newScope(e) == withScopes(e, Append(e.lexical, EmptyBinding),
                             Append(e.refs, EmptyBinding), e.nalloca)

exitLastScope(e) ==
  withScopes(e, PopBack(e.lexical), PopBack(e.refs), e.nalloca)

(***************************************************************************)
(* searchLocalBinding walks from the innermost scope outwards.             *)
(***************************************************************************)
BoundLocally(e, n) == \E k \in 1..Len(e.lexical) : e.lexical[k][n] # NULL

ScopeOf(e, n) ==
  CHOOSE k \in 1..Len(e.lexical) :
    /\ e.lexical[k][n] # NULL
    /\ \A j \in (k + 1)..Len(e.lexical) : e.lexical[j][n] = NULL

(***************************************************************************)
(* makeref: a name found in scope k gets a fresh placeholder in every scope *)
(* inside k, outermost first, and each of them notes in refs the value that *)
(* the scope around it uses for the name.                                   *)
(***************************************************************************)
\* mutant: one AllocaInst made before the loop serves every scope
PlaceholderShared(e, n, k, i) ==
  IF i = k THEN e.lexical[k][n] ELSE Alloca(e.nalloca)

PlaceholderIn(e, n, k, i) ==
  IF i = k THEN e.lexical[k][n] ELSE Alloca(e.nalloca + (i - k - 1))

\* mutant: the refs of every scope hold the value of the scope that binds n
makerefFromBinder(e, n, k) ==
  LET add(s, i, v) == IF i <= k THEN s[i] ELSE insert(s[i], n, v) IN
  withScopes(e,
    [i \in 1..Len(e.lexical) |-> add(e.lexical, i, PlaceholderIn(e, n, k, i))],
    [i \in 1..Len(e.refs) |-> add(e.refs, i, PlaceholderIn(e, n, k, k))],
    e.nalloca + (Len(e.lexical) - k))

\* mutant: only the current scope makes a reference
makerefInCurrent(e, n, k) ==
  LET d == Len(e.lexical)
      add(s, i, v) == IF i <= k \/ i < d THEN s[i] ELSE insert(s[i], n, v)
  IN withScopes(e,
       [i \in 1..d |-> add(e.lexical, i, PlaceholderIn(e, n, k, i))],
       [i \in 1..d |-> add(e.refs, i, PlaceholderIn(e, n, k, k))],
       e.nalloca + (d - k))

makeref(e, n, k) ==
  LET add(s, i, v) == IF i <= k THEN s[i] ELSE insert(s[i], n, v) IN
  withScopes(e,
    [i \in 1..Len(e.lexical) |-> add(e.lexical, i, PlaceholderIn(e, n, k, i))],
    [i \in 1..Len(e.refs) |-> add(e.refs, i, PlaceholderIn(e, n, k, i - 1))],
    e.nalloca + (Len(e.lexical) - k))

(***************************************************************************)
(* searchLocalBinding changes the environment as well as answering, so it   *)
(* is two operators: the environment afterwards and the value returned.    *)
(***************************************************************************)
afterSearch(e, n) ==
  IF BoundLocally(e, n) THEN makeref(e, n, ScopeOf(e, n)) ELSE e

searchLocalBinding(e, n) ==
  IF BoundLocally(e, n)
  THEN PlaceholderIn(e, n, ScopeOf(e, n), Len(e.lexical))
  ELSE NULL

getCurrentRefs(e) == Back(e.refs)

-----------------------------------------------------------------------------

(***************************************************************************)
(* What closure conversion relies on: a scope has a placeholder for a name   *)
(* exactly when its refs has the name, refs then holds what the scope around *)
(* it uses for the name, and no two entries share a placeholder.            *)
(***************************************************************************)
WellChained(e) ==
  /\ Len(e.lexical) = Len(e.refs)
  /\ \A k \in 1..Len(e.lexical), n \in Name :
       /\ e.lexical[k][n].kind = "alloca" <=> e.refs[k][n] # NULL
       /\ e.refs[k][n] # NULL => k > 1 /\ e.refs[k][n] = e.lexical[k - 1][n]

DistinctPlaceholders(e) ==
  \A j, k \in 1..Len(e.lexical), m, n \in Name :
    /\ e.lexical[j][m].kind = "alloca"
    /\ e.lexical[j][m] = e.lexical[k][n]
    => j = k /\ m = n

OldPlaceholders(e) ==
  \A k \in 1..Len(e.lexical), n \in Name :
    e.lexical[k][n].kind = "alloca" => e.lexical[k][n].idx < e.nalloca

EnvInv(e) ==
  /\ e \in Env
  /\ WellChained(e)
  /\ DistinctPlaceholders(e)
  /\ OldPlaceholders(e)
=============================================================================
