------------------------------ MODULE CodeGen ------------------------------
(***************************************************************************)
(* Name resolution and closure conversion in the code generator             *)
(* (src/codegen.cc): what happens between the start and the end of one      *)
(* top-level form.  Driver adds what happens around it.                     *)
(*                                                                         *)
(* The program is not fixed: every action is one thing codeGenEval() can    *)
(* meet next, so a behaviour is the generation of some program.  Forms that *)
(* only contain other forms (application, begin, if) do nothing to the      *)
(* environment; their sub-forms simply follow each other.  A constant or a   *)
(* quoted datum does nothing at all, so that a body can end at any point.    *)
(* A number too long for an int is a reference to string->number.           *)
(***************************************************************************)
EXTENDS ExecutionEnv, FiniteSets

CONSTANTS
  Interactive,   \* TRUE for the interpreter (-i), FALSE for the compiler
  MaxFun,        \* bound: functions created, the one of each form included
  MaxFormals,    \* bound: parameters of one function
  MaxDepth,      \* bound: forms open at once
  MaxStores      \* bound: definitions generated

ASSUME CodeGenAssumption == /\ Interactive \in BOOLEAN
                            /\ MaxFun \in Nat
                            /\ MaxFormals \in Nat
                            /\ MaxDepth \in Nat
                            /\ MaxStores \in Nat

ASSUME FiniteNames == IsFiniteSet(Name)

VARIABLES
  phase,      \* "gen" inside codeGenEval(); the others are Driver's
  env,        \* the ExecutionEnv object `eenv'
  stack,      \* open createFunction and handleDefine activations of the form
  inserting,  \* the function that holds the builder's insert point
  funs,       \* the llvm functions created so far, in order
  uses,       \* emitted reads of a variable: function, name, operand
  stores,     \* emitted stores into a symbol: function and name
  done        \* functions of the forms generated without an Error

FormalLists == UNION {[1..k -> Name] : k \in 0..MaxFormals}

(***************************************************************************)
(* `free' is what lsrt_fill_freelist puts in the function object, as operands *)
(* of the parent; `parent' is 0 for the function of a top-level form.        *)
(***************************************************************************)
Fun   == [parent : Nat, formals : Seq(Name), free : Seq(Value)]
Frame == [kind : {"top", "fn", "def"}, fn : Nat, prev : Nat, name : Nat]
Use   == [fn : Nat, name : Name, val : Value \cup {NULL}]
Store == [fn : Nat, name : Name]

genVars == <<phase, env, stack, inserting, funs, uses, stores, done>>

-----------------------------------------------------------------------------

Top == Back(stack)

NewFun(p, fs) == [parent |-> p, formals |-> fs, free |-> <<>>]

\* every activation is gone, and nothing is emitted
Unwind == stack' = <<>> /\ inserting' = 0 /\ UNCHANGED <<uses, stores, done>>

(***************************************************************************)
(* An Error unwinds every activation.  main() catches it around             *)
(* InterpreterRun() only; the compiler does not survive it.                  *)
(***************************************************************************)
Throw == phase' = (IF Interactive THEN "idle" ELSE "exit") /\ Unwind

(***************************************************************************)
(* SymbolASTNode::codeGenEval: a local binding, else the global symbol,      *)
(* which getGlobal creates on its first use.                                 *)
(***************************************************************************)
getGlobal(e, n) == addGlobalBinding(e, n)

\* mutant: a name that is a global symbol is not looked for in the scopes
ReferenceGlobalFirst(n) ==
  /\ phase = "gen"
  /\ LET v == IF n \in env.global THEN NULL ELSE searchLocalBinding(env, n) IN
       /\ uses' = uses \cup {[fn |-> inserting, name |-> n, val |-> v]}
       /\ env' = IF v # NULL THEN afterSearch(env, n) ELSE getGlobal(env, n)
  /\ UNCHANGED <<phase, stack, inserting, funs, stores, done>>

Reference(n) ==
  /\ phase = "gen"
  /\ LET v == searchLocalBinding(env, n) IN
       /\ uses' = uses \cup {[fn |-> inserting, name |-> n, val |-> v]}
       /\ env' = IF v # NULL THEN afterSearch(env, n) ELSE getGlobal(env, n)
  /\ UNCHANGED <<phase, stack, inserting, funs, stores, done>>

(***************************************************************************)
(* createFunction up to the body: the function is created, a scope opened,   *)
(* the insert point saved and moved, and the arguments bound in order.       *)
(***************************************************************************)
\* mutant: args[] indexed from the wrong start
loadFuncArgsShifted(e, f, fs) ==
  LET args(n) == {i \in 1..Len(fs) : fs[i] = n}
      first(n) == CHOOSE i \in args(n) : \A j \in args(n) : i <= j
  IN addBindings(e, [n \in Name |-> IF args(n) = {} THEN NULL
                                                   ELSE Arg(f, first(n) - 2)])

loadFuncArgs(e, f, fs) ==
  LET args(n) == {i \in 1..Len(fs) : fs[i] = n}
      first(n) == CHOOSE i \in args(n) : \A j \in args(n) : i <= j
  IN addBindings(e, [n \in Name |-> IF args(n) = {} THEN NULL
                                                   ELSE Arg(f, first(n))])

BeginFunction(fs) ==
  /\ phase = "gen"
  /\ Len(funs) < MaxFun /\ Len(stack) < MaxDepth
  /\ LET f == Len(funs) + 1 IN
       /\ funs' = Append(funs, NewFun(inserting, fs))
       /\ env' = loadFuncArgs(newScope(env), f, fs)
       /\ stack' = Append(stack, [kind |-> "fn", fn |-> f, prev |-> inserting,
                                  name |-> 0])
       /\ inserting' = f
  /\ UNCHANGED <<phase, uses, stores, done>>

(***************************************************************************)
(* A parameter list whose symbols fs are followed by something else: the    *)
(* scope has been opened and fs bound when loadFuncArgs throws.              *)
(***************************************************************************)
BadFormals(fs) ==
  /\ phase = "gen"
  /\ Len(funs) < MaxFun
  /\ funs' = Append(funs, NewFun(inserting, fs))
  /\ env' = loadFuncArgs(newScope(env), Len(funs) + 1, fs)
  /\ Throw

(***************************************************************************)
(* createFunction after the body.  Slot numbers follow the order in which    *)
(* std::map iterates refs; both loops run over the same map.                 *)
(***************************************************************************)
Captured(r) == {n \in Name : r[n] # NULL}

Slot(r, n) == Cardinality({m \in Captured(r) : m <= n})

fillFreelist(r) ==
  [i \in 1..Cardinality(Captured(r)) |->
     r[CHOOSE n \in Captured(r) : Slot(r, n) = i]]

\* an operand once each placeholder of e's innermost scope is a load in f
replaceUse(e, f, v) ==
  LET r == getCurrentRefs(e) IN
  IF \E n \in Captured(r) : searchLocalBinding(e, n) = v
  THEN Load(f, Slot(r, CHOOSE n \in Captured(r) : searchLocalBinding(e, n) = v))
  ELSE v

\* mutant: the freelist fills already emitted keep the deleted placeholder
replaceUsesOnly(e, f) ==
  /\ uses' = {[u EXCEPT !.val = replaceUse(e, f, @)] : u \in uses}
  /\ funs' = [funs EXCEPT ![f].free = fillFreelist(getCurrentRefs(e))]

replaceAllUsesWith(e, f) ==
  /\ uses' = {[u EXCEPT !.val = replaceUse(e, f, @)] : u \in uses}
  /\ funs' = [g \in 1..Len(funs) |->
                [funs[g] EXCEPT !.free =
                   IF g = f THEN fillFreelist(getCurrentRefs(e))
                   ELSE [i \in 1..Len(@) |-> replaceUse(e, f, @[i])]]]

\* mutant: the code goes on in the function of the form
EndFunctionInForm ==
  /\ phase = "gen"
  /\ Top.kind = "fn"
  /\ replaceAllUsesWith(env, Top.fn)
  /\ env' = exitLastScope(env)
  /\ inserting' = stack[1].fn
  /\ stack' = PopBack(stack)
  /\ UNCHANGED <<phase, stores, done>>

EndFunction ==
  /\ phase = "gen"
  /\ Top.kind = "fn"
  /\ replaceAllUsesWith(env, Top.fn)
  /\ env' = exitLastScope(env)
  /\ inserting' = Top.prev
  /\ stack' = PopBack(stack)
  /\ UNCHANGED <<phase, stores, done>>

(***************************************************************************)
(* handleDefine: (define n value), and (define (n . formals) body) which is  *)
(* the same followed by createFunction.  The symbol is looked up before the *)
(* value is generated and stored to after it.                               *)
(***************************************************************************)
BeginDefine(n) ==
  /\ phase = "gen"
  /\ Len(stack) < MaxDepth /\ Cardinality(stores) < MaxStores
  /\ searchLocalBinding(env, n) = NULL
  /\ env' = getGlobal(env, n)
  /\ stack' = Append(stack, [kind |-> "def", fn |-> inserting, prev |-> inserting,
                             name |-> n])
  /\ UNCHANGED <<phase, inserting, funs, uses, stores, done>>

EndDefine ==
  /\ phase = "gen"
  /\ Top.kind = "def"
  /\ stores' = stores \cup {[fn |-> inserting, name |-> Top.name]}
  /\ stack' = PopBack(stack)
  /\ UNCHANGED <<phase, env, inserting, funs, uses, done>>

\* checkSymbol throws, after its search has made references
Redefinition(n) ==
  /\ phase = "gen"
  /\ searchLocalBinding(env, n) # NULL
  /\ env' = afterSearch(env, n)
  /\ Throw
  /\ UNCHANGED funs

\* any other Error: a malformed define, lambda, quote, if, begin or application
SyntaxError == phase = "gen" /\ Throw /\ UNCHANGED <<env, funs>>

(***************************************************************************)
(* (define (proc ...) ...) takes the head of the list for a symbol, also when *)
(* it is none or the list is empty.  What is read there may be a name, as in  *)
(* BeginDefine and Redefinition, or end the process.                        *)
(***************************************************************************)
MalformedDefine ==
  phase = "gen" /\ phase' = "exit" /\ Unwind /\ UNCHANGED <<env, funs>>

Generate ==
  \/ EndFunction \/ EndDefine \/ SyntaxError \/ MalformedDefine
  \/ \E n \in Name : Reference(n) \/ BeginDefine(n) \/ Redefinition(n)
  \/ \E fs \in FormalLists : BeginFunction(fs) \/ BadFormals(fs)
=============================================================================
