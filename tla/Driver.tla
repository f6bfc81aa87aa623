------------------------------- MODULE Driver -------------------------------
(***************************************************************************)
(* The drivers of src/driver.cc around the code generator, and main()'s     *)
(* loop: a form is generated, the builtins it names for the first time are   *)
(* installed by a prolog that runs before it, and it runs.  The interpreter  *)
(* does so for every datum, in one module and one environment; the compiler  *)
(* for the whole program.                                                   *)
(***************************************************************************)
EXTENDS CodeGen

CONSTANT Builtin   \* the names of the builtin_proc table

ASSUME BuiltinAssumption == Builtin \subseteq Name

VARIABLES
  todo,       \* builtins CheckBuiltinProcs has still to look at
  declared,   \* builtins whose lsrt_builtin_ function is in the module
  installs,   \* symbols the prolog of the current form stores a builtin in
  cell        \* run time: what a symbol object points to

vars == <<phase, env, stack, inserting, funs, uses, stores, done,
          todo, declared, installs, cell>>

TypeOK ==
  /\ phase \in {"idle", "gen", "check", "exit"}
  /\ env \in Env
  /\ stack \in Seq(Frame)
  /\ inserting \in Nat
  /\ funs \in Seq(Fun)
  /\ uses \subseteq Use
  /\ stores \subseteq Store
  /\ done \subseteq Nat
  /\ todo \subseteq Builtin
  /\ declared \subseteq Builtin
  /\ installs \subseteq Builtin
  /\ cell \in [Name -> {"unbound", "builtin", "user"}]

Init ==
  /\ phase = "idle"
  /\ env = NewEnv
  /\ stack = <<>>
  /\ inserting = 0
  /\ funs = <<>>
  /\ uses = {}
  /\ stores = {}
  /\ done = {}
  /\ todo = {}
  /\ declared = {}
  /\ installs = {}
  /\ cell = [n \in Name |-> "unbound"]

-----------------------------------------------------------------------------

\* codegenInit, once, or the head of InterpreterRun, for every datum
BeginForm ==
  /\ phase = "idle"
  /\ Interactive \/ funs = <<>>
  /\ Len(funs) < MaxFun
  /\ phase' = "gen"
  /\ funs' = Append(funs, NewFun(0, <<>>))
  /\ inserting' = Len(funs) + 1
  /\ stack' = <<[kind |-> "top", fn |-> Len(funs) + 1, prev |-> 0, name |-> 0]>>
  /\ UNCHANGED <<env, uses, stores, done, todo, declared, installs, cell>>

\* mutant: builtins are looked for in the first form only
EndFormFirstOnly ==
  /\ phase = "gen"
  /\ Top.kind = "top"
  /\ phase' = "check"
  /\ todo' = IF done = {} THEN Builtin ELSE {}
  /\ done' = done \cup Top.fn..Len(funs)
  /\ stack' = <<>>
  /\ inserting' = 0
  /\ UNCHANGED <<env, funs, uses, stores, declared, installs, cell>>

\* codeGenEval() has returned; the insert point moves to the prolog
EndForm ==
  /\ phase = "gen"
  /\ Top.kind = "top"
  /\ phase' = "check"
  /\ todo' = Builtin
  /\ done' = done \cup Top.fn..Len(funs)
  /\ stack' = <<>>
  /\ inserting' = 0
  /\ UNCHANGED <<env, funs, uses, stores, declared, installs, cell>>

\* mutant: a builtin the module already declares is installed again
CheckBuiltinAgain(b) ==
  /\ phase = "check" /\ b \in todo
  /\ \A c \in todo : b <= c
  /\ todo' = todo \ {b}
  /\ env' = afterSearch(env, b)
  /\ LET local == searchLocalBinding(env, b) # NULL
         found == local \/ b \in env.global
     IN /\ declared' = IF found THEN declared \cup {b} ELSE declared
        /\ installs' = IF found /\ ~local THEN installs \cup {b} ELSE installs
  /\ UNCHANGED <<phase, stack, inserting, funs, uses, stores, done, cell>>

(***************************************************************************)
(* One round of the loop of CheckBuiltinProcs.  searchBinding looks through *)
(* the lexical scopes before the globals; a store through a local binding    *)
(* does not reach the symbol.                                               *)
(***************************************************************************)
CheckBuiltin(b) ==
  /\ phase = "check" /\ b \in todo
  /\ \A c \in todo : b <= c
  /\ todo' = todo \ {b}
  /\ env' = afterSearch(env, b)
  /\ LET local == searchLocalBinding(env, b) # NULL
         found == local \/ b \in env.global
         new   == found /\ b \notin declared
     IN /\ declared' = IF new THEN declared \cup {b} ELSE declared
        /\ installs' = IF new /\ ~local THEN installs \cup {b} ELSE installs
  /\ UNCHANGED <<phase, stack, inserting, funs, uses, stores, done, cell>>

(***************************************************************************)
(* The form runs: first its prolog, then its body, which performs any of the *)
(* definitions in code generated so far and may stop at a run-time error;   *)
(* lsrt_exit_hook brings the interpreter back to its prompt.                *)
(***************************************************************************)
RunForm(defined) ==
  /\ phase = "check" /\ todo = {}
  /\ defined \subseteq {s.name : s \in {t \in stores : t.fn \in done}}
  /\ cell' = [n \in Name |-> IF n \in defined THEN "user"
                            ELSE IF n \in installs THEN "builtin" ELSE cell[n]]
  /\ installs' = {}
  /\ phase' = IF Interactive THEN "idle" ELSE "exit"
  /\ UNCHANGED <<env, stack, inserting, funs, uses, stores, done, todo, declared>>

\* end of input at the prompt
Quit ==
  /\ phase = "idle" /\ Interactive
  /\ phase' = "exit"
  /\ UNCHANGED <<env, stack, inserting, funs, uses, stores, done,
                 todo, declared, installs, cell>>

Next ==
  \/ Generate /\ UNCHANGED <<todo, declared, installs, cell>>
  \/ BeginForm \/ EndForm \/ Quit
  \/ \E b \in Builtin : CheckBuiltin(b)
  \/ \E defined \in SUBSET Name : RunForm(defined)

Spec == Init /\ [][Next]_vars

-----------------------------------------------------------------------------

(***************************************************************************)
(* What an operand of function g denotes when the emitted code runs: an     *)
(* argument of g, a global symbol (NULL), or, for a slot of g's freelist,    *)
(* what the function that created the closure put there.  A placeholder     *)
(* that was never replaced, a slot that does not exist and an instruction    *)
(* of another function denote nothing.                                      *)
(***************************************************************************)
Nothing == [kind |-> "nothing", fn |-> 0, idx |-> 0]

Denotes(g, v) ==
  LET D[h \in 0..Len(funs)] == [w \in Value \cup {NULL} |->
        IF /\ w.kind = "load" /\ w.fn = h /\ h # 0
           /\ w.idx \in 1..Len(funs[h].free)
        THEN D[funs[h].parent][funs[h].free[w.idx]]
        ELSE IF w = NULL \/ (w.kind = "arg" /\ w.fn = h) THEN w
        ELSE Nothing]
  IN D[g][v]

\* What lexical scoping says: the innermost enclosing parameter of that name.
Binder(g, n) ==
  LET B[h \in 0..Len(funs)] ==
        IF h = 0 THEN NULL
        ELSE LET pos == {i \in 1..Len(funs[h].formals) : funs[h].formals[i] = n}
             IN IF pos = {} THEN B[funs[h].parent]
                ELSE Arg(h, CHOOSE i \in pos : \A j \in pos : i <= j)
  IN B[g]

(***************************************************************************)
(* Every variable read in a program that was generated, followed through    *)
(* the freelists that createFunction makes, denotes the parameter of the     *)
(* innermost function around it that has the name, or the global symbol.    *)
(***************************************************************************)
LexicalScope ==
  \A u \in uses : u.fn \in done => Denotes(u.fn, u.val) = Binder(u.fn, u.name)

(***************************************************************************)
(* Every scope that is open, those an Error left behind included, takes its  *)
(* free names from the scope around it, one placeholder for each.           *)
(***************************************************************************)
Chained == WellChained(env)

\* A placeholder stands for one name of one scope, so replacing all uses of it
\* when its function ends cannot touch another function.
PlaceholdersDistinct == DistinctPlaceholders(env)

(***************************************************************************)
(* No emitted instruction, freelist fill or refs entry mentions a            *)
(* placeholder that createFunction has deleted: its scope is still open.     *)
(***************************************************************************)
Operands ==
  {u.val : u \in uses}
    \cup UNION {{funs[g].free[i] : i \in 1..Len(funs[g].free)} : g \in 1..Len(funs)}

NoDanglingPlaceholder ==
  \A v \in Operands :
    v.kind = "alloca" =>
      \E k \in 1..Len(env.lexical), n \in Name : env.lexical[k][n] = v

OpenFunctions == {i \in 1..Len(stack) : stack[i].kind = "fn"}

ScopeLeft == Len(env.lexical) # 1 + Cardinality(OpenFunctions)

(***************************************************************************)
(* Scopes, open functions and the insert point agree in the compiler: there  *)
(* is one scope for each open function, code goes to the innermost of them,  *)
(* or to the form's own where none is open, past any definition under way,   *)
(* and the arguments that the innermost scope binds are that function's.     *)
(***************************************************************************)
InnermostFunction ==
  stack[CHOOSE k \in 1..Len(stack) :
          /\ stack[k].kind # "def"
          /\ \A j \in (k + 1)..Len(stack) : stack[j].kind = "def"].fn

ScopesMatchFunctions ==
  /\ phase # "exit" => ~ScopeLeft
  /\ phase = "gen" =>
       /\ inserting = InnermostFunction
       /\ \A n \in Name : Back(env.lexical)[n].kind = "arg"
                            => Back(env.lexical)[n].fn = inserting

\* Until an Error leaves a scope behind, the forms of the interpreter resolve
\* their names lexically too, although they share one environment.
LexicalScopeUnlessLeft == ScopeLeft \/ LexicalScope

(***************************************************************************)
(* As long as no Error has left a scope behind, a builtin that generated     *)
(* code reads as a global symbol has a value whenever the prompt is back.    *)
(***************************************************************************)
BuiltinReady ==
  phase = "idle" /\ ~ScopeLeft =>
    \A u \in uses : u.fn \in done /\ u.val = NULL /\ u.name \in Builtin
                     => cell[u.name] # "unbound"

(***************************************************************************)
(* A definition is never replaced by the builtin of that name: the prolog    *)
(* that installs it runs once, before the first form that names it.         *)
(***************************************************************************)
DefinitionStays ==
  [][\A n \in Name : cell[n] = "user" => cell'[n] = "user"]_vars
=============================================================================
