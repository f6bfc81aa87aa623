------------------------------- MODULE Blocks -------------------------------
(***************************************************************************)
(* The instructions the code generator emits (src/codegen.cc), into which    *)
(* basic block of which function, and what driver.cc puts around them.  The   *)
(* builder's insert point is global: every generating step writes where the  *)
(* steps before it, sub-forms included, have left it.                        *)
(*                                                                         *)
(* As in CodeGen a behaviour is the generation of some program.  The forms    *)
(* met are kept as a tree (`nodes'), the reference for what the code has to  *)
(* do.  Names are resolved: a variable is the function whose parameter it is. *)
(***************************************************************************)
EXTENDS Naturals, Sequences, FiniteSets

LOCAL INSTANCE SequencesExt

CONSTANTS
  MaxNodes,    \* bound: forms generated, forms open and top-level forms begun
  MaxFuns,     \* bound: functions, those of the forms included
  MaxForms     \* bound: forms the interpreter reads

ASSUME BlocksAssumption == MaxNodes \in Nat /\ MaxFuns \in Nat /\ MaxForms \in Nat

VARIABLES
  interactive,  \* the interpreter, or the compiler
  phase,        \* "idle", "gen" inside codeGenEval(), "exit"
  forms,        \* top-level forms begun
  nodes,        \* the forms generated, each after its parts
  blocks,       \* every BasicBlock created, with its instructions
  funs,         \* every Function: its list of blocks and, once done, its body
  insert,       \* the block the builder writes to
  stack,        \* open activations of codeGenEval and the handlers
  ready         \* the functions that the last step completed

vars == <<interactive, phase, forms, nodes, blocks, funs, insert, stack, ready>>

(***************************************************************************)
(* Operands: the instruction for node n, the parameter of function f, the     *)
(* parameter of g loaded from f's freelist, the object of function f.         *)
(***************************************************************************)
Val(n)     == <<"val", n, 0>>
Arg(f)     == <<"arg", f, 0>>
Free(f, g) == <<"free", f, g>>
Object(f)  == <<"object", f, 0>>
None       == <<"none", 0, 0>>

\* `to' holds the targets of a branch and the incoming blocks of a phi
Instr(does, def, ops, to) == [does |-> does, def |-> def, uses |-> ops, to |-> to]
Do(does, def, ops) == Instr(does, def, ops, <<>>)
Branch(b) == Instr("br", None, <<>>, <<b>>)

Terminator == {"br", "condbr", "ret"}

NewFun == [list |-> <<>>, refs |-> {}, body |-> <<>>]

Frame(kind) == [kind |-> kind, stage |-> 1, vals |-> <<>>, kids |-> <<>>,
                bbs |-> <<>>, prev |-> insert, fn |-> 0]

FrameKinds == {"form", "app", "begin", "define", "if", "fn"}

TypeOK ==
  /\ interactive \in BOOLEAN
  /\ phase \in {"idle", "gen", "exit"}
  /\ forms \in Nat
  /\ insert \in 0..Len(blocks)
  /\ ready \subseteq 1..Len(funs)
  /\ \A n \in 1..Len(nodes) : \A k \in 1..Len(nodes[n].kids) : nodes[n].kids[k] \in 1..(n - 1)
  /\ \A b \in 1..Len(blocks) : \A k \in 1..Len(blocks[b]) :
       \A j \in 1..Len(blocks[b][k].to) : blocks[b][k].to[j] \in 1..Len(blocks)
  /\ \A f \in 1..Len(funs) : /\ funs[f].list \in Seq(1..Len(blocks))
                             /\ IsInjective(funs[f].list)
  /\ \A k \in 1..Len(stack) : /\ stack[k].kind \in FrameKinds
                              /\ Len(stack[k].vals) = Len(stack[k].kids)
                              /\ stack[k].prev \in 0..Len(blocks)

-----------------------------------------------------------------------------

Top == stack[Len(stack)]
Outer == Front(stack)

\* the functions whose bodies are open, from the outermost, without the form's
OpenFuns == {stack[k].fn : k \in {j \in 1..Len(stack) : stack[j].kind = "fn"}}

\* BasicBlock::getParent
ParentOf(b) == CHOOSE f \in 1..Len(funs) : \E k \in 1..Len(funs[f].list) : funs[f].list[k] = b

Emit(bs, b, code) == [bs EXCEPT ![b] = @ \o code]

\* the value of a sub-form, handed to the activation that asked for it
Deliver(st, op, n) ==
  [st EXCEPT ![Len(st)].vals = Append(@, op), ![Len(st)].kids = Append(@, n)]

Node(kind, kids, tag) == [kind |-> kind, kids |-> kids, tag |-> tag]

NewNode == Len(nodes) + 1

Asking == phase = "gen" /\ Len(Top.vals) < (CASE Top.kind \in {"form", "define"} -> 1
                                              [] Top.kind = "if" -> Top.stage
                                              [] Top.kind = "app" /\ Top.stage = 1 -> 1
                                              [] OTHER -> MaxNodes)

Room == Len(nodes) + Len(stack) + forms <= MaxNodes

Same == UNCHANGED <<interactive, phase, forms>>

-----------------------------------------------------------------------------
\* A form without sub-forms

\* LSObjNew and the stores that follow it, or the load of a global symbol
Constant ==
  /\ Asking /\ Room
  /\ nodes' = Append(nodes, Node("leaf", <<>>, 0))
  /\ blocks' = Emit(blocks, insert, <<Do("eval", Val(NewNode), <<>>)>>)
  /\ stack' = Deliver(stack, Val(NewNode), NewNode)
  /\ ready' = {}
  /\ Same /\ UNCHANGED <<funs, insert>>

\* mutant: functions that are complete take a reference too
BetweenSince(g) == (g + 1)..Len(funs)

\* the open functions inside g
Between(g) == {f \in OpenFuns : f > g}

(***************************************************************************)
(* A local variable: the innermost function's parameter, or a placeholder    *)
(* for an outer one in every function between (searchLocalBinding).  It       *)
(* emits nothing.                                                           *)
(***************************************************************************)
Variable(g) ==
  LET f == CHOOSE h \in OpenFuns : \A k \in OpenFuns : k <= h
  IN
  /\ Asking /\ Room /\ g \in OpenFuns
  /\ nodes' = Append(nodes, Node("var", <<>>, g))
  /\ funs' = [h \in 1..Len(funs) |->
                IF h \in Between(g) THEN [funs[h] EXCEPT !.refs = @ \cup {g}] ELSE funs[h]]
  /\ stack' = Deliver(stack, IF f = g THEN Arg(g) ELSE Free(f, g), NewNode)
  /\ ready' = {}
  /\ Same /\ UNCHANGED <<blocks, insert>>

-----------------------------------------------------------------------------
\* SExprASTNode::codeGenEval: an application

Open(kind) ==
  /\ Asking /\ Room
  /\ stack' = Append(stack, Frame(kind))
  /\ ready' = {}
  /\ Same /\ UNCHANGED <<nodes, blocks, funs, insert>>

BeginApp == Open("app")

\* lsrt_func_p and the loads from the function object, before any operand
AppOperator ==
  /\ phase = "gen" /\ Top.kind = "app" /\ Top.stage = 1 /\ Len(Top.vals) = 1
  /\ blocks' = Emit(blocks, insert, <<Do("func_p", None, Top.vals)>>)
  /\ stack' = [stack EXCEPT ![Len(stack)].stage = 2]
  /\ ready' = {}
  /\ Same /\ UNCHANGED <<nodes, funs, insert>>

EndApp ==
  /\ phase = "gen" /\ Top.kind = "app" /\ Top.stage = 2
  /\ nodes' = Append(nodes, Node("app", Top.kids, 0))
  /\ blocks' = Emit(blocks, insert, <<Do("call", Val(NewNode), Top.vals)>>)
  /\ stack' = Deliver(Outer, Val(NewNode), NewNode)
  /\ ready' = {}
  /\ Same /\ UNCHANGED <<funs, insert>>

-----------------------------------------------------------------------------
\* handleBegin; (begin) itself is a constant

BeginBegin == Open("begin")

EndBegin ==
  /\ phase = "gen" /\ Top.kind = "begin" /\ Top.vals # <<>>
  /\ nodes' = Append(nodes, Node("begin", Top.kids, 0))
  /\ stack' = Deliver(Outer, Top.vals[Len(Top.vals)], NewNode)
  /\ ready' = {}
  /\ Same /\ UNCHANGED <<blocks, funs, insert>>

-----------------------------------------------------------------------------
\* handleDefine, which returns an unspecified object

BeginDefine == Open("define")

EndDefine ==
  /\ phase = "gen" /\ Top.kind = "define" /\ Len(Top.vals) = 1
  /\ nodes' = Append(nodes, Node("define", Top.kids, 0))
  /\ blocks' = Emit(blocks, insert, <<Do("store", None, Top.vals), Do("eval", Val(NewNode), <<>>)>>)
  /\ stack' = Deliver(Outer, Val(NewNode), NewNode)
  /\ ready' = {}
  /\ Same /\ UNCHANGED <<funs, insert>>

-----------------------------------------------------------------------------
(***************************************************************************)
(* handleIf.  The test's number is the block that it creates for `then'.      *)
(***************************************************************************)
BeginIf == Open("if")

\* mutant: the targets of the conditional branch swapped
TestCodeSwapped(test, bbs) ==
  <<Do("test", <<"if", bbs[1], 0>>, <<test>>),
    Instr("condbr", None, <<<<"if", bbs[1], 0>>>>, <<bbs[2], bbs[1]>>)>>

TestCode(test, bbs) ==
  <<Do("test", <<"if", bbs[1], 0>>, <<test>>),
    Instr("condbr", None, <<<<"if", bbs[1], 0>>>>, <<bbs[1], bbs[2]>>)>>

\* mutant: `else' is put into the function when it is created
createdAll(list, bbs) == list \o <<bbs[1], bbs[2]>>

\* of the three blocks only `then' is created in the function
created(list, bbs) == Append(list, bbs[1])

IfTest ==
  LET bbs == [k \in 1..3 |-> Len(blocks) + k]
      func == ParentOf(insert)
  IN
  /\ phase = "gen" /\ Top.kind = "if" /\ Top.stage = 1 /\ Len(Top.vals) = 1
  /\ blocks' = Emit(blocks, insert, TestCode(Top.vals[1], bbs)) \o <<<<>>, <<>>, <<>>>>
  /\ funs' = [funs EXCEPT ![func].list = created(@, bbs)]
  /\ insert' = bbs[1]
  /\ stack' = [stack EXCEPT ![Len(stack)].stage = 2, ![Len(stack)].bbs = bbs,
                            ![Len(stack)].fn = func]
  /\ ready' = {}
  /\ Same /\ UNCHANGED nodes

\* mutant: `then' still names the block its code began in
thenEndStale(bbs) == bbs

\* thenbb = builder.GetInsertBlock(), which a nested `if' has moved
thenEnd(bbs) == [bbs EXCEPT ![1] = insert]

IfThen ==
  /\ phase = "gen" /\ Top.kind = "if" /\ Top.stage = 2 /\ Len(Top.vals) = 2
  /\ blocks' = Emit(blocks, insert, <<Branch(Top.bbs[3])>>)
  /\ funs' = [funs EXCEPT ![Top.fn].list = Append(@, Top.bbs[2])]
  /\ insert' = Top.bbs[2]
  /\ stack' = [stack EXCEPT ![Len(stack)].stage = 3,
                            ![Len(stack)].bbs = thenEnd(@) \o <<Top.bbs[1]>>]
  /\ ready' = {}
  /\ Same /\ UNCHANGED nodes

(***************************************************************************)
(* After `else', or without one, with an unspecified object in its place.     *)
(***************************************************************************)
EndIf ==
  LET one == Len(Top.vals) = 2
      u == NewNode
      n == IF one THEN u + 1 ELSE u
      merge == Top.bbs[3]
      vals == IF one THEN Append(Top.vals, Val(u)) ELSE Top.vals
      kids == IF one THEN Append(Top.kids, u) ELSE Top.kids
      else == IF one THEN <<Do("eval", Val(u), <<>>), Branch(merge)>> ELSE <<Branch(merge)>>
      phi == Instr("phi", Val(n), SubSeq(vals, 2, 3), <<Top.bbs[1], insert>>)
  IN
  /\ phase = "gen" /\ Top.kind = "if" /\ Top.stage = 3
  /\ nodes' = nodes \o (IF one THEN <<Node("leaf", <<>>, 0)>> ELSE <<>>)
                    \o <<Node("if", kids, Top.bbs[4])>>
  /\ blocks' = Emit(Emit(blocks, insert, else), merge, <<phi>>)
  /\ funs' = [funs EXCEPT ![Top.fn].list = Append(@, merge)]
  /\ insert' = merge
  /\ stack' = Deliver(Outer, Val(n), n)
  /\ ready' = {}
  /\ Same

-----------------------------------------------------------------------------
\* createFunction

BeginFunction ==
  LET f == Len(funs) + 1
      bb == Len(blocks) + 1
  IN
  /\ Asking /\ Room /\ f <= MaxFuns
  /\ funs' = Append(funs, [NewFun EXCEPT !.list = <<bb>>])
  /\ blocks' = Append(blocks, <<Do("argc", None, <<>>), Do("load", Arg(f), <<>>)>>)
  /\ insert' = bb
  /\ stack' = Append(stack, [Frame("fn") EXCEPT !.fn = f, !.bbs = <<bb>>])
  /\ ready' = {}
  /\ Same /\ UNCHANGED nodes

\* f->getBasicBlockList().push_front(bb)
push_front(list, bb) == <<bb>> \o list

\* what a function's parent has of the parameter of g
ParentValue(p, g) == IF p = g THEN Arg(g) ELSE Free(p, g)

(***************************************************************************)
(* After the body: ret, the block of loads from the freelist if there are     *)
(* free variables, and back in the parent the object with its freelist.       *)
(***************************************************************************)
EndFunction ==
  LET f == Top.fn
      n == NewNode
      refs == SetToSeq(funs[f].refs)
      parent == ParentOf(Top.prev)
      prolog == Len(blocks) + 1
      loads == [k \in 1..Len(refs) |-> Do("load", Free(f, refs[k]), <<>>)]
      fills == [k \in 1..Len(refs) |-> ParentValue(parent, refs[k])]
      made == IF refs = <<>> THEN Object(f) ELSE Val(n)
      done == Emit(blocks, insert, <<Do("ret", None, <<Top.vals[Len(Top.vals)]>>)>>)
      body == IF refs = <<>> THEN done ELSE Append(done, Append(loads, Branch(Top.bbs[1])))
  IN
  /\ phase = "gen" /\ Top.kind = "fn" /\ Top.vals # <<>>
  /\ nodes' = Append(nodes, Node("lambda", Top.kids, f))
  /\ funs' = [funs EXCEPT ![f].body = Top.kids,
                          ![f].list = IF refs = <<>> THEN @ ELSE push_front(@, prolog)]
  /\ insert' = Top.prev
  /\ blocks' = Emit(body, Top.prev, <<Do("close", made, fills)>>)
  /\ stack' = Deliver(Outer, made, n)
  /\ ready' = {f}
  /\ Same

-----------------------------------------------------------------------------
\* driver.cc

EntryCode == IF interactive THEN <<>> ELSE <<Do("prolog", None, <<>>), Do("memory_init", None, <<>>)>>

(***************************************************************************)
(* codegenInit, which creates the empty _prolog first, and InterpreterRun up  *)
(* to codeGenEval.                                                          *)
(***************************************************************************)
BeginForm ==
  LET new == IF interactive THEN <<NewFun>> ELSE <<NewFun, NewFun>>
      bb == Len(blocks) + 1
      f == Len(funs) + Len(new)
  IN
  /\ phase = "idle" /\ forms < MaxForms
  /\ forms' = forms + 1
  /\ phase' = "gen"
  /\ funs' = [funs \o new EXCEPT ![f].list = <<bb>>]
  /\ blocks' = Append(blocks, EntryCode)
  /\ insert' = bb
  /\ stack' = <<[Frame("form") EXCEPT !.fn = f, !.bbs = <<bb>>]>>
  /\ ready' = {}
  /\ UNCHANGED <<interactive, nodes>>

\* codegenFinish: main returns, and _prolog gets its only block
FinishMain ==
  LET bb == Len(blocks) + 1 IN
  /\ phase = "gen" /\ ~interactive /\ Top.kind = "form" /\ Len(Top.vals) = 1
  /\ blocks' = Append(Emit(blocks, insert, <<Do("main_retval", None, Top.vals), Do("ret", None, <<>>)>>),
                      <<Do("builtins", None, <<>>), Do("ret", None, <<>>)>>)
  /\ funs' = [funs EXCEPT ![Top.fn].body = Top.kids, ![Top.fn - 1].list = <<bb>>]
  /\ insert' = bb
  /\ stack' = <<>>
  /\ phase' = "exit"
  /\ ready' = {Top.fn - 1, Top.fn}
  /\ UNCHANGED <<interactive, forms, nodes>>

\* InterpreterRun: the builtins are installed by a block in front of the form's
FinishForm ==
  LET bb == Len(blocks) + 1 IN
  /\ phase = "gen" /\ interactive /\ Top.kind = "form" /\ Len(Top.vals) = 1
  /\ blocks' = Append(Emit(blocks, insert, <<Do("ret", None, <<>>)>>),
                      <<Do("builtins", None, <<>>), Branch(Top.bbs[1])>>)
  /\ funs' = [funs EXCEPT ![Top.fn].body = Top.kids, ![Top.fn].list = push_front(@, bb)]
  /\ insert' = bb
  /\ stack' = <<>>
  /\ phase' = "idle"
  /\ ready' = {Top.fn}
  /\ UNCHANGED <<interactive, forms, nodes>>

\* an Error, anywhere; the insert point stays inside what was left unfinished
Throw ==
  /\ phase = "gen"
  /\ phase' = IF interactive THEN "idle" ELSE "exit"
  /\ stack' = <<>>
  /\ ready' = {}
  /\ UNCHANGED <<interactive, forms, nodes, blocks, funs, insert>>

-----------------------------------------------------------------------------

Init ==
  /\ interactive \in BOOLEAN
  /\ phase = "idle"
  /\ forms = 0 /\ insert = 0
  /\ nodes = <<>> /\ blocks = <<>> /\ funs = <<>> /\ stack = <<>>
  /\ ready = {}

Next ==
  \/ BeginForm \/ FinishMain \/ FinishForm \/ Throw
  \/ Constant \/ (\E g \in OpenFuns : Variable(g))
  \/ BeginApp \/ AppOperator \/ EndApp
  \/ BeginBegin \/ EndBegin \/ BeginDefine \/ EndDefine
  \/ BeginIf \/ IfTest \/ IfThen \/ EndIf
  \/ BeginFunction \/ EndFunction

Spec == Init /\ [][Next]_vars

-----------------------------------------------------------------------------
\* What llvm::verifyFunction checks

BlocksOf(f) == {funs[f].list[k] : k \in 1..Len(funs[f].list)}

LastOf(b) == blocks[b][Len(blocks[b])]

Successors(b) == {LastOf(b).to[k] : k \in 1..Len(LastOf(b).to)}

Predecessors(f, b) == {a \in BlocksOf(f) : b \in Successors(a)}

\* every block of f ends with its only terminator, which stays inside f
Terminated(f) ==
  /\ \A b \in BlocksOf(f) :
       /\ blocks[b] # <<>>
       /\ \A k \in 1..Len(blocks[b]) : (blocks[b][k].does \in Terminator) = (k = Len(blocks[b]))
       /\ Successors(b) \subseteq BlocksOf(f)
  /\ Predecessors(f, funs[f].list[1]) = {}

\* the incoming blocks of a phi, which comes first, are its predecessors
PhisMatch(f) ==
  \A b \in BlocksOf(f) : \A k \in 1..Len(blocks[b]) :
    blocks[b][k].does = "phi" =>
      /\ k = 1
      /\ Len(blocks[b][k].to) = Cardinality(Predecessors(f, b))
      /\ {blocks[b][k].to[j] : j \in 1..Len(blocks[b][k].to)} = Predecessors(f, b)

\* the blocks on some path from the first one that avoids d
Without(f, d) ==
  LET R[k \in Nat] == IF k = 0 THEN {funs[f].list[1]} \ {d}
                      ELSE R[k - 1] \cup (UNION {Successors(b) : b \in R[k - 1]} \ {d})
  IN R[Len(funs[f].list)]

Dominates(f, d, b) == b = d \/ b \notin Without(f, d)

Defines(b, k, op) == blocks[b][k].def = op

\* op is available in front of instruction k of block b
Available(f, op, b, k) ==
  \/ op[1] = "object"
  \/ \E j \in 1..(k - 1) : Defines(b, j, op)
  \/ \E d \in BlocksOf(f) \ {b} :
       Dominates(f, d, b) /\ \E j \in 1..Len(blocks[d]) : Defines(d, j, op)

Dominated(f) ==
  \A b \in BlocksOf(f) : \A k \in 1..Len(blocks[b]) :
    LET i == blocks[b][k] IN
    \A j \in 1..Len(i.uses) :
      IF i.does = "phi" THEN Available(f, i.uses[j], i.to[j], Len(blocks[i.to[j]]) + 1)
      ELSE Available(f, i.uses[j], b, k)

(***************************************************************************)
(* A function is well formed when createFunction passes it to verifyFunction,  *)
(* which kills the process otherwise, and so is the function of a form when   *)
(* it is run or printed: one terminator for each block, phis that match their *)
(* predecessors, every operand computed on every path to its use.            *)
(***************************************************************************)
Verified == \A f \in ready : Terminated(f) /\ PhisMatch(f) /\ Dominated(f)

(***************************************************************************)
(* A function that is complete never changes again, whatever is generated     *)
(* or fails after it: no later step writes through a stale insert point.      *)
(***************************************************************************)
CompletedStay ==
  [][\A f \in 1..Len(funs) :
       funs[f].body # <<>> =>
         /\ funs'[f] = funs[f]
         /\ \A b \in BlocksOf(f) : blocks'[b] = blocks[b]]_vars

-----------------------------------------------------------------------------
(***************************************************************************)
(* What a function does when it is called, with T the tests that succeed: the *)
(* instructions with an effect, each with the values of its operands, up to    *)
(* the ret.                                                                 *)
(***************************************************************************)
Fault == <<"fault">>

With(regs, op, v) == [o \in DOMAIN regs \cup {op} |-> IF o = op THEN v ELSE regs[o]]

RECURSIVE Exec(_, _, _, _, _)
Exec(b, k, from, regs, T) ==
  LET i == blocks[b][k]
      read(op) == IF op[1] = "object" THEN op
                  ELSE IF op \in DOMAIN regs THEN regs[op] ELSE Fault
      vals == [j \in 1..Len(i.uses) |-> read(i.uses[j])]
      via == {j \in 1..Len(i.to) : i.to[j] = from}
  IN IF k > Len(blocks[b]) THEN <<Fault>> ELSE
     CASE i.does = "phi" ->
            IF via = {} THEN <<Fault>>
            ELSE Exec(b, k + 1, from, With(regs, i.def, vals[CHOOSE j \in via : TRUE]), T)
       [] i.does = "load" ->
            Exec(b, k + 1, from, With(regs, i.def, Arg(i.def[IF i.def[1] = "arg" THEN 2 ELSE 3])), T)
       [] i.does = "br" -> Exec(i.to[1], 1, b, regs, T)
       [] i.does = "condbr" ->
            Exec(IF i.uses[1][2] \in T THEN i.to[1] ELSE i.to[2], 1, b, regs, T)
       [] i.does = "ret" -> <<<<"ret", vals>>>>
       [] i.does = "prolog" -> Exec(b, k + 1, from, regs, T)
       [] OTHER -> <<<<i.does, vals>>>> \o Exec(b, k + 1, from, With(regs, i.def, i.def), T)

-----------------------------------------------------------------------------
\* The reference: the value of a form, and what its evaluation does in order

RECURSIVE FreeIn(_)
FreeIn(n) ==
  LET below == UNION {FreeIn(nodes[n].kids[k]) : k \in 1..Len(nodes[n].kids)}
  IN CASE nodes[n].kind = "var" -> {nodes[n].tag}
       [] nodes[n].kind = "lambda" -> below \ {nodes[n].tag}
       [] OTHER -> below

RECURSIVE Result(_, _)
Result(n, T) ==
  LET x == nodes[n] IN
  CASE x.kind \in {"leaf", "app", "define"} -> Val(n)
    [] x.kind = "var" -> Arg(x.tag)
    [] x.kind = "begin" -> Result(x.kids[Len(x.kids)], T)
    [] x.kind = "if" -> Result(x.kids[IF x.tag \in T THEN 2 ELSE 3], T)
    [] x.kind = "lambda" -> IF FreeIn(n) = {} THEN Object(x.tag) ELSE Val(n)

Results(ns, T) == [k \in 1..Len(ns) |-> Result(ns[k], T)]

RECURSIVE Effects(_, _)
Effects(n, T) ==
  LET x == nodes[n]
      all(ns) == FlattenSeq([k \in 1..Len(ns) |-> Effects(ns[k], T)])
      free == SetToSeq(FreeIn(n))
  IN CASE x.kind = "leaf" -> <<<<"eval", <<>>>>>>
       [] x.kind = "var" -> <<>>
       [] x.kind = "begin" -> all(x.kids)
       [] x.kind = "define" ->
            all(x.kids) \o <<<<"store", Results(x.kids, T)>>, <<"eval", <<>>>>>>
       [] x.kind = "app" -> Effects(x.kids[1], T) \o <<<<"func_p", <<Result(x.kids[1], T)>>>>>>
                              \o all(Tail(x.kids)) \o <<<<"call", Results(x.kids, T)>>>>
       [] x.kind = "if" -> Effects(x.kids[1], T) \o <<<<"test", <<Result(x.kids[1], T)>>>>>>
                             \o Effects(x.kids[IF x.tag \in T THEN 2 ELSE 3], T)
       [] x.kind = "lambda" -> <<<<"close", [k \in 1..Len(free) |-> Arg(free[k])]>>>>

BodyEffects(f, T) ==
  FlattenSeq([k \in 1..Len(funs[f].body) |-> Effects(funs[f].body[k], T)])

BodyResult(f, T) == Result(funs[f].body[Len(funs[f].body)], T)

\* a lambda's function, a form of the interpreter, main, and _prolog
Expected(f, T) ==
  CASE phase = "gen" -> <<<<"argc", <<>>>>>> \o BodyEffects(f, T)
                          \o <<<<"ret", <<BodyResult(f, T)>>>>>>
    [] phase = "idle" -> <<<<"builtins", <<>>>>>> \o BodyEffects(f, T) \o <<<<"ret", <<>>>>>>
    [] phase = "exit" /\ funs[f].body # <<>> ->
         <<<<"memory_init", <<>>>>>> \o BodyEffects(f, T)
           \o <<<<"main_retval", <<BodyResult(f, T)>>>>, <<"ret", <<>>>>>>
    [] OTHER -> <<<<"builtins", <<>>>>, <<"ret", <<>>>>>>

Tests(f) == {nodes[n].tag : n \in {m \in 1..Len(nodes) : nodes[m].kind = "if"}}
              \cap UNION {Successors(b) : b \in BlocksOf(f)}

(***************************************************************************)
(* The code of a function does what its body says, whichever tests succeed:   *)
(* the same evaluations, checks, calls and closures in the same order, each   *)
(* on the values of the right sub-forms, and the value returned is that of    *)
(* the last form.                                                           *)
(***************************************************************************)
CodeCorrect ==
  \A f \in ready : \A T \in SUBSET Tests(f) :
    Exec(funs[f].list[1], 1, 0, <<>>, T) = Expected(f, T)
=============================================================================
