-------------------------------- MODULE Heap --------------------------------
(***************************************************************************)
(* Pairs, lists and vectors of the runtime (src/runtime/pairlist.c, vector.c) *)
(* on a heap of objects; strings are added in Strings.  The caller is a      *)
(* program: it passes any objects it has, in any number, and goes on after an *)
(* error as the interpreter does.  The loops over cdr take a step per pair,   *)
(* for set-cdr! makes circles.                                             *)
(***************************************************************************)
EXTENDS Integers, Sequences, FiniteSets

CONSTANTS
  Programs,     \* bound: the builtins a program calls, the objects it has at first
                \* and how many it may have
  MaxArgs,      \* bound: arguments of list and vector, and slots of make-vector
  IntMax,       \* the largest C int
  PointerBits   \* bound: ints that the pointer to a big number may look like

Kind == {"unspec", "boolean", "small", "big", "nil", "pair", "vector",
         "string", "symbol"}

\* u1.val and the objects that u1.ptr and u2.ptr refer to
Object == [kind : Kind, val : Int, refs : Seq(Nat)]

Obj(k, v, rs) == [kind |-> k, val |-> v, refs |-> rs]

\* global_unspec_obj, global_true_obj, global_false_obj; NULL is an error's result
NULL == 0
unspec == 1
Bool(b) == IF b THEN 2 ELSE 3
Globals ==
  <<Obj("unspec", 0, <<>>), Obj("boolean", 1, <<>>), Obj("boolean", 0, <<>>)>>

StringOps == {"symbol?", "symbol->string", "string?", "string-length", "string=?",
              "string-ci=?", "substring", "string-append"}

Ops == {"cons", "set-car!", "set-cdr!", "list-ref", "vector-ref", "car", "cdr",
        "null?", "pair?", "list?", "length", "vector?", "vector-length",
        "vector->list", "make-vector", "list", "vector"} \cup StringOps

ASSUME HeapAssumption ==
  /\ Programs \subseteq [calls : SUBSET Ops, given : Seq(Object), max : 0..(IntMax - 1)]
  /\ \A p \in Programs :
       /\ Len(Globals) + Len(p.given) <= p.max
       /\ \A k \in 1..Len(p.given) :
            LET o == p.given[k] IN
            /\ \A r \in 1..Len(o.refs) : o.refs[r] \in 1..(Len(Globals) + Len(p.given))
            /\ o.kind = "pair" => Len(o.refs) = 2
            /\ o.kind = "vector" => o.val = Len(o.refs)
  /\ MaxArgs \in Nat /\ IntMax \in Nat \ {0}
  /\ PointerBits \subseteq (-IntMax - 1)..IntMax

VARIABLES
  program, heap,
  pc,      \* "idle"; in the loop of _length and _listp, "walk"; of list-ref, "ref"
  call,    \* the call that is, or was last, in a loop or that made a list
  it, len, idx,
  ret      \* the object returned last, NULL before a loop returns

vars == <<program, heap, pc, call, it, len, idx, ret>>

Loops == {"list?", "length", "list-ref", "vector->list"}

TypeOK ==
  /\ program \in Programs
  /\ heap \in Seq(Object)
  /\ pc \in {"idle", "walk", "ref"}
  /\ call \in [op : Loops \cup StringOps \cup {"none"}, args : Seq(Nat)]
  /\ it \in 0..Len(heap)
  /\ len \in (-IntMax - 1)..IntMax
  /\ idx \in 0..IntMax
  /\ ret \in 0..Len(heap)

NoCall == [op |-> "none", args |-> <<>>]

Init ==
  /\ program \in Programs
  /\ heap = Globals \o program.given
  /\ pc = "idle" /\ call = NoCall
  /\ it = NULL /\ len = 0 /\ idx = 0
  /\ ret = unspec

-----------------------------------------------------------------------------

\* Arguments: anything but the globals
Args(n) == [1..n -> (Len(Globals) + 1)..Len(heap)]

Is(k, x) == heap[x].kind = k
lso_is_number(x) == Is("small", x) \/ Is("big", x)

\* lso_simplenumber_get, whatever kind of number x is
lso_simplenumber_get(x) == IF Is("small", x) THEN {heap[x].val} ELSE PointerBits

car(x) == heap[x].refs[1]
cdr(x) == heap[x].refs[2]

\* what each builtin gives lsrt_check_args_count, its first call
Arity(op) ==
  CASE op \in {"cons", "set-car!", "set-cdr!", "list-ref", "vector-ref", "string=?",
             "string-ci=?"} -> <<2, 2>>
    [] op \in {"car", "cdr", "null?", "pair?", "list?", "length", "vector?",
               "vector-length", "vector->list", "symbol?", "symbol->string", "string?",
               "string-length"} -> <<1, 1>>
    [] op = "substring" -> <<3, 3>>
    [] op = "string-append" -> <<1, 0>>
    [] op = "make-vector" -> <<1, 2>>
    [] op \in {"list", "vector"} -> <<0, 0>>

\* 0 is no limit
lsrt_check_args_count(min, max, argc) ==
  (min # 0 => min <= argc) /\ (max # 0 => argc <= max)

Counted(op, args) == lsrt_check_args_count(Arity(op)[1], Arity(op)[2], Len(args))

\* the lsrt_*_p checks of op
Checked(op, args) ==
  /\ op \in {"car", "cdr", "set-car!", "set-cdr!"} => Is("pair", args[1])
  /\ op \in {"vector-length", "vector-ref", "vector->list"} => Is("vector", args[1])
  /\ op \in {"list-ref", "vector-ref"} => lso_is_number(args[2])
  /\ op = "make-vector" => lso_is_number(args[1])
  /\ op = "symbol->string" => Is("symbol", args[1])
  /\ op \in {"string-length", "substring"} => Is("string", args[1])
  /\ op \in {"string=?", "string-ci=?", "string-append"} => \A k \in 1..Len(args) : Is("string", args[k])
  /\ op = "substring" => lso_is_number(args[2]) /\ lso_is_number(args[3])

Called(op, args) ==
  pc = "idle" /\ op \in program.calls /\ Counted(op, args) /\ Checked(op, args)

Return(x) ==
  /\ pc' = "idle"
  /\ ret' = x

lsrt_error == Return(NULL)

\* A builtin that is one step
Atomic == call' = NoCall /\ it' = NULL /\ len' = 0 /\ idx' = 0 /\ UNCHANGED program

lsrt_new_object(os) ==
  /\ Len(heap) + Len(os) <= program.max
  /\ heap' = heap \o os
  /\ Return(Len(heap) + Len(os))

Reject ==
  /\ pc = "idle"
  /\ ~\A op \in program.calls : \A n \in 0..MaxArgs : \A args \in Args(n) :
        Counted(op, args) /\ Checked(op, args)
  /\ lsrt_error
  /\ Atomic
  /\ UNCHANGED heap

Cons(x, y) ==
  /\ Called("cons", <<x, y>>)
  /\ lsrt_new_object(<<Obj("pair", 0, <<x, y>>)>>)
  /\ Atomic

CarCdr(x) ==
  /\ \/ Called("car", <<x>>) /\ Return(car(x))
     \/ Called("cdr", <<x>>) /\ Return(cdr(x))
  /\ Atomic
  /\ UNCHANGED heap

SetCarCdr(x, y) ==
  /\ \/ Called("set-car!", <<x, y>>) /\ heap' = [heap EXCEPT ![x].refs[1] = y]
     \/ Called("set-cdr!", <<x, y>>) /\ heap' = [heap EXCEPT ![x].refs[2] = y]
  /\ Return(unspec)
  /\ Atomic

Predicate(x) ==
  /\ \/ Called("null?", <<x>>) /\ Return(Bool(Is("nil", x))) /\ UNCHANGED heap
     \/ Called("pair?", <<x>>) /\ Return(Bool(Is("pair", x))) /\ UNCHANGED heap
     \/ /\ Called("vector?", <<x>>)
        /\ lsrt_new_object(<<Obj("boolean", IF Is("vector", x) THEN 1 ELSE 0, <<>>)>>)
  /\ Atomic

\* mutant: the pairs hold the arguments in the order they are made
listOfReversed(args) ==
  <<Obj("nil", 0, <<>>)>> \o
    [k \in 1..Len(args) |-> Obj("pair", 0, <<args[k], Len(heap) + k>>)]

\* lsrt_builtin_list: nil first, then the pairs from the last one to the first
listOf(args) ==
  <<Obj("nil", 0, <<>>)>> \o
    [k \in 1..Len(args) |->
       Obj("pair", 0, <<args[Len(args) + 1 - k], Len(heap) + k>>)]

List(args) ==
  /\ Called("list", args)
  /\ lsrt_new_object(listOf(args))
  /\ Atomic

VectorToList(x) ==
  /\ Called("vector->list", <<x>>)
  /\ lsrt_new_object(listOf(heap[x].refs))
  /\ call' = [op |-> "vector->list", args |-> <<x>>]
  /\ it' = NULL /\ len' = 0 /\ idx' = 0
  /\ UNCHANGED program

\* vector_new: the slots are not initialized
vector_new(n) == Obj("vector", n, [k \in 1..n |-> NULL])

\* mutant: the loop ends before the last slot
fillShort(v, n, x) ==
  [v EXCEPT !.refs = [k \in 1..v.val |-> IF k < n THEN x[k] ELSE @[k]]]

\* the loop that fills the slots
fill(v, n, x) == [v EXCEPT !.refs = [k \in 1..v.val |-> IF k <= n THEN x[k] ELSE @[k]]]

MakeVector(args) ==
  /\ Called("make-vector", args)
  /\ \E n \in lso_simplenumber_get(args[1]) :
       \/ n < 0 /\ lsrt_error /\ UNCHANGED heap
       \/ /\ n \in 0..MaxArgs
          /\ LET x == IF Len(args) = 1 THEN unspec ELSE args[2]
             IN lsrt_new_object(<<fill(vector_new(n), n, [k \in 1..n |-> x])>>)
  /\ Atomic

Vector(args) ==
  /\ Called("vector", args)
  /\ lsrt_new_object(<<fill(vector_new(Len(args)), Len(args), args)>>)
  /\ Atomic

VectorLength(x) ==
  /\ Called("vector-length", <<x>>)
  /\ lsrt_new_object(<<Obj("small", heap[x].val, <<>>)>>)
  /\ Atomic

VectorRef(x, i) ==
  /\ Called("vector-ref", <<x, i>>)
  /\ \E k \in lso_simplenumber_get(i) :
       IF k < 0 \/ k >= heap[x].val THEN lsrt_error ELSE Return(heap[x].refs[k + 1])
  /\ Atomic
  /\ UNCHANGED heap

(***************************************************************************)
(* list?, length and list-ref: _listp or _length goes first.                 *)
(***************************************************************************)
StartWalk(op, args) ==
  /\ op \in {"list?", "length", "list-ref"}
  /\ Called(op, args)
  /\ op = "length" => Len(heap) < program.max    \* bound: room for the result
  /\ pc' = "walk"
  /\ call' = [op |-> op, args |-> args]
  /\ it' = args[1] /\ len' = 0 /\ idx' = 0
  /\ ret' = NULL
  /\ UNCHANGED <<program, heap>>

\* len++ of an int that a circular list makes overflow
Increment(n) == IF n = IntMax THEN -IntMax - 1 ELSE n + 1

WalkPair ==
  /\ pc = "walk" /\ Is("pair", it)
  /\ it' = cdr(it)
  /\ len' = IF call.op = "list?" THEN len ELSE Increment(len)
  /\ UNCHANGED <<program, heap, pc, call, idx, ret>>

\* mutant: everything but a pair ends a list
WalkNotAListAsNil ==
  /\ pc = "walk" /\ ~Is("pair", it) /\ ~Is("nil", it)
  /\ IF call.op = "list?" THEN Return(Bool(TRUE)) ELSE lsrt_error
  /\ UNCHANGED <<program, heap, call, it, len, idx>>

\* mutant: the loop ends at nil only
WalkNotAListIgnored ==
  /\ pc = "walk" /\ ~Is("pair", it) /\ ~Is("nil", it)
  /\ UNCHANGED vars

WalkNotAList ==
  /\ pc = "walk" /\ ~Is("pair", it) /\ ~Is("nil", it)
  /\ IF call.op = "list?" THEN Return(Bool(FALSE)) ELSE lsrt_error
  /\ UNCHANGED <<program, heap, call, it, len, idx>>

AtNil(op) == pc = "walk" /\ Is("nil", it) /\ call.op = op

ListpEnd ==
  /\ AtNil("list?")
  /\ Return(Bool(TRUE))
  /\ UNCHANGED <<program, heap, call, it, len, idx>>

LengthEnd ==
  /\ AtNil("length")
  /\ lsrt_new_object(<<Obj("small", len, <<>>)>>)
  /\ UNCHANGED <<program, call, it, len, idx>>

\* mutant: no test of idx < 0
ListRefRangeNoSign ==
  /\ AtNil("list-ref")
  /\ \E k \in lso_simplenumber_get(call.args[2]) :
       IF k >= len THEN lsrt_error /\ UNCHANGED <<it, idx>>
       ELSE pc' = "ref" /\ it' = call.args[1] /\ idx' = k /\ UNCHANGED ret
  /\ UNCHANGED <<program, heap, call, len>>

\* mutant: idx > len for idx >= len
ListRefRangeOffByOne ==
  /\ AtNil("list-ref")
  /\ \E k \in lso_simplenumber_get(call.args[2]) :
       IF k < 0 \/ k > len THEN lsrt_error /\ UNCHANGED <<it, idx>>
       ELSE pc' = "ref" /\ it' = call.args[1] /\ idx' = k /\ UNCHANGED ret
  /\ UNCHANGED <<program, heap, call, len>>

ListRefRange ==
  /\ AtNil("list-ref")
  /\ \E k \in lso_simplenumber_get(call.args[2]) :
       IF k < 0 \/ k >= len THEN lsrt_error /\ UNCHANGED <<it, idx>>
       ELSE pc' = "ref" /\ it' = call.args[1] /\ idx' = k /\ UNCHANGED ret
  /\ UNCHANGED <<program, heap, call, len>>

\* mutant: idx > 1 for idx > 0
ListRefStepShort ==
  /\ pc = "ref"
  /\ IF idx > 1 THEN it' = cdr(it) /\ idx' = idx - 1 /\ UNCHANGED <<pc, ret>>
     ELSE Return(car(it)) /\ UNCHANGED <<it, idx>>
  /\ UNCHANGED <<program, heap, call, len>>

\* Neither loop nor return looks at the kind of the object
ListRefStep ==
  /\ pc = "ref"
  /\ \/ /\ idx > 0
        /\ it' = cdr(it) /\ idx' = idx - 1
        /\ UNCHANGED <<pc, ret>>
     \/ /\ idx = 0
        /\ Return(car(it))
        /\ UNCHANGED <<it, idx>>
  /\ UNCHANGED <<program, heap, call, len>>

Walking ==
  WalkPair \/ WalkNotAList \/ ListpEnd \/ LengthEnd \/ ListRefRange \/ ListRefStep

Start ==
  \/ Reject
  \/ \E a \in Args(1) :
       \/ CarCdr(a[1]) \/ Predicate(a[1]) \/ VectorLength(a[1]) \/ VectorToList(a[1])
  \/ \E a \in Args(2) :
       \/ Cons(a[1], a[2]) \/ SetCarCdr(a[1], a[2]) \/ VectorRef(a[1], a[2])
  \/ \E n \in 0..MaxArgs : \E a \in Args(n) : List(a) \/ Vector(a)
  \/ \E n \in 1..2 : \E a \in Args(n) :
       MakeVector(a) \/ \E op \in Loops \cap program.calls : StartWalk(op, a)

Next == (pc = "idle" /\ Start) \/ Walking

\* A call in a loop runs on until it returns: nothing else runs meanwhile
Spec == Init /\ [][Next]_vars /\ WF_vars(Walking)

-----------------------------------------------------------------------------

(***************************************************************************)
(* No object refers to nothing: every slot of a vector is filled before the   *)
(* vector gets out, and its length is the number of its slots.               *)
(***************************************************************************)
Closed ==
  \A x \in 1..Len(heap) :
    /\ \A k \in 1..Len(heap[x].refs) : heap[x].refs[k] \in 1..Len(heap)
    /\ Is("pair", x) => Len(heap[x].refs) = 2
    /\ Is("vector", x) => heap[x].val = Len(heap[x].refs)

(***************************************************************************)
(* The tails of x, as a reference that counts nothing: the least set with x   *)
(* in it that has the cdr of each of its pairs, reached in Len(heap) rounds.  *)
(***************************************************************************)
Tails(x) ==
  LET T[n \in 0..Len(heap)] ==
        IF n = 0 THEN {x}
        ELSE T[n - 1] \cup {cdr(y) : y \in {z \in T[n - 1] : Is("pair", z)}}
  IN T[Len(heap)]

\* Where the cdrs of x end, unless they go round in a circle
Ends(x) == {y \in Tails(x) : ~Is("pair", y)}

IsList(x) == \E y \in Ends(x) : Is("nil", y)

LengthOf(x) == Cardinality(Tails(x)) - 1

\* the element at position k of the list x
Element(x, k) == car(CHOOSE y \in Tails(x) : LengthOf(y) = LengthOf(x) - k)

Done(op) == pc = "idle" /\ call.op = op

(***************************************************************************)
(* length and list? tell lists from everything else, dotted lists included,   *)
(* and length returns the number of pairs.                                   *)
(***************************************************************************)
LengthCorrect ==
  LET x == call.args[1] IN
  /\ Done("list?") => ret = Bool(IsList(x))
  /\ Done("length") =>
       IF IsList(x) THEN ret # NULL /\ heap[ret].val = LengthOf(x) ELSE ret = NULL

(***************************************************************************)
(* list-ref returns the element at the position asked for and an error for    *)
(* every other position.                                                    *)
(***************************************************************************)
ListRefCorrect ==
  LET x == call.args[1]
      i == heap[call.args[2]]
  IN Done("list-ref") /\ i.kind = "small" =>
       IF IsList(x) /\ i.val \in 0..(LengthOf(x) - 1)
       THEN ret = Element(x, i.val) ELSE ret = NULL

(***************************************************************************)
(* The second loop of list-ref, which checks nothing, stays on the pairs that *)
(* the first one counted.                                                   *)
(***************************************************************************)
RefsPairs == pc = "ref" => Is("pair", it) /\ idx < LengthOf(it)

(***************************************************************************)
(* vector->list returns a new list of the slots, in their order.             *)
(***************************************************************************)
SlotsInOrder ==
  LET v == heap[call.args[1]] IN
  Done("vector->list") =>
    /\ IsList(ret) /\ LengthOf(ret) = v.val
    /\ \A k \in 1..v.val : Element(ret, k - 1) = v.refs[k]
    /\ \A x \in 1..Len(heap) : \A k \in 1..Len(heap[x].refs) :
         heap[x].refs[k] \in Tails(ret) => x \in Tails(ret)

(***************************************************************************)
(* A loop over a list that is no circle comes to an end.                     *)
(***************************************************************************)
WalkEnds == (pc # "idle" /\ Ends(call.args[1]) # {}) ~> (pc = "idle")

(***************************************************************************)
(* What the comment above _length promises: an answer for everything, also   *)
(* for what is not a list.                                                  *)
(***************************************************************************)
LengthAnswers == (pc = "walk" /\ call.op = "length") ~> (pc = "idle")

(***************************************************************************)
(* What object.h says of small numbers: only they are embedded in u1.val, so *)
(* only they can be read from there.                                        *)
(***************************************************************************)
IndexIsSmall == pc = "ref" => Is("small", call.args[2])
=============================================================================
