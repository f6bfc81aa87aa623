--------------------------- MODULE LexicalProofs ---------------------------
(***************************************************************************)
(* Closure conversion is lexical scoping, for programs of any size and       *)
(* nesting: the proof of LexicalScope, and why a builtin that code uses has    *)
(* its value when the code runs.                                           *)
(*                                                                         *)
(* LexicalScope compares two recursions, Binder up the functions around a      *)
(* name and Denotes down a chain of freelists.  The invariant ScopeInv needs   *)
(* no recursion along the chain: each operand stands for its name in the       *)
(* function that it is an operand of, and each slot of a freelist is filled    *)
(* with an operand that stands for the same name one function further out.    *)
(* ScopedLexical then follows the chain once, by induction on the function.    *)
(***************************************************************************)
EXTENDS DriverProofs

\* Where n is among the parameters of g, and the argument that it means there.
Positions(fs, g, n) == {i \in 1..Len(fs[g].formals) : fs[g].formals[i] = n}

Parameter(fs, g, n) ==
  Arg(g, CHOOSE i \in Positions(fs, g, n) : \A j \in Positions(fs, g, n) : i <= j)

\* A function is created after the function around it.
ParentsFirst(fs) == \A g \in 1..Len(fs) : fs[g].parent \in 0..(g - 1)

\* Binder and Denotes as functions of the functions created so far.
BinderIn(fs, g, n) ==
  LET B[h \in 0..Len(fs)] ==
        IF h = 0 THEN NULL
        ELSE LET pos == {i \in 1..Len(fs[h].formals) : fs[h].formals[i] = n}
             IN IF pos = {} THEN B[fs[h].parent]
                ELSE Arg(h, CHOOSE i \in pos : \A j \in pos : i <= j)
  IN B[g]

DenotesIn(fs, g, v) ==
  LET D[h \in 0..Len(fs)] == [w \in Value \cup {NULL} |->
        IF /\ w.kind = "load" /\ w.fn = h /\ h # 0
           /\ w.idx \in 1..Len(fs[h].free)
        THEN D[fs[h].parent][fs[h].free[w.idx]]
        ELSE IF w = NULL \/ (w.kind = "arg" /\ w.fn = h) THEN w
        ELSE Nothing]
  IN D[g][v]

\* Driver's references are these functions of the present state.
LEMMA Unprimed ==
  /\ \A g, n : Binder(g, n) = BinderIn(funs, g, n)
  /\ \A g, n : Binder(g, n)' = BinderIn(funs', g, n)
  /\ \A g, v : Denotes(g, v) = DenotesIn(funs, g, v)
  BY DEF Binder, BinderIn, Denotes, DenotesIn

\* The argument that a parameter name stands for.
LEMMA ParameterFacts ==
  ASSUME NEW fs \in Seq(Fun), NEW g \in 1..Len(fs), NEW n, Positions(fs, g, n) # {}
  PROVE  /\ Parameter(fs, g, n) \in Value
         /\ Parameter(fs, g, n).kind = "arg" /\ Parameter(fs, g, n).fn = g
<1> DEFINE P == Positions(fs, g, n)
           m == CHOOSE i \in P : \A j \in P : i <= j
<1>1. P \in SUBSET Nat
  BY DEF Positions
<1>2. m \in P
  BY <1>1, LeastNatural
<1>3. g \in Nat /\ m \in Nat
  BY <1>1, <1>2
<1> QED
  BY <1>3 DEF Parameter, Arg, Value

\* Binder meets its recursive definition.
LEMMA BinderStep ==
  ASSUME NEW fs \in Seq(Fun), ParentsFirst(fs), NEW n, NEW g \in 0..Len(fs)
  PROVE  BinderIn(fs, g, n) =
           IF g = 0 THEN NULL
           ELSE IF Positions(fs, g, n) = {} THEN BinderIn(fs, fs[g].parent, n)
           ELSE Parameter(fs, g, n)
<1> DEFINE L == Len(fs)
           X == Value \cup {NULL}
           E(h, f) == IF h = 0 THEN NULL
                      ELSE IF Positions(fs, h, n) = {} THEN f[fs[h].parent]
                      ELSE Parameter(fs, h, n)
           G == [h \in 0..L |-> [f \in [0..L -> X] |-> E(h, f)]]
           B == CHOOSE F : F = [h \in 0..L |-> E(h, F)]
<1>1. L \in Nat /\ X # {}
  OBVIOUS
<1>2. \A h \in 1..L : fs[h].parent \in 0..(h - 1) /\ fs[h].parent \in 0..L
  BY <1>1 DEF ParentsFirst
<1>3. \A h \in 0..L, f \in [0..L -> X] : E(h, f) \in X
  BY <1>1, <1>2, ParameterFacts
<1>4. G \in Functionals(L, X)
  BY <1>3 DEF Functionals
<1>5. ASSUME NEW h \in 0..L, NEW f \in [0..L -> X], NEW e \in [0..L -> X],
             \A j \in 0..(h - 1) : f[j] = e[j]
      PROVE  E(h, f) = E(h, e)
  BY <1>2, <1>5
<1> HIDE DEF E, X, L
<1>6. LooksBelow(G, L, X)
  BY <1>5 DEF LooksBelow
<1>7. PICK F : Fixpoint(F, G, L, X)
  <2> HIDE DEF G
  <2> QED
    BY <1>1, <1>4, <1>6, RecursiveFunction
<1>8. F = [h \in 0..L |-> E(h, F)]
  BY <1>7 DEF Fixpoint
<1>9. B = [h \in 0..L |-> E(h, B)]
  <2> HIDE DEF G
  <2> QED
    BY <1>8
<1>10. \A h : BinderIn(fs, h, n) = B[h]
  BY DEF BinderIn, E, L, Positions, Parameter
<1> HIDE DEF B
<1>11. B[g] = E(g, B)
  BY <1>9 DEF L
<1> QED
  BY <1>10, <1>11 DEF E

\* Denotes meets its recursive definition.
LEMMA DenotesStep ==
  ASSUME NEW fs \in Seq(Fun), ParentsFirst(fs), NEW g \in 0..Len(fs),
         NEW v \in Value \cup {NULL}
  PROVE  /\ v = NULL => DenotesIn(fs, g, v) = NULL
         /\ v.kind = "arg" /\ v.fn = g => DenotesIn(fs, g, v) = v
         /\ v.kind = "load" /\ v.fn = g /\ g # 0 /\ v.idx \in 1..Len(fs[g].free) =>
              DenotesIn(fs, g, v) = DenotesIn(fs, fs[g].parent, fs[g].free[v.idx])
<1> DEFINE L == Len(fs)
           V == Value \cup {NULL}
           X == [V -> V \cup {Nothing}]
           Slots(h, w) == w.kind = "load" /\ w.fn = h /\ h # 0
                          /\ w.idx \in 1..Len(fs[h].free)
           one(h, w, f) ==
             IF Slots(h, w) THEN f[fs[h].parent][fs[h].free[w.idx]]
             ELSE IF w = NULL \/ (w.kind = "arg" /\ w.fn = h) THEN w
             ELSE Nothing
           E(h, f) == [w \in V |-> one(h, w, f)]
           G == [h \in 0..L |-> [f \in [0..L -> X] |-> E(h, f)]]
           D == CHOOSE F : F = [h \in 0..L |-> E(h, F)]
<1>1. L \in Nat /\ X # {}
  <2>1. NULL \in V
    OBVIOUS
  <2> HIDE DEF V
  <2>2. [w \in V |-> NULL] \in X
    BY <2>1
  <2> HIDE DEF X
  <2> QED
    BY <2>2
<1>2. \A h \in 1..L : /\ fs[h].parent \in 0..(h - 1) /\ fs[h].parent \in 0..L
                      /\ fs[h].free \in Seq(Value)
  <2>1. \A h \in 1..L : fs[h] \in Fun
    OBVIOUS
  <2> QED
    BY <1>1, <2>1 DEF ParentsFirst, Fun
<1>3. ASSUME NEW h \in 0..L, NEW w \in V, NEW f
      PROVE  /\ w = NULL => one(h, w, f) = NULL
             /\ w.kind = "arg" /\ w.fn = h => one(h, w, f) = w
             /\ Slots(h, w) => one(h, w, f) = f[fs[h].parent][fs[h].free[w.idx]]
             /\ ~(w = NULL \/ (w.kind = "arg" /\ w.fn = h) \/ Slots(h, w)) =>
                   one(h, w, f) = Nothing
  BY DEF NULL
<1>4. ASSUME NEW h \in 0..L, NEW w \in V, Slots(h, w)
      PROVE  /\ fs[h].parent \in 0..(h - 1) /\ fs[h].parent \in 0..L
             /\ fs[h].free[w.idx] \in V
  BY <1>1, <1>2, <1>4
<1> HIDE DEF one, Slots, L, V
<1>5. ASSUME NEW h \in 0..L, NEW f \in [0..L -> X]
      PROVE  E(h, f) \in X
  <2> SUFFICES ASSUME NEW w \in V PROVE one(h, w, f) \in V \cup {Nothing}
    OBVIOUS
  <2>1. NULL \in V
    BY DEF V
  <2>2. Slots(h, w) => f[fs[h].parent][fs[h].free[w.idx]] \in V \cup {Nothing}
    BY <1>4
  <2> QED
    BY <1>3, <2>1, <2>2
<1>6. G \in Functionals(L, X)
  BY <1>5 DEF Functionals
<1>7. ASSUME NEW h \in 0..L, NEW f \in [0..L -> X], NEW e \in [0..L -> X],
             \A j \in 0..(h - 1) : f[j] = e[j]
      PROVE  E(h, f) = E(h, e)
  <2> SUFFICES ASSUME NEW w \in V PROVE one(h, w, f) = one(h, w, e)
    OBVIOUS
  <2>1. Slots(h, w) => f[fs[h].parent][fs[h].free[w.idx]] = e[fs[h].parent][fs[h].free[w.idx]]
    BY <1>4, <1>7
  <2> QED
    BY <2>1 DEF one
<1> HIDE DEF E, X
<1>8. LooksBelow(G, L, X)
  BY <1>7 DEF LooksBelow
<1>9. PICK F : Fixpoint(F, G, L, X)
  <2> HIDE DEF G, D
  <2> QED
    BY <1>1, <1>6, <1>8, RecursiveFunction
<1>10. F = [h \in 0..L |-> E(h, F)]
  BY <1>9 DEF Fixpoint
<1>11. D = [h \in 0..L |-> E(h, D)]
  <2> HIDE DEF G
  <2> QED
    BY <1>10
<1>12. \A h, w : DenotesIn(fs, h, w) = D[h][w]
  BY DEF DenotesIn, E, L, V, one, Slots
<1> HIDE DEF D
<1>13. g \in 0..L /\ v \in V /\ D[g] = E(g, D)
  BY <1>11 DEF L, V
<1>14. DenotesIn(fs, g, v) = one(g, v, D)
  BY <1>12, <1>13 DEF E
<1>15. Slots(g, v) <=> /\ v.kind = "load" /\ v.fn = g /\ g # 0
                       /\ v.idx \in 1..Len(fs[g].free)
  BY DEF Slots
<1> QED
  BY <1>3, <1>12, <1>13, <1>14, <1>15

-----------------------------------------------------------------------------

\* What a step may do to the functions: create more and fill freelists.
Extends(gs, fs) ==
  /\ Len(fs) <= Len(gs)
  /\ \A g \in 1..Len(fs) : gs[g].parent = fs[g].parent /\ gs[g].formals = fs[g].formals

\* Parameters and binders look at nothing else.
LEMMA SameBinder ==
  ASSUME NEW fs \in Seq(Fun), NEW gs \in Seq(Fun), ParentsFirst(fs), ParentsFirst(gs),
         Extends(gs, fs), NEW n
  PROVE  /\ \A g \in 1..Len(fs) : /\ Positions(gs, g, n) = Positions(fs, g, n)
                                  /\ Parameter(gs, g, n) = Parameter(fs, g, n)
         /\ \A g \in 0..Len(fs) : BinderIn(gs, g, n) = BinderIn(fs, g, n)
<1> DEFINE L == Len(fs)
           P == {g \in Nat : g <= L => BinderIn(gs, g, n) = BinderIn(fs, g, n)}
<1>1. L \in Nat /\ Len(gs) \in Nat /\ L <= Len(gs)
  BY DEF Extends
<1>2. \A g \in 1..L : gs[g].parent = fs[g].parent /\ gs[g].formals = fs[g].formals
  BY DEF Extends
<1>3. \A g \in 1..L : /\ Positions(gs, g, n) = Positions(fs, g, n)
                      /\ Parameter(gs, g, n) = Parameter(fs, g, n)
  BY <1>2 DEF Positions, Parameter
<1>4. ASSUME NEW g \in Nat, \A m \in 0..(g - 1) : m \in P, g <= L
      PROVE  BinderIn(gs, g, n) = BinderIn(fs, g, n)
  <2>1. g \in 0..Len(fs) /\ g \in 0..Len(gs)
    BY <1>1, <1>4
  <2>2. CASE g = 0
    BY <2>1, <2>2, BinderStep
  <2>3. CASE g # 0
    <3>1. g \in 1..L /\ g \in 1..Len(gs) /\ g \in 1..Len(fs)
      BY <1>1, <2>1, <2>3
    <3>2. fs[g].parent \in 0..(g - 1) /\ gs[g].parent = fs[g].parent
      BY <1>2, <3>1 DEF ParentsFirst
    <3>3. fs[g].parent \in P /\ fs[g].parent <= L
      BY <1>1, <1>4, <3>1, <3>2
    <3>4. BinderIn(gs, fs[g].parent, n) = BinderIn(fs, fs[g].parent, n)
      BY <3>3
    <3>5. BinderIn(fs, g, n) = IF Positions(fs, g, n) = {} THEN BinderIn(fs, fs[g].parent, n)
                               ELSE Parameter(fs, g, n)
      BY <2>1, <2>3, BinderStep
    <3>6. BinderIn(gs, g, n) = IF Positions(gs, g, n) = {} THEN BinderIn(gs, gs[g].parent, n)
                               ELSE Parameter(gs, g, n)
      BY <2>1, <2>3, BinderStep
    <3> QED
      BY <1>3, <3>1, <3>2, <3>4, <3>5, <3>6
  <2> QED
    BY <2>2, <2>3
<1>5. Nat \subseteq P
  <2>1. \A g \in Nat : (\A m \in 0..(g - 1) : m \in P) => g \in P
    BY <1>4
  <2> HIDE DEF P
  <2> QED
    BY <2>1, NatSetInduction
<1> QED
  BY <1>1, <1>3, <1>5

-----------------------------------------------------------------------------

(***************************************************************************)
(* The open scopes 1..Len(lex) belong to functions own[1], own[2], ...: each  *)
(* to the function around the next, the last to the one that holds the       *)
(* insert point.  A scope binds the parameters of its function, and any      *)
(* other name to nothing or to a placeholder.  The functions of the form     *)
(* come after those of the forms that are done.                              *)
(***************************************************************************)
Owned(fs, lex, own, ins, dn) ==
  /\ own[Len(lex)] = ins
  /\ Len(lex) > 1 => own[1] # 0
  /\ \A k \in 1..Len(lex) : own[k] # 0 => fs[own[k]].free = <<>>
  /\ \A j, k \in 1..Len(lex) : j < k => own[j] < own[k]
  /\ own[1] # 0 => /\ fs[own[1]].parent = 0 /\ fs[own[1]].formals = <<>>
                   /\ \A g \in dn : g < own[1]
  /\ \A k \in 2..Len(lex) : fs[own[k]].parent = own[k - 1]
  /\ \A n \in Name : lex[1][n] = NULL
  /\ \A k \in 2..Len(lex), n \in Name :
       IF Positions(fs, own[k], n) # {}
       THEN lex[k][n] = Parameter(fs, own[k], n)
       ELSE lex[k][n] = NULL \/ lex[k][n].kind = "alloca"

(***************************************************************************)
(* Operand v of function g stands for the variable that n means there: g      *)
(* has no such variable around it, v is g's argument, the placeholder of an   *)
(* open scope, or the slot of g's freelist that is filled for n.             *)
(***************************************************************************)
StandsFor(fs, lex, own, names, g, v, n) ==
  \/ v = NULL /\ BinderIn(fs, g, n) = NULL
  \/ v.kind = "arg" /\ g # 0 /\ Positions(fs, g, n) # {} /\ v = Parameter(fs, g, n)
  \/ v.kind = "alloca" /\ \E k \in 1..Len(lex) : own[k] = g /\ lex[k][n] = v
  \/ /\ v.kind = "load" /\ g # 0 /\ v.fn = g
     /\ v.idx \in 1..Len(fs[g].free) /\ names[g][v.idx] = n

\* names[g] lists the names that the slots of g's freelist are filled for.
Resolved(fs, lex, own, names, us) ==
  /\ \A g \in 1..Len(fs) :
       /\ Len(names[g]) = Len(fs[g].free)
       /\ \A i \in 1..Len(fs[g].free) :
            /\ Positions(fs, g, names[g][i]) = {}
            /\ StandsFor(fs, lex, own, names, fs[g].parent, fs[g].free[i], names[g][i])
  /\ \A u \in us : u.fn \in 1..Len(fs) /\ StandsFor(fs, lex, own, names, u.fn, u.val, u.name)

\* The owners a stack of scopes may have, the names slots may be filled for.
Owners(fs, lex) == [1..Len(lex) -> 0..Len(fs)]
NameLists(fs) == [1..Len(fs) -> Seq(Name)]

\* The scopes have owners, and every operand and every slot stands for its name.
Scoped(fs, lex, ins, dn, us) ==
  \E own \in Owners(fs, lex), names \in NameLists(fs) :
    Owned(fs, lex, own, ins, dn) /\ Resolved(fs, lex, own, names, us)

\* Activations, functions and the insert point agree.
InsertOK ==
  /\ ParentsFirst(funs)
  /\ done \subseteq 1..Len(funs)
  /\ phase # "gen" => inserting = 0
  /\ phase = "gen" => inserting = Back(stack).fn
  /\ \A i \in 1..Len(stack) :
       /\ stack[i].fn \in 1..Len(funs)
       /\ stack[i].kind = "def" => stack[i].fn = stack[i - 1].fn
       /\ stack[i].kind = "fn" => /\ stack[i].prev = stack[i - 1].fn
                                   /\ funs[stack[i].fn].parent = stack[i].prev

\* The invariant behind LexicalScopeUnlessLeft.
ScopeInv == ScopeLeft \/ Scoped(funs, env.lexical, inserting, done, uses)

-----------------------------------------------------------------------------

(***************************************************************************)
(* An operand goes on standing for its variable as long as its placeholder   *)
(* is bound and its function's freelist is not touched.                      *)
(***************************************************************************)
LEMMA KeepStands ==
  ASSUME NEW fs \in Seq(Fun), NEW gs \in Seq(Fun), ParentsFirst(fs), ParentsFirst(gs),
         Extends(gs, fs),
         NEW lex, NEW lex2, NEW own, NEW own2, NEW names, NEW names2,
         NEW g \in 0..Len(fs), NEW v, NEW n,
         StandsFor(fs, lex, own, names, g, v, n),
         v.kind = "alloca" =>
           \A k \in 1..Len(lex) : own[k] = g /\ lex[k][n] = v =>
             k \in 1..Len(lex2) /\ own2[k] = g /\ lex2[k][n] = v,
         v.kind = "load" /\ g # 0 =>
           names2[g] = names[g] /\ Len(gs[g].free) = Len(fs[g].free)
  PROVE  StandsFor(gs, lex2, own2, names2, g, v, n)
<1>1. BinderIn(gs, g, n) = BinderIn(fs, g, n)
  BY SameBinder
<1>2. g # 0 => /\ Positions(gs, g, n) = Positions(fs, g, n)
               /\ Parameter(gs, g, n) = Parameter(fs, g, n)
  <2>1. g # 0 => g \in 1..Len(fs)
    OBVIOUS
  <2> QED
    BY <2>1, SameBinder
<1>3. CASE v = NULL /\ BinderIn(fs, g, n) = NULL
  BY <1>1, <1>3 DEF StandsFor
<1>4. CASE v.kind = "arg" /\ g # 0 /\ Positions(fs, g, n) # {} /\ v = Parameter(fs, g, n)
  BY <1>2, <1>4 DEF StandsFor
<1>5. CASE v.kind = "alloca" /\ \E k \in 1..Len(lex) : own[k] = g /\ lex[k][n] = v
  BY <1>5 DEF StandsFor
<1>6. CASE /\ v.kind = "load" /\ g # 0 /\ v.fn = g
           /\ v.idx \in 1..Len(fs[g].free) /\ names[g][v.idx] = n
  BY <1>6 DEF StandsFor
<1> QED
  BY <1>3, <1>4, <1>5, <1>6 DEF StandsFor

(***************************************************************************)
(* So does every operand over a step that closes no scope that has a         *)
(* placeholder, fills no freelist and adds operands that stand for theirs.    *)
(***************************************************************************)
LEMMA KeepResolved ==
  ASSUME NEW fs \in Seq(Fun), NEW gs \in Seq(Fun), ParentsFirst(fs), ParentsFirst(gs),
         Len(fs) <= Len(gs), \A g \in 1..Len(fs) : gs[g] = fs[g],
         \A g \in 1..Len(gs) : g > Len(fs) => gs[g].free = <<>>,
         NEW lex, NEW lex2, NEW own, NEW own2,
         NEW names \in NameLists(fs), NEW names2 \in NameLists(gs),
         \A g \in 1..Len(gs) : names2[g] = IF g <= Len(fs) THEN names[g] ELSE <<>>,
         NEW us, NEW us2, \A u \in us2 : u.name \in Name,
         Resolved(fs, lex, own, names, us),
         \A k \in 1..Len(lex), n \in Name : lex[k][n].kind = "alloca" =>
           k \in 1..Len(lex2) /\ own2[k] = own[k] /\ lex2[k][n] = lex[k][n],
         \A u \in us2 :
           \/ u \in us
           \/ u.fn \in 1..Len(gs) /\ StandsFor(gs, lex2, own2, names2, u.fn, u.val, u.name)
  PROVE  Resolved(gs, lex2, own2, names2, us2)
<1>1. Extends(gs, fs) /\ Len(fs) \in Nat /\ Len(gs) \in Nat
  BY DEF Extends
<1>2. ASSUME NEW g \in 0..Len(fs), NEW v, NEW n \in Name,
             StandsFor(fs, lex, own, names, g, v, n)
      PROVE  StandsFor(gs, lex2, own2, names2, g, v, n)
  <2>1. v.kind = "load" /\ g # 0 =>
           names2[g] = names[g] /\ Len(gs[g].free) = Len(fs[g].free)
    <3>1. g # 0 => g \in 1..Len(fs) /\ g \in 1..Len(gs) /\ g <= Len(fs)
      BY <1>1
    <3> QED
      BY <3>1
  <2>2. v.kind = "alloca" =>
           \A k \in 1..Len(lex) : own[k] = g /\ lex[k][n] = v =>
             k \in 1..Len(lex2) /\ own2[k] = g /\ lex2[k][n] = v
    OBVIOUS
  <2> QED
    BY <1>1, <1>2, <2>1, <2>2, KeepStands
<1>3. ASSUME NEW g \in 1..Len(gs)
      PROVE  /\ Len(names2[g]) = Len(gs[g].free)
             /\ \A i \in 1..Len(gs[g].free) :
                  /\ Positions(gs, g, names2[g][i]) = {}
                  /\ StandsFor(gs, lex2, own2, names2, gs[g].parent, gs[g].free[i],
                               names2[g][i])
  <2>1. CASE g > Len(fs)
    <3>1. gs[g].free = <<>> /\ names2[g] = <<>>
      BY <1>1, <2>1
    <3> QED
      BY <3>1
  <2>2. CASE ~(g > Len(fs))
    <3>1. g \in 1..Len(fs) /\ gs[g] = fs[g] /\ names2[g] = names[g]
      BY <1>1, <2>2
    <3>2. Len(names[g]) = Len(fs[g].free) /\ names[g] \in Seq(Name)
      BY <3>1 DEF Resolved, NameLists
    <3> SUFFICES ASSUME NEW i \in 1..Len(fs[g].free)
                 PROVE  /\ Positions(gs, g, names[g][i]) = {}
                        /\ StandsFor(gs, lex2, own2, names2, fs[g].parent, fs[g].free[i],
                                     names[g][i])
      BY <3>1, <3>2
    <3>3. names[g][i] \in Name
      BY <3>2
    <3>4. /\ Positions(fs, g, names[g][i]) = {}
          /\ StandsFor(fs, lex, own, names, fs[g].parent, fs[g].free[i], names[g][i])
      BY <3>1 DEF Resolved
    <3>5. fs[g].parent \in 0..Len(fs)
      BY <1>1, <3>1 DEF ParentsFirst
    <3>6. Positions(gs, g, names[g][i]) = {}
      BY <3>1, <3>4 DEF Positions
    <3> QED
      BY <1>2, <3>3, <3>4, <3>5, <3>6
  <2> QED
    BY <2>1, <2>2
<1>4. ASSUME NEW u \in us2
      PROVE  u.fn \in 1..Len(gs) /\ StandsFor(gs, lex2, own2, names2, u.fn, u.val, u.name)
  <2>1. CASE u \in us
    <3>1. u.fn \in 1..Len(fs) /\ StandsFor(fs, lex, own, names, u.fn, u.val, u.name)
      BY <2>1 DEF Resolved
    <3>2. u.fn \in 0..Len(fs) /\ u.fn \in 1..Len(gs) /\ u.name \in Name
      BY <1>1, <3>1
    <3> QED
      BY <1>2, <3>1, <3>2
  <2>2. CASE u \notin us
    BY <2>2
  <2> QED
    BY <2>1, <2>2
<1> QED
  BY <1>3, <1>4 DEF Resolved

-----------------------------------------------------------------------------

\* Entering a function or a definition keeps activations and functions in step.
LEMMA PushInsert ==
  ASSUME IInv, InsertOK, phase = "gen", phase' = "gen", done' = done,
         funs' \in Seq(Fun), ParentsFirst(funs'), Extends(funs', funs),
         NEW fr \in Frame, stack' = Append(stack, fr), inserting' = fr.fn,
         fr.fn \in 1..Len(funs'),
         fr.kind = "def" => fr.fn = inserting,
         fr.kind = "fn" => fr.prev = inserting /\ funs'[fr.fn].parent = fr.prev
  PROVE  InsertOK'
<1> USE IInvFacts
<1> DEFINE d == Len(stack)
<1>1. /\ d \in Nat /\ d >= 1 /\ d \in 1..d /\ stack[1].kind = "top"
      /\ inserting = stack[d].fn
  BY DEF StackOK, InsertOK, Back
<1>2. /\ Len(stack') = d + 1 /\ stack'[d + 1] = fr
      /\ \A i \in 1..d : stack'[i] = stack[i]
  OBVIOUS
<1>3. Len(funs') \in Nat /\ Len(funs) <= Len(funs')
      /\ \A g \in 1..Len(funs) : funs'[g].parent = funs[g].parent
  BY DEF Extends
<1> HIDE DEF d
<1>4. Back(stack') = fr
  BY <1>2 DEF Back
<1>5. ASSUME NEW i \in 1..(d + 1)
      PROVE  /\ stack'[i].fn \in 1..Len(funs')
             /\ stack'[i].kind = "def" => stack'[i].fn = stack'[i - 1].fn
             /\ stack'[i].kind = "fn" => /\ stack'[i].prev = stack'[i - 1].fn
                                          /\ funs'[stack'[i].fn].parent = stack'[i].prev
  <2>1. CASE i = d + 1
    <3>1. stack'[i] = fr /\ stack'[i - 1].fn = inserting
      BY <1>1, <1>2, <2>1
    <3> QED
      BY <3>1
  <2>2. CASE i # d + 1
    <3>1. i \in 1..Len(stack) /\ stack'[i] = stack[i]
      BY <1>1, <1>2, <2>2 DEF d
    <3>2. /\ stack[i].fn \in 1..Len(funs)
          /\ stack[i].kind = "def" => stack[i].fn = stack[i - 1].fn
          /\ stack[i].kind = "fn" => /\ stack[i].prev = stack[i - 1].fn
                                      /\ funs[stack[i].fn].parent = stack[i].prev
      BY <3>1 DEF InsertOK
    <3> DEFINE g == stack[i].fn
    <3>3. stack[i].fn \in 1..Len(funs') /\ funs'[stack[i].fn].parent = funs[stack[i].fn].parent
      <4>1. g \in 1..Len(funs)
        BY <3>2, Zenon
      <4> HIDE DEF g
      <4>2. g \in 1..Len(funs') /\ funs'[g].parent = funs[g].parent
        BY <1>3, <4>1
      <4> QED
        BY <4>2 DEF g
    <3> HIDE DEF g
    <3>4. CASE i = 1
      BY <1>1, <3>1, <3>3, <3>4
    <3>5. CASE i # 1
      <4>1. i - 1 \in 1..d /\ stack'[i - 1] = stack[i - 1]
        BY <1>1, <1>2, <3>1, <3>5 DEF d
      <4> QED
        BY <3>1, <3>2, <3>3, <4>1
    <3> QED
      BY <3>4, <3>5
  <2> QED
    BY <2>1, <2>2
<1>6. done \subseteq 1..Len(funs')
  BY <1>3 DEF InsertOK
<1> QED
  BY <1>2, <1>4, <1>5, <1>6 DEF InsertOK

\* Leaving it does too: the insert point is where it was before.
LEMMA PopInsert ==
  ASSUME IInv, InsertOK, phase = "gen", phase' = "gen", done' = done,
         funs' \in Seq(Fun), ParentsFirst(funs'), Extends(funs', funs),
         Top.kind # "top", stack' = PopBack(stack),
         inserting' = IF Top.kind = "fn" THEN Top.prev ELSE Top.fn
  PROVE  InsertOK'
<1> USE IInvFacts
<1> DEFINE d == Len(stack)
<1>1. /\ d \in Nat /\ d \in 1..d /\ stack[1].kind = "top" /\ Top = stack[d]
      /\ Top \in Frame
      /\ Len(PopBack(stack)) = d - 1
      /\ \A i \in 1..(d - 1) : PopBack(stack)[i] = stack[i]
  BY PopFacts DEF StackOK, Top
<1>2. d > 1 /\ d - 1 \in 1..(d - 1)
  BY <1>1
<1>3. Len(funs') \in Nat /\ Len(funs) <= Len(funs')
      /\ \A g \in 1..Len(funs) : funs'[g].parent = funs[g].parent
  BY DEF Extends
<1>4. \A i \in 1..d :
       /\ stack[i].fn \in 1..Len(funs)
       /\ stack[i].kind = "def" => stack[i].fn = stack[i - 1].fn
       /\ stack[i].kind = "fn" => /\ stack[i].prev = stack[i - 1].fn
                                   /\ funs[stack[i].fn].parent = stack[i].prev
  BY DEF InsertOK
<1>5. Top.kind \in {"fn", "def"}
  BY <1>1 DEF Frame
<1> HIDE DEF d
<1>6. Back(stack') = stack[d - 1] /\ inserting' = stack[d - 1].fn
  BY <1>1, <1>2, <1>4, <1>5 DEF Back
<1>7. ASSUME NEW i \in 1..(d - 1)
      PROVE  /\ stack'[i].fn \in 1..Len(funs')
             /\ stack'[i].kind = "def" => stack'[i].fn = stack'[i - 1].fn
             /\ stack'[i].kind = "fn" => /\ stack'[i].prev = stack'[i - 1].fn
                                          /\ funs'[stack'[i].fn].parent = stack'[i].prev
  <2>1. i \in 1..d /\ stack'[i] = stack[i]
    BY <1>1
  <2> DEFINE g == stack[i].fn
  <2>2. stack[i].fn \in 1..Len(funs') /\ funs'[stack[i].fn].parent = funs[stack[i].fn].parent
    <3>1. g \in 1..Len(funs)
      BY <1>4, <2>1, Zenon
    <3> HIDE DEF g
    <3>2. g \in 1..Len(funs') /\ funs'[g].parent = funs[g].parent
      BY <1>3, <3>1
    <3> QED
      BY <3>2 DEF g
  <2> HIDE DEF g
  <2>3. CASE i = 1
    <3>1. stack'[i].kind = "top"
      BY <1>1, <2>1, <2>3
    <3> QED
      BY <2>1, <2>2, <3>1
  <2>4. CASE i # 1
    <3>1. i - 1 \in 1..(d - 1)
      BY <1>1, <2>4
    <3>2. stack'[i - 1] = stack[i - 1]
      BY <1>1, <3>1
    <3> QED
      BY <1>4, <2>1, <2>2, <3>2
  <2> QED
    BY <2>3, <2>4
<1>8. done \subseteq 1..Len(funs') /\ Len(stack') = d - 1
  BY <1>1, <1>3 DEF InsertOK
<1> QED
  BY <1>6, <1>7, <1>8 DEF InsertOK

\* A function created in the current one comes after its parent.
LEMMA AppendFacts ==
  ASSUME funs \in Seq(Fun), ParentsFirst(funs), NEW p \in 0..Len(funs), NEW fs \in Seq(Name),
         funs' = Append(funs, NewFun(p, fs))
  PROVE  /\ funs' \in Seq(Fun) /\ Len(funs') = Len(funs) + 1
         /\ \A g \in 1..Len(funs) : funs'[g] = funs[g]
         /\ funs'[Len(funs) + 1] = NewFun(p, fs)
         /\ ParentsFirst(funs') /\ Extends(funs', funs)
<1> DEFINE f == NewFun(p, fs)
           d == Len(funs)
<1>1. f \in Fun /\ f.parent = p /\ d \in Nat
  BY DEF NewFun, Fun
<1> HIDE DEF f
<1>2. /\ funs' \in Seq(Fun) /\ Len(funs') = d + 1
      /\ funs'[d + 1] = f /\ \A g \in 1..d : funs'[g] = funs[g]
  BY <1>1 DEF f
<1>3. ParentsFirst(funs')
  <2> SUFFICES ASSUME NEW g \in 1..(d + 1) PROVE funs'[g].parent \in 0..(g - 1)
    BY <1>2 DEF ParentsFirst
  <2>1. CASE g = d + 1
    BY <1>1, <1>2, <2>1
  <2>2. CASE g # d + 1
    BY <1>1, <1>2, <2>2 DEF ParentsFirst
  <2> QED
    BY <2>1, <2>2
<1> QED
  BY <1>1, <1>2, <1>3 DEF Extends, f

\* replaceAllUsesWith touches nothing but operands.
LEMMA ReplaceExtends ==
  ASSUME IInv, ParentsFirst(funs), NEW f \in Nat, replaceAllUsesWith(env, f)
  PROVE  /\ Len(funs') = Len(funs) /\ Extends(funs', funs) /\ ParentsFirst(funs')
         /\ f \in 1..Len(funs) => funs'[f].free = fillFreelist(getCurrentRefs(env))
         /\ \A g \in 1..Len(funs) : g # f =>
              /\ Len(funs'[g].free) = Len(funs[g].free)
              /\ \A i \in 1..Len(funs[g].free) :
                   funs'[g].free[i] = replaceUse(env, f, funs[g].free[i])
<1> DEFINE F(g) == IF g = f THEN fillFreelist(getCurrentRefs(env))
                   ELSE [i \in 1..Len(funs[g].free) |-> replaceUse(env, f, funs[g].free[i])]
<1>1. funs \in Seq(Fun) /\ Len(funs) \in Nat /\ \A g \in 1..Len(funs) : funs[g] \in Fun
  BY IInvFacts
<1>2. funs' = [g \in 1..Len(funs) |-> [funs[g] EXCEPT !.free = F(g)]]
  BY DEF replaceAllUsesWith
<1>3. ASSUME NEW g \in 1..Len(funs), g # f
      PROVE  /\ Len(F(g)) = Len(funs[g].free)
             /\ \A i \in 1..Len(funs[g].free) : F(g)[i] = replaceUse(env, f, funs[g].free[i])
  <2> DEFINE c == Len(funs[g].free)
             s == [i \in 1..c |-> replaceUse(env, f, funs[g].free[i])]
  <2>1. F(g) = s
    BY <1>3
  <2>2. c \in Nat
    BY <1>1 DEF Fun
  <2> HIDE DEF c, F
  <2>3. s \in [1..c -> {replaceUse(env, f, funs[g].free[i]) : i \in 1..c}]
    OBVIOUS
  <2>4. \A i \in 1..c : s[i] = replaceUse(env, f, funs[g].free[i])
    OBVIOUS
  <2> HIDE DEF s
  <2>5. Len(s) = c
    BY <2>2, <2>3, FunctionIsSeq
  <2> QED
    BY <2>1, <2>4, <2>5 DEF c
<1>4. F(f) = fillFreelist(getCurrentRefs(env))
  OBVIOUS
<1> HIDE DEF F
<1>5. \A g \in 1..Len(funs) : funs'[g] = [funs[g] EXCEPT !.free = F(g)]
  BY <1>2
<1>6. \A g \in 1..Len(funs) : /\ funs'[g].parent = funs[g].parent
                              /\ funs'[g].formals = funs[g].formals
                              /\ funs'[g].free = F(g)
  BY <1>1, <1>5 DEF Fun
<1>7. Len(funs') = Len(funs)
  <2>1. funs' \in [1..Len(funs) -> {[funs[g] EXCEPT !.free = F(g)] : g \in 1..Len(funs)}]
    BY <1>2
  <2> QED
    BY <1>1, <2>1, FunctionIsSeq
<1>8. Extends(funs', funs) /\ ParentsFirst(funs')
  <2>1. Len(funs) \in Nat /\ Len(funs') \in Nat /\ ParentsFirst(funs)
    BY <1>1, <1>7
  <2>2. Extends(funs', funs)
    BY <1>6, <1>7, <2>1 DEF Extends
  <2>3. \A g \in 1..Len(funs') : g \in 1..Len(funs) /\ funs'[g].parent = funs[g].parent
    BY <1>6, <1>7
  <2>4. ParentsFirst(funs')
    BY <2>1, <2>3, Zenon DEF ParentsFirst
  <2> QED
    BY <2>2, <2>4
<1> QED
  BY <1>3, <1>4, <1>6, <1>7, <1>8

\* Every step preserves InsertOK.
LEMMA InsertStep ==
  ASSUME IInv, InsertOK, [Next]_vars
  PROVE  InsertOK'
<1> USE IInvFacts
<1>0. /\ ParentsFirst(funs) /\ Extends(funs, funs)
      /\ phase = "gen" => inserting \in 1..Len(funs) /\ inserting \in 0..Len(funs)
      /\ 0 \in 0..Len(funs) /\ <<>> \in Seq(Name)
  <2>1. phase = "gen" => inserting \in 1..Len(funs)
    BY PopFacts DEF InsertOK, StackOK, Back
  <2> QED
    BY <2>1 DEF InsertOK, Extends
<1>1. ASSUME NEW n \in Name, Reference(n) PROVE InsertOK'
  BY <1>1 DEF Reference, InsertOK
<1>2. ASSUME NEW fs \in FormalLists, BeginFunction(fs) PROVE InsertOK'
  <2> DEFINE f == Len(funs) + 1
             fr == [kind |-> "fn", fn |-> f, prev |-> inserting, name |-> 0]
  <2>1. /\ phase = "gen" /\ phase' = "gen" /\ done' = done
        /\ funs' = Append(funs, NewFun(inserting, fs)) /\ stack' = Append(stack, fr)
        /\ inserting' = f /\ fs \in Seq(Name)
    BY <1>2, FormalListsFacts DEF BeginFunction
  <2>2. /\ funs' \in Seq(Fun) /\ Len(funs') = Len(funs) + 1
        /\ ParentsFirst(funs') /\ Extends(funs', funs)
        /\ funs'[f] = NewFun(inserting, fs)
    BY <1>0, <2>1, AppendFacts
  <2>3. fr \in Frame /\ fr.kind = "fn" /\ fr.fn = f /\ fr.prev = inserting
        /\ funs'[f].parent = inserting /\ f \in 1..Len(funs')
    BY <2>2 DEF Frame, NewFun
  <2> HIDE DEF fr, f
  <2> QED
    BY <2>1, <2>2, <2>3, PushInsert
<1>3. CASE EndFunction
  <2>1. /\ phase = "gen" /\ phase' = "gen" /\ done' = done /\ Top.kind = "fn"
        /\ replaceAllUsesWith(env, Top.fn) /\ stack' = PopBack(stack)
        /\ inserting' = Top.prev
    BY <1>3 DEF EndFunction
  <2>2. Top.fn \in Nat
    BY <2>1, PopFacts DEF StackOK, Top, Frame
  <2>3. funs' \in Seq(Fun) /\ ParentsFirst(funs') /\ Extends(funs', funs)
    BY <1>0, <2>1, <2>2, ReplaceOperands, ReplaceExtends
  <2> QED
    BY <2>1, <2>3, PopInsert
<1>4. ASSUME NEW n \in Name, BeginDefine(n) PROVE InsertOK'
  <2> DEFINE fr == [kind |-> "def", fn |-> inserting, prev |-> inserting, name |-> n]
  <2>1. /\ phase = "gen" /\ phase' = "gen" /\ done' = done /\ funs' = funs
        /\ stack' = Append(stack, fr) /\ inserting' = inserting
    BY <1>4 DEF BeginDefine
  <2>2. fr \in Frame /\ fr.kind = "def" /\ fr.fn = inserting
    BY NameAssumption DEF Frame
  <2> HIDE DEF fr
  <2> QED
    BY <1>0, <2>1, <2>2, PushInsert
<1>5. CASE EndDefine
  <2>1. /\ phase = "gen" /\ phase' = "gen" /\ done' = done /\ Top.kind = "def"
        /\ funs' = funs /\ stack' = PopBack(stack) /\ inserting' = inserting
    BY <1>5 DEF EndDefine
  <2>2. inserting = Top.fn
    BY <2>1 DEF InsertOK, Top
  <2> QED
    BY <1>0, <2>1, <2>2, PopInsert
<1>6. ASSUME Gone, funs' = funs PROVE InsertOK'
  BY <1>6 DEF Gone, Unwind, InsertOK
<1>7. ASSUME NEW fs \in FormalLists, BadFormals(fs) PROVE InsertOK'
  <2>1. phase = "gen" /\ funs' = Append(funs, NewFun(inserting, fs)) /\ fs \in Seq(Name)
    BY <1>7, FormalListsFacts DEF BadFormals
  <2>2. Len(funs') = Len(funs) + 1 /\ ParentsFirst(funs')
    BY <1>0, <2>1, AppendFacts
  <2>3. done' \subseteq 1..Len(funs') /\ phase' # "gen" /\ stack' = <<>> /\ inserting' = 0
    BY <1>7, <2>2 DEF BadFormals, Throw, Unwind, InsertOK
  <2> QED
    BY <2>2, <2>3 DEF InsertOK
<1>8. CASE BeginForm
  <2> DEFINE fr == [kind |-> "top", fn |-> Len(funs) + 1, prev |-> 0, name |-> 0]
  <2>1. /\ phase' = "gen" /\ funs' = Append(funs, NewFun(0, <<>>)) /\ stack' = <<fr>>
        /\ inserting' = Len(funs) + 1 /\ done' = done
    BY <1>8 DEF BeginForm
  <2>2. Len(funs') = Len(funs) + 1 /\ ParentsFirst(funs')
    BY <1>0, <2>1, AppendFacts
  <2>3. Len(stack') = 1 /\ stack'[1] = fr /\ Back(stack') = fr
    BY <2>1 DEF Back
  <2> HIDE DEF fr
  <2>4. \A i \in 1..Len(stack') : stack'[i] = fr
    BY <2>3
  <2>5. fr.kind = "top" /\ fr.fn = Len(funs) + 1
    BY DEF fr
  <2>6. done \subseteq 1..Len(funs)
    BY DEF InsertOK
  <2>7. Len(funs) \in Nat /\ done' \subseteq 1..Len(funs') /\ Len(funs) + 1 \in 1..Len(funs')
    BY <2>1, <2>2, <2>6
  <2> QED
    BY <2>1, <2>2, <2>3, <2>4, <2>5, <2>7 DEF InsertOK
<1>9. CASE EndForm
  <2>1. /\ phase' = "check" /\ done' = done \cup Top.fn..Len(funs) /\ funs' = funs
        /\ stack' = <<>> /\ inserting' = 0 /\ phase = "gen"
    BY <1>9 DEF EndForm
  <2>2. Top.fn \in 1..Len(funs)
    BY <1>0, <2>1 DEF InsertOK, Top
  <2>3. Top.fn..Len(funs) \subseteq 1..Len(funs) /\ done \subseteq 1..Len(funs)
    <3>1. \A a \in 1..Len(funs) : a..Len(funs) \subseteq 1..Len(funs)
      OBVIOUS
    <3> QED
      BY <2>2, <3>1 DEF InsertOK
  <2>4. done' \subseteq 1..Len(funs') /\ Len(stack') = 0
    BY <2>1, <2>3
  <2> QED
    BY <1>0, <2>1, <2>4 DEF InsertOK
<1>10. CASE \/ Quit \/ UNCHANGED vars
            \/ \E b \in Builtin : CheckBuiltin(b)
            \/ \E defined \in SUBSET Name : RunForm(defined)
  BY <1>10 DEF Quit, vars, CheckBuiltin, RunForm, InsertOK
<1> QED
  BY <1>1, <1>2, <1>3, <1>4, <1>5, <1>6, <1>7, <1>8, <1>9, <1>10
  DEF Next, Generate, SyntaxError, MalformedDefine, Redefinition, Throw, Gone

-----------------------------------------------------------------------------

\* The depth and the owners of an instance of Scoped, as numbers.
LEMMA OwnerFacts ==
  ASSUME NEW e, EnvInv(e), Len(e.lexical) >= 1, NEW fs \in Seq(Fun),
         NEW own \in Owners(fs, e.lexical), NEW ins, NEW dn,
         Owned(fs, e.lexical, own, ins, dn)
  PROVE  /\ Len(e.lexical) \in Nat /\ Len(fs) \in Nat
         /\ \A k \in 1..Len(e.lexical) : own[k] \in 0..Len(fs)
         /\ \A k \in 2..Len(e.lexical) : own[k] \in 1..Len(fs)
         /\ own[Len(e.lexical)] = ins
<1> DEFINE d == Len(e.lexical)
<1>1. d \in Nat /\ Len(fs) \in Nat
  BY EnvInvFacts
<1>2. \A k \in 1..d : own[k] \in 0..Len(fs)
  BY DEF Owners
<1>3. \A k \in 2..d : 1 \in 1..d /\ k \in 1..d /\ 1 < k /\ own[1] < own[k]
  BY <1>1 DEF Owned
<1>4. \A k \in 2..d : own[k] \in 1..Len(fs)
  BY <1>1, <1>2, <1>3
<1>5. own[d] = ins
  BY DEF Owned
<1> QED
  BY <1>1, <1>2, <1>4, <1>5

\* What scope k binds a name to.
Entry(e, fs, own, k, n) ==
  /\ \/ e.lexical[k][n] = NULL
     \/ k > 1 /\ e.lexical[k][n].kind = "alloca"
     \/ /\ k > 1 /\ Positions(fs, own[k], n) # {}
        /\ e.lexical[k][n] = Parameter(fs, own[k], n)
  /\ k > 1 /\ Positions(fs, own[k], n) # {} =>
       e.lexical[k][n].kind = "arg" /\ e.lexical[k][n] = Parameter(fs, own[k], n)

\* An Entry is what a name has in a scope that belongs to a function.
LEMMA EntryFacts ==
  ASSUME NEW e, EnvInv(e), Len(e.lexical) >= 1, NEW fs \in Seq(Fun),
         NEW own \in Owners(fs, e.lexical), NEW ins, NEW dn,
         Owned(fs, e.lexical, own, ins, dn),
         NEW k \in 1..Len(e.lexical), NEW n \in Name
  PROVE  Entry(e, fs, own, k, n)
<1>1. e.lexical[1][n] = NULL
  BY DEF Owned
<1>2. Len(e.lexical) \in Nat
  BY EnvInvFacts
<1>3. CASE k = 1
  BY <1>1, <1>3 DEF Entry
<1>4. CASE k # 1
  <2>1. k \in 2..Len(e.lexical) /\ k > 1
    BY <1>2, <1>4
  <2>2. IF Positions(fs, own[k], n) # {}
        THEN e.lexical[k][n] = Parameter(fs, own[k], n)
        ELSE e.lexical[k][n] = NULL \/ e.lexical[k][n].kind = "alloca"
    BY <2>1 DEF Owned
  <2>3. own[k] \in 1..Len(fs)
    BY <2>1, OwnerFacts
  <2>4. Positions(fs, own[k], n) # {} => Parameter(fs, own[k], n).kind = "arg"
    BY <2>3, ParameterFacts
  <2> QED
    BY <2>1, <2>2, <2>4 DEF Entry
<1> QED
  BY <1>3, <1>4

\* A name that no open scope binds has no binder around the innermost function.
LEMMA Unbound ==
  ASSUME NEW e, EnvInv(e), Len(e.lexical) >= 1, NEW fs \in Seq(Fun), ParentsFirst(fs),
         NEW own \in Owners(fs, e.lexical), NEW ins, NEW dn,
         Owned(fs, e.lexical, own, ins, dn),
         NEW n \in Name, \A k \in 1..Len(e.lexical) : e.lexical[k][n] = NULL
  PROVE  BinderIn(fs, ins, n) = NULL
<1> DEFINE d == Len(e.lexical)
           P == {k \in Nat : k \in 1..d => BinderIn(fs, own[k], n) = NULL}
<1>1. /\ d \in Nat /\ d >= 1 /\ Len(fs) \in Nat
      /\ \A k \in 1..d : own[k] \in 0..Len(fs)
      /\ \A k \in 2..d : own[k] \in 1..Len(fs)
      /\ own[d] = ins
  BY OwnerFacts
<1>2. \A k \in 2..d : Positions(fs, own[k], n) = {} /\ fs[own[k]].parent = own[k - 1]
  <2> SUFFICES ASSUME NEW k \in 2..d
               PROVE  Positions(fs, own[k], n) = {} /\ fs[own[k]].parent = own[k - 1]
    OBVIOUS
  <2>1. k \in 1..d /\ k > 1 /\ e.lexical[k][n] = NULL
    BY <1>1
  <2>2. Positions(fs, own[k], n) # {} => e.lexical[k][n].kind = "arg"
    BY <2>1, EntryFacts DEF Entry
  <2>3. fs[own[k]].parent = own[k - 1]
    BY DEF Owned
  <2> QED
    BY <2>1, <2>2, <2>3 DEF NULL
<1>3. BinderIn(fs, own[1], n) = NULL
  <2>1. own[1] \in 0..Len(fs)
    BY <1>1
  <2>2. own[1] # 0 => fs[own[1]].parent = 0 /\ Positions(fs, own[1], n) = {}
    BY DEF Owned, Positions
  <2>3. BinderIn(fs, 0, n) = NULL
    BY <1>1, BinderStep
  <2>4. own[1] # 0 => BinderIn(fs, own[1], n) = BinderIn(fs, 0, n)
    BY <2>1, <2>2, BinderStep
  <2> QED
    BY <2>3, <2>4
<1>4. ASSUME NEW k \in Nat, \A m \in 0..(k - 1) : m \in P, k \in 1..d
      PROVE  BinderIn(fs, own[k], n) = NULL
  <2>1. CASE k = 1
    BY <1>3, <2>1
  <2>2. CASE k # 1
    <3>1. k \in 2..d /\ k - 1 \in 0..(k - 1) /\ k - 1 \in 1..d
      BY <1>1, <1>4, <2>2
    <3>2. BinderIn(fs, own[k - 1], n) = NULL
      BY <1>4, <3>1
    <3>3. own[k] \in 0..Len(fs) /\ own[k] # 0
      BY <1>1, <3>1
    <3> QED
      BY <1>2, <3>1, <3>2, <3>3, BinderStep
  <2> QED
    BY <2>1, <2>2
<1>5. Nat \subseteq P
  <2>1. \A k \in Nat : (\A m \in 0..(k - 1) : m \in P) => k \in P
    BY <1>4
  <2> HIDE DEF P
  <2> QED
    BY <2>1, NatSetInduction
<1>6. d \in P /\ d \in 1..d
  BY <1>1, <1>5
<1> QED
  BY <1>1, <1>6

\* The binding of a name in the innermost scope stands for it.
LEMMA BindingStands ==
  ASSUME NEW e, EnvInv(e), Len(e.lexical) >= 1, NEW fs \in Seq(Fun), ParentsFirst(fs),
         NEW own \in Owners(fs, e.lexical), NEW ins, NEW dn,
         Owned(fs, e.lexical, own, ins, dn), NEW names,
         NEW n \in Name, NEW k \in 1..Len(e.lexical), e.lexical[k][n] # NULL
  PROVE  StandsFor(fs, e.lexical, own, names, own[k], e.lexical[k][n], n)
<1> DEFINE v == e.lexical[k][n]
<1>1. /\ k > 1
      /\ \/ v.kind = "alloca"
         \/ Positions(fs, own[k], n) # {} /\ v = Parameter(fs, own[k], n)
  <2>1. Entry(e, fs, own, k, n)
    BY EntryFacts
  <2> QED
    BY <2>1 DEF Entry
<1>2. k \in 2..Len(e.lexical) /\ own[k] \in 1..Len(fs) /\ own[k] # 0
  <2>1. k \in 2..Len(e.lexical)
    BY <1>1, EnvInvFacts
  <2>2. own[k] \in 1..Len(fs)
    BY <2>1, OwnerFacts
  <2> QED
    BY <2>1, <2>2
<1>3. CASE v.kind = "alloca"
  BY <1>3 DEF StandsFor
<1>4. CASE Positions(fs, own[k], n) # {} /\ v = Parameter(fs, own[k], n)
  BY <1>2, <1>4, ParameterFacts DEF StandsFor
<1> QED
  BY <1>1, <1>3, <1>4

-----------------------------------------------------------------------------

\* The name lists once functions without a freelist have been created.
Longer(names, fs, gs) == [g \in 1..Len(gs) |-> IF g <= Len(fs) THEN names[g] ELSE <<>>]

\* They agree with the shorter lists, and give the new functions none.
LEMMA LongerFacts ==
  ASSUME NEW fs \in Seq(Fun), NEW gs \in Seq(Fun), Len(fs) <= Len(gs),
         NEW names \in NameLists(fs)
  PROVE  /\ Longer(names, fs, gs) \in NameLists(gs)
         /\ \A g \in 1..Len(gs) :
              Longer(names, fs, gs)[g] = IF g <= Len(fs) THEN names[g] ELSE <<>>
<1>1. \A g \in 1..Len(gs) : (IF g <= Len(fs) THEN names[g] ELSE <<>>) \in Seq(Name)
  <2> SUFFICES ASSUME NEW g \in 1..Len(gs), g <= Len(fs) PROVE names[g] \in Seq(Name)
    OBVIOUS
  <2>1. g \in 1..Len(fs)
    OBVIOUS
  <2> QED
    BY <2>1 DEF NameLists
<1> QED
  BY <1>1 DEF Longer, NameLists

\* Where only the outermost scope is open, the insert point may go anywhere.
LEMMA Resettle ==
  ASSUME NEW e, EnvInv(e), Len(e.lexical) = 1,
         NEW fs \in Seq(Fun), NEW gs \in Seq(Fun), ParentsFirst(fs), ParentsFirst(gs),
         Len(fs) <= Len(gs), \A g \in 1..Len(fs) : gs[g] = fs[g],
         \A g \in 1..Len(gs) : g > Len(fs) => gs[g].free = <<>>,
         NEW us \in SUBSET Use, NEW ins, NEW dn, Scoped(fs, e.lexical, ins, dn, us),
         NEW ins2 \in 0..Len(gs), NEW dn2,
         ins2 # 0 => gs[ins2] = NewFun(0, <<>>) /\ \A g \in dn2 : g < ins2
  PROVE  Scoped(gs, e.lexical, ins2, dn2, us)
<1>1. PICK own \in Owners(fs, e.lexical), names \in NameLists(fs) :
        Owned(fs, e.lexical, own, ins, dn) /\ Resolved(fs, e.lexical, own, names, us)
  BY DEF Scoped
<1> DEFINE own2 == [k \in 1..Len(e.lexical) |-> ins2]
           names2 == Longer(names, fs, gs)
<1>2. own2 \in Owners(gs, e.lexical) /\ own2[1] = ins2 /\ own2[Len(e.lexical)] = ins2
  BY DEF Owners
<1>3. /\ names2 \in NameLists(gs)
      /\ \A g \in 1..Len(gs) : names2[g] = IF g <= Len(fs) THEN names[g] ELSE <<>>
  BY LongerFacts
<1>4. \A n \in Name : e.lexical[1][n] = NULL
  BY <1>1 DEF Owned
<1> HIDE DEF own2, names2
<1>5. Owned(gs, e.lexical, own2, ins2, dn2)
  <2>1. \A k \in 1..Len(e.lexical) : k = 1
    OBVIOUS
  <2>2. ins2 # 0 => /\ gs[ins2].free = <<>> /\ gs[ins2].parent = 0
                    /\ gs[ins2].formals = <<>>
    BY DEF NewFun
  <2> QED
    BY <1>2, <1>4, <2>1, <2>2 DEF Owned
<1>6. Resolved(gs, e.lexical, own2, names2, us)
  <2>1. \A k \in 1..Len(e.lexical), n \in Name : e.lexical[k][n].kind # "alloca"
    <3>1. \A k \in 1..Len(e.lexical) : k = 1
      OBVIOUS
    <3> QED
      BY <1>4, <3>1, NullFacts
  <2>2. \A u \in us : u.name \in Name
    BY DEF Use
  <2> QED
    <3>1. \A k \in 1..Len(e.lexical), n \in Name : e.lexical[k][n].kind = "alloca" =>
            k \in 1..Len(e.lexical) /\ own2[k] = own[k] /\ e.lexical[k][n] = e.lexical[k][n]
      BY <2>1
    <3>2. \A u \in us :
            \/ u \in us
            \/ /\ u.fn \in 1..Len(gs)
               /\ StandsFor(gs, e.lexical, own2, names2, u.fn, u.val, u.name)
      OBVIOUS
    <3>3. /\ names \in NameLists(fs) /\ names2 \in NameLists(gs)
          /\ \A g \in 1..Len(gs) : names2[g] = IF g <= Len(fs) THEN names[g] ELSE <<>>
      BY <1>1, <1>3, Zenon
    <3>4. Resolved(fs, e.lexical, own, names, us) /\ \A u \in us : u.name \in Name
      BY <1>1, <2>2, Zenon
    <3> QED
      BY <3>1, <3>2, <3>3, <3>4, KeepResolved, ZenonT(60)
<1> QED
  BY <1>2, <1>3, <1>5, <1>6 DEF Scoped

\* A reference resolves to the binder of its name.
LEMMA ReferenceScoped ==
  ASSUME IInv, InsertOK, Scoped(funs, env.lexical, inserting, done, uses),
         NEW n \in Name, Reference(n), IInv'
  PROVE  Scoped(funs', env'.lexical, inserting', done', uses')
<1> DEFINE d == Len(env.lexical)
           v == searchLocalBinding(env, n)
           lex == env'.lexical
           use == [fn |-> inserting, name |-> n, val |-> v]
<1>1. /\ EnvInv(env) /\ env \in Env /\ d \in Nat /\ d >= 1 /\ d \in 1..d
      /\ funs \in Seq(Fun) /\ ParentsFirst(funs)
      /\ \A u \in uses \cup uses' : u.name \in Name
  BY IInvFacts DEF InsertOK, IInv, TypeOK, Use
<1>2. PICK own \in Owners(funs, env.lexical), names \in NameLists(funs) :
        /\ Owned(funs, env.lexical, own, inserting, done)
        /\ Resolved(funs, env.lexical, own, names, uses)
  BY DEF Scoped
<1>3. /\ funs' = funs /\ inserting' = inserting /\ done' = done
      /\ uses' = uses \cup {use} /\ phase = "gen"
  BY DEF Reference
<1>4. lex = afterSearch(env, n).lexical
  <2>1. CASE v # NULL
    BY <2>1 DEF Reference
  <2>2. CASE v = NULL
    <3>1. afterSearch(env, n) = env
      BY <1>1, <2>2, SearchAdds
    <3>2. env' = getGlobal(env, n)
      BY <2>2 DEF Reference
    <3>3. env'.lexical = env.lexical
      BY <1>1, <3>2, AddGlobalInv DEF getGlobal
    <3> QED
      BY <3>1, <3>3
  <2> QED
    BY <2>1, <2>2
<1>5. /\ EnvInv(env') /\ Len(lex) = d
  BY <1>1, <1>4, SearchInv, IInvFacts DEF IInv
<1>6. /\ \A i \in 1..d, m \in Name :
           \/ lex[i][m] = env.lexical[i][m]
           \/ i > 1 /\ env.lexical[i][m] = NULL /\ lex[i][m].kind = "alloca"
      /\ v = lex[d][n]
      /\ v = NULL => \A i \in 1..d : env.lexical[i][n] = NULL
  <2> DEFINE g == afterSearch(env, n)
  <2>1. \A i \in 1..d, m \in Name :
           \/ g.lexical[i][m] = env.lexical[i][m]
           \/ i > 1 /\ env.lexical[i][m] = NULL /\ g.lexical[i][m].kind = "alloca"
    BY <1>1, SearchAdds
  <2>2. v = g.lexical[d][n] /\ (v = NULL => \A i \in 1..d : env.lexical[i][n] = NULL)
    BY <1>1, SearchAdds
  <2> QED
    BY <1>4, <2>1, <2>2
<1> HIDE DEF lex, v, use
<1>7. own \in Owners(funs, lex)
  BY <1>5 DEF Owners
<1>8. Owned(funs, lex, own, inserting, done)
  <2>1. ASSUME NEW k \in 2..d, NEW m \in Name
        PROVE  IF Positions(funs, own[k], m) # {}
               THEN lex[k][m] = Parameter(funs, own[k], m)
               ELSE lex[k][m] = NULL \/ lex[k][m].kind = "alloca"
    <3>1. k \in 1..d /\ k > 1
      BY <1>1
    <3>2. Entry(env, funs, own, k, m)
      BY <1>1, <1>2, <3>1, EntryFacts
    <3>3. \/ lex[k][m] = env.lexical[k][m]
          \/ env.lexical[k][m] = NULL /\ lex[k][m].kind = "alloca"
      BY <1>6, <3>1
    <3> QED
      BY <3>1, <3>2, <3>3 DEF Entry, NULL
  <2>2. \A m \in Name : lex[1][m] = NULL
    BY <1>1, <1>2, <1>6 DEF Owned
  <2> QED
    BY <1>2, <1>5, <2>1, <2>2 DEF Owned
<1>9. StandsFor(funs, lex, own, names, inserting, v, n)
  <2>1. own[d] = inserting
    BY <1>2 DEF Owned
  <2>2. CASE v = NULL
    <3>1. \A k \in 1..Len(env.lexical) : env.lexical[k][n] = NULL
      BY <1>6, <2>2
    <3>2. /\ EnvInv(env) /\ Len(env.lexical) >= 1
          /\ funs \in Seq(Fun) /\ ParentsFirst(funs)
          /\ own \in Owners(funs, env.lexical)
          /\ Owned(funs, env.lexical, own, inserting, done)
      BY <1>1, <1>2
    <3> HIDE DEF d
    <3>3. BinderIn(funs, inserting, n) = NULL
      BY <3>1, <3>2, Unbound, ZenonT(60)
    <3> QED
      BY <2>2, <3>3 DEF StandsFor
  <2>3. CASE v # NULL
    <3>1. StandsFor(funs, env'.lexical, own, names, own[d], env'.lexical[d][n], n)
      BY <1>1, <1>5, <1>6, <1>7, <1>8, <2>3, BindingStands DEF lex
    <3> QED
      BY <1>6, <2>1, <3>1 DEF lex
  <2> QED
    BY <2>2, <2>3
<1>10. inserting \in 1..Len(funs)
  BY <1>3, PopFacts, IInvFacts DEF InsertOK, StackOK, Back
<1>11. Resolved(funs, lex, own, names, uses')
  <2>1. \A k \in 1..Len(env.lexical), m \in Name : env.lexical[k][m].kind = "alloca" =>
           k \in 1..Len(lex) /\ own[k] = own[k] /\ lex[k][m] = env.lexical[k][m]
    BY <1>5, <1>6 DEF NULL
  <2>2. \A u \in uses' :
           \/ u \in uses
           \/ u.fn \in 1..Len(funs) /\ StandsFor(funs, lex, own, names, u.fn, u.val, u.name)
    BY <1>3, <1>9, <1>10 DEF use
  <2>3. \A g \in 1..Len(funs) : g <= Len(funs) /\ ~(g > Len(funs))
    BY <1>1
  <2>4. Len(funs) <= Len(funs)
    BY <1>1
  <2> QED
    BY <1>1, <1>2, <2>1, <2>2, <2>3, <2>4, KeepResolved
<1> QED
  BY <1>3, <1>7, <1>8, <1>11 DEF Scoped, lex

\* A new function's scope binds its parameters, and nothing else.
LEMMA BeginFunctionScoped ==
  ASSUME IInv, InsertOK, Scoped(funs, env.lexical, inserting, done, uses),
         NEW fs \in Seq(Name), BeginFunction(fs), IInv'
  PROVE  Scoped(funs', env'.lexical, inserting', done', uses')
<1> DEFINE d == Len(env.lexical)
           f == Len(funs) + 1
           lex == env'.lexical
<1>1. /\ EnvInv(env) /\ d \in Nat /\ d >= 1 /\ d \in 1..d
      /\ funs \in Seq(Fun) /\ ParentsFirst(funs) /\ Len(funs) \in Nat
      /\ \A u \in uses : u.name \in Name
  BY IInvFacts DEF InsertOK, IInv, TypeOK, Use
<1>2. PICK own \in Owners(funs, env.lexical), names \in NameLists(funs) :
        /\ Owned(funs, env.lexical, own, inserting, done)
        /\ Resolved(funs, env.lexical, own, names, uses)
  BY DEF Scoped
<1>3. /\ phase = "gen" /\ funs' = Append(funs, NewFun(inserting, fs))
      /\ env' = loadFuncArgs(newScope(env), f, fs)
      /\ inserting' = f /\ done' = done /\ uses' = uses
  BY DEF BeginFunction
<1>4. inserting \in 1..Len(funs) /\ inserting \in 0..Len(funs) /\ f \in Nat
  BY <1>1, <1>3, PopFacts, IInvFacts DEF InsertOK, StackOK, Back
<1>5. /\ funs' \in Seq(Fun) /\ Len(funs') = f /\ ParentsFirst(funs') /\ Extends(funs', funs)
      /\ \A g \in 1..Len(funs) : funs'[g] = funs[g]
      /\ funs'[f] = NewFun(inserting, fs)
  BY <1>1, <1>3, <1>4, AppendFacts
<1>6. /\ EnvInv(env') /\ Len(lex) = d + 1
      /\ \A k \in 1..d : lex[k] = env.lexical[k]
  <2> DEFINE g == loadFuncArgs(newScope(env), f, fs)
  <2>1. EnvInv(g)
    BY <1>1, <1>4, ArgsFacts
  <2>2. Len(g.lexical) = d + 1
    BY <1>1, <1>4, ArgsFacts
  <2>3. \A k \in 1..d : g.lexical[k] = env.lexical[k]
    BY <1>1, <1>4, ArgsBound
  <2> QED
    BY <1>3, <2>1, <2>2, <2>3
<1>7. \A n \in Name : lex[d + 1][n] =
                        IF Positions(funs', f, n) = {} THEN NULL ELSE Parameter(funs', f, n)
  <2>1. \A n \in Name : lex[d + 1][n] = ArgOf(f, fs, n)
    BY <1>1, <1>3, <1>4, ArgsBound
  <2>2. funs'[f].formals = fs
    BY <1>5 DEF NewFun
  <2> SUFFICES ASSUME NEW n \in Name
               PROVE  ArgOf(f, fs, n) = IF Positions(funs', f, n) = {} THEN NULL
                                        ELSE Parameter(funs', f, n)
    BY <2>1
  <2> DEFINE at == {i \in 1..Len(fs) : fs[i] = n}
  <2>3. Positions(funs', f, n) = at
    BY <2>2 DEF Positions
  <2>4. ArgOf(f, fs, n) = IF at = {} THEN NULL
                          ELSE Arg(f, CHOOSE i \in at : \A j \in at : i <= j)
    BY DEF ArgOf
  <2> HIDE DEF at
  <2> QED
    BY <2>3, <2>4 DEF Parameter
<1> HIDE DEF lex
<1> DEFINE own2 == [k \in 1..Len(lex) |-> IF k = d + 1 THEN f ELSE own[k]]
           names2 == Longer(names, funs, funs')
<1>8. /\ d \in Nat /\ Len(funs) \in Nat
      /\ \A k \in 1..d : own[k] \in 0..Len(funs)
      /\ own[d] = inserting
  BY <1>1, <1>2, OwnerFacts
<1>9. /\ own2 \in Owners(funs', lex) /\ own2[d + 1] = f
      /\ \A k \in 1..d : own2[k] = own[k]
  BY <1>5, <1>6, <1>8 DEF Owners
<1>10. /\ names2 \in NameLists(funs')
       /\ \A g \in 1..Len(funs') : names2[g] = IF g <= Len(funs) THEN names[g] ELSE <<>>
  BY <1>1, <1>2, <1>5, LongerFacts
<1> HIDE DEF own2, names2, f
<1>11. Owned(funs', lex, own2, inserting', done')
  <2>1. own2[Len(lex)] = inserting'
    BY <1>3, <1>6, <1>9
  <2>2. \A k \in 1..Len(lex) : own2[k] # 0 => funs'[own2[k]].free = <<>>
    <3> SUFFICES ASSUME NEW k \in 1..(d + 1), own2[k] # 0 PROVE funs'[own2[k]].free = <<>>
      BY <1>6
    <3>1. CASE k = d + 1
      BY <1>5, <1>9, <3>1 DEF NewFun
    <3>2. CASE k # d + 1
      <4>1. k \in 1..d /\ own2[k] = own[k] /\ own[k] \in 1..Len(funs)
        BY <1>8, <1>9, <3>2
      <4> QED
        BY <1>2, <1>5, <4>1 DEF Owned
    <3> QED
      BY <3>1, <3>2
  <2>3. \A j, k \in 1..Len(lex) : j < k => own2[j] < own2[k]
    <3> SUFFICES ASSUME NEW j \in 1..(d + 1), NEW k \in 1..(d + 1), j < k
                 PROVE  own2[j] < own2[k]
      BY <1>6
    <3>1. j \in 1..d
      BY <1>8
    <3>2. CASE k = d + 1
      BY <1>8, <1>9, <3>1, <3>2 DEF f
    <3>3. CASE k # d + 1
      <4>1. k \in 1..d
        BY <1>8, <3>3
      <4> QED
        BY <1>2, <1>9, <3>1, <4>1 DEF Owned
    <3> QED
      BY <3>2, <3>3
  <2>4. /\ own2[1] = own[1] /\ own[1] \in 0..Len(funs)
        /\ own[1] # 0 => funs'[own[1]] = funs[own[1]]
    <3>1. 1 \in 1..d
      BY <1>1
    <3>2. own2[1] = own[1] /\ own[1] \in 0..Len(funs)
      BY <1>8, <1>9, <3>1
    <3>3. ASSUME own[1] # 0 PROVE funs'[own[1]] = funs[own[1]]
      <4>1. own[1] \in 1..Len(funs)
        BY <1>8, <3>2, <3>3
      <4> QED
        BY <1>5, <4>1
    <3> QED
      BY <3>2, <3>3
  <2>5. own2[1] # 0 => /\ funs'[own2[1]].parent = 0 /\ funs'[own2[1]].formals = <<>>
                       /\ \A g \in done' : g < own2[1]
    BY <1>2, <1>3, <2>4 DEF Owned
  <2>6. ASSUME NEW k \in 2..(d + 1)
        PROVE  /\ funs'[own2[k]].parent = own2[k - 1]
               /\ \A n \in Name :
                    IF Positions(funs', own2[k], n) # {}
                    THEN lex[k][n] = Parameter(funs', own2[k], n)
                    ELSE lex[k][n] = NULL \/ lex[k][n].kind = "alloca"
    <3>1. CASE k = d + 1
      <4>1. funs'[f].parent = inserting /\ own2[k] = f /\ k - 1 = d /\ own2[d] = inserting
        <5>1. funs'[f].parent = inserting
          BY <1>5 DEF NewFun
        <5>2. k - 1 = d /\ d \in 1..d
          BY <1>1, <1>8, <3>1
        <5>3. own2[k] = f /\ own2[d] = inserting
          BY <1>8, <1>9, <3>1, <5>2
        <5> QED
          BY <5>1, <5>2, <5>3
      <4> QED
        BY <1>7, <3>1, <4>1
    <3>2. CASE k # d + 1
      <4>1. k \in 2..d /\ k \in 1..d /\ k - 1 \in 1..d
        BY <1>8, <3>2
      <4>2. own2[k] = own[k] /\ own2[k - 1] = own[k - 1] /\ own[k] \in 1..Len(funs)
        BY <1>1, <1>2, <1>9, <4>1, OwnerFacts
      <4>3. funs[own[k]].parent = own[k - 1]
        BY <1>2, <4>1 DEF Owned
      <4>4. \A n \in Name :
              IF Positions(funs, own[k], n) # {}
              THEN env.lexical[k][n] = Parameter(funs, own[k], n)
              ELSE env.lexical[k][n] = NULL \/ env.lexical[k][n].kind = "alloca"
        BY <1>2, <4>1 DEF Owned
      <4>5. \A n : /\ Positions(funs', own[k], n) = Positions(funs, own[k], n)
                   /\ Parameter(funs', own[k], n) = Parameter(funs, own[k], n)
        BY <1>1, <1>5, <4>2, SameBinder
      <4>6. lex[k] = env.lexical[k] /\ funs'[own[k]] = funs[own[k]]
        BY <1>5, <1>6, <4>1, <4>2
      <4> QED
        BY <4>2, <4>3, <4>4, <4>5, <4>6
    <3> QED
      BY <3>1, <3>2
  <2>7. \A n \in Name : lex[1][n] = NULL
    <3>1. 1 \in 1..d
      BY <1>1
    <3> QED
      BY <1>2, <1>6, <3>1 DEF Owned
  <2>8. own2[1] # 0
    <3>1. d = 1 => own[1] = inserting
      BY <1>8
    <3>2. d = 1 \/ d > 1
      <4> HIDE DEF d
      <4> QED
        BY <1>1
    <3>3. d > 1 => own[1] # 0
      BY <1>2 DEF Owned
    <3> QED
      BY <1>4, <2>4, <3>1, <3>2, <3>3
  <2> QED
    BY <1>6, <2>1, <2>2, <2>3, <2>5, <2>6, <2>7, <2>8 DEF Owned
<1>12. Resolved(funs', lex, own2, names2, uses')
  <2>1. \A k \in 1..Len(env.lexical), n \in Name : env.lexical[k][n].kind = "alloca" =>
           k \in 1..Len(lex) /\ own2[k] = own[k] /\ lex[k][n] = env.lexical[k][n]
    BY <1>1, <1>6, <1>9
  <2>2. \A g \in 1..Len(funs') : g > Len(funs) => funs'[g].free = <<>>
    <3>1. \A g \in 1..Len(funs') : g > Len(funs) => g = f
      BY <1>1, <1>5 DEF f
    <3> QED
      BY <1>5, <3>1 DEF NewFun
  <2>3. \A u \in uses' :
           \/ u \in uses
           \/ u.fn \in 1..Len(funs') /\ StandsFor(funs', lex, own2, names2, u.fn, u.val, u.name)
    BY <1>3
  <2>4. Len(funs) <= Len(funs')
    BY <1>1, <1>5 DEF f
  <2>5. \A u \in uses' : u.name \in Name
    BY <1>1, <1>3
  <2> QED
    BY <1>1, <1>2, <1>5, <1>10, <2>1, <2>2, <2>3, <2>4, <2>5, KeepResolved
<1> QED
  BY <1>9, <1>10, <1>11, <1>12 DEF Scoped, lex

(***************************************************************************)
(* When a function ends, the operands that stood for a variable through its  *)
(* placeholders do so through its freelist, which is filled from the scope    *)
(* around it.                                                               *)
(***************************************************************************)
LEMMA EndFunctionScoped ==
  ASSUME IInv, InsertOK, Scoped(funs, env.lexical, inserting, done, uses),
         EndFunction, IInv', InsertOK'
  PROVE  Scoped(funs', env'.lexical, inserting', done', uses')
<1> DEFINE d == Len(env.lexical)
           f == Top.fn
           r == getCurrentRefs(env)
           lex == env'.lexical
           L == Len(funs)
<1>1. /\ EnvInv(env) /\ d \in Nat /\ d >= 1 /\ d \in 1..d
      /\ funs \in Seq(Fun) /\ ParentsFirst(funs) /\ L \in Nat
      /\ stack \in Seq(Frame) /\ stack # <<>>
  BY IInvFacts DEF InsertOK, EndFunction, StackOK
<1>2. /\ phase = "gen" /\ phase' = "gen" /\ Top.kind = "fn" /\ replaceAllUsesWith(env, f)
      /\ env' = exitLastScope(env) /\ inserting' = Top.prev /\ done' = done
  BY DEF EndFunction
<1>3. PICK own \in Owners(funs, env.lexical), names \in NameLists(funs) :
        /\ Owned(funs, env.lexical, own, inserting, done)
        /\ Resolved(funs, env.lexical, own, names, uses)
  BY DEF Scoped
<1>4. /\ f = inserting /\ f \in 1..L /\ f \in Nat /\ Top.prev = funs[f].parent
  <2>1. Len(stack) \in 1..Len(stack) /\ Top = stack[Len(stack)]
    BY <1>1, PopFacts DEF Top
  <2> QED
    BY <1>1, <1>2, <2>1 DEF InsertOK, Top
<1>5. d >= 2
  <2>1. Len(stack) \in Opens(stack)
    BY <1>1, <1>2, PopFacts DEF Opens, Top
  <2>2. IsFiniteSet(Opens(stack))
    <3>1. IsFiniteSet(1..Len(stack))
      BY <1>1, FS_Interval
    <3>2. Opens(stack) \subseteq 1..Len(stack)
      BY DEF Opens
    <3> QED
      BY <3>1, <3>2, FS_Subset
  <2>3. Cardinality(Opens(stack)) # 0
    BY <2>1, <2>2, FS_EmptySet
  <2> QED
    BY <2>3, IInvFacts
<1>6. /\ EnvInv(env') /\ Len(lex) = d - 1
      /\ \A k \in 1..(d - 1) : lex[k] = env.lexical[k]
  BY <1>1, <1>2, ExitScopeInv
<1>7. /\ funs' \in Seq(Fun) /\ Len(funs') = L /\ Extends(funs', funs) /\ ParentsFirst(funs')
      /\ funs'[f].free = fillFreelist(r)
      /\ \A g \in 1..L : g # f =>
           /\ Len(funs'[g].free) = Len(funs[g].free)
           /\ \A i \in 1..Len(funs[g].free) :
                funs'[g].free[i] = replaceUse(env, f, funs[g].free[i])
      /\ uses' = {[u EXCEPT !.val = replaceUse(env, f, @)] : u \in uses}
  <2>1. /\ Len(funs') = L /\ Extends(funs', funs) /\ ParentsFirst(funs')
        /\ f \in 1..L => funs'[f].free = fillFreelist(r)
        /\ \A g \in 1..L : g # f =>
           /\ Len(funs'[g].free) = Len(funs[g].free)
           /\ \A i \in 1..Len(funs[g].free) :
                funs'[g].free[i] = replaceUse(env, f, funs[g].free[i])
    BY <1>1, <1>2, <1>4, ReplaceExtends
  <2>2. funs' \in Seq(Fun)
    BY <1>2, <1>4, ReplaceOperands
  <2> QED
    BY <1>2, <1>4, <2>1, <2>2 DEF replaceAllUsesWith
<1>8. r = env.refs[d] /\ r \in Binding
  BY <1>1, EnvInvFacts DEF getCurrentRefs, Back
<1>9. /\ SlotNames(r) \in Seq(Name) /\ Len(SlotNames(r)) = Len(fillFreelist(r))
      /\ \A i \in 1..Len(fillFreelist(r)) :
           SlotNames(r)[i] \in Captured(r) /\ fillFreelist(r)[i] = r[SlotNames(r)[i]]
      /\ \A n \in Captured(r) : /\ Slot(r, n) \in 1..Len(fillFreelist(r))
                                 /\ SlotNames(r)[Slot(r, n)] = n
  BY <1>8, SlotNamesFacts
<1>10. /\ \A k \in 1..d : own[k] \in 0..L
       /\ \A k \in 2..d : own[k] \in 1..L
       /\ own[d] = f
       /\ funs[f].free = <<>>
       /\ \A k \in 1..(d - 1) : own[k] # f
       /\ own[d - 1] = funs[f].parent
  <2>1. (\A k \in 1..d : own[k] \in 0..L) /\ (\A k \in 2..d : own[k] \in 1..L)
    BY <1>1, <1>3, OwnerFacts
  <2>2. own[d] = f /\ funs[f].free = <<>> /\ own[d - 1] = funs[f].parent
    <3>1. d \in 2..d /\ f # 0
      BY <1>1, <1>4, <1>5
    <3> QED
      BY <1>1, <1>3, <1>4, <3>1 DEF Owned
  <2>3. \A k \in 1..(d - 1) : k \in 1..d /\ k < d
    BY <1>1
  <2>4. \A k \in 1..(d - 1) : own[k] < own[d]
    BY <1>1, <1>3, <2>3 DEF Owned
  <2>5. \A k \in 1..(d - 1) : own[k] \in Nat
    BY <2>1, <2>3
  <2> QED
    BY <1>4, <2>1, <2>2, <2>4, <2>5
<1> DEFINE own2 == [k \in 1..Len(lex) |-> own[k]]
           names2 == [g \in 1..Len(funs') |-> IF g = f THEN SlotNames(r) ELSE names[g]]
<1>11. /\ own2 \in Owners(funs', lex) /\ \A k \in 1..(d - 1) : own2[k] = own[k]
  BY <1>1, <1>6, <1>7, <1>10 DEF Owners
<1>12. /\ names2 \in NameLists(funs') /\ names2[f] = SlotNames(r)
       /\ \A g \in 1..L : g # f => names2[g] = names[g]
  BY <1>4, <1>7, <1>9 DEF NameLists
<1> HIDE DEF own2, names2, f, r, lex, L
<1>13. ASSUME NEW g \in 0..L, NEW v \in Value \cup {NULL}, NEW n \in Name,
              StandsFor(funs, env.lexical, own, names, g, v, n)
       PROVE  StandsFor(funs', lex, own2, names2, g, replaceUse(env, f, v), n)
  <2>1. CASE v.kind = "alloca" /\ \E m \in Name : env.lexical[d][m] = v
    <3>1. PICK m \in Name : env.lexical[d][m] = v
      BY <2>1
    <3>2. PICK k \in 1..d : own[k] = g /\ env.lexical[k][n] = v
      BY <1>13, <2>1 DEF StandsFor, NULL
    <3>3. k = d /\ m = n
      <4>1. DistinctPlaceholders(env)
        BY <1>1 DEF EnvInv
      <4> QED
        BY <1>1, <2>1, <3>1, <3>2, <4>1, SMTT(30) DEF DistinctPlaceholders
    <3>4. g = f
      BY <1>10, <3>2, <3>3
    <3>5. n \in Captured(r) /\ replaceUse(env, f, v) = Load(f, Slot(r, n))
      <4>1. EnvInv(env) /\ Len(env.lexical) >= 1 /\ f \in Nat /\ d = Len(env.lexical)
        BY <1>1, <1>4
      <4>2. v \in Value \cup {NULL} /\ v.kind = "alloca" /\ env.lexical[d][n] = v
        BY <1>1, <2>1, <3>1, <3>3
      <4> HIDE DEF d
      <4> QED
        BY <4>1, <4>2, ReplaceExact, SMTT(30) DEF r
    <3>6. Slot(r, n) \in 1..Len(funs'[f].free) /\ names2[f][Slot(r, n)] = n
      BY <1>7, <1>9, <1>12, <3>5
    <3>7. f # 0
      BY <1>4
    <3> QED
      BY <3>4, <3>5, <3>6, <3>7 DEF StandsFor, Load
  <2>2. CASE ~(v.kind = "alloca" /\ \E m \in Name : env.lexical[d][m] = v)
    <3>1. v.kind # "alloca" \/ \A m \in Name : env.lexical[d][m] # v
      BY <2>2
    <3>2. replaceUse(env, f, v) = v
      <4>1. EnvInv(env) /\ Len(env.lexical) >= 1 /\ f \in Nat /\ d = Len(env.lexical)
        BY <1>1, <1>4
      <4>2. v \in Value \cup {NULL}
        BY <1>1
      <4>3. v.kind # "alloca" \/ \A m \in Name : env.lexical[d][m] # v
        BY <3>1
      <4> HIDE DEF d
      <4> QED
        BY <4>1, <4>2, <4>3, ReplaceExact, SMTT(30)
    <3>3. v.kind = "alloca" => \A k \in 1..Len(env.lexical) :
            own[k] = g /\ env.lexical[k][n] = v =>
              k \in 1..Len(lex) /\ own2[k] = g /\ lex[k][n] = v
      <4> SUFFICES ASSUME v.kind = "alloca", NEW k \in 1..d, own[k] = g,
                          env.lexical[k][n] = v
                   PROVE  k \in 1..Len(lex) /\ own2[k] = g /\ lex[k][n] = v
        OBVIOUS
      <4>1. k # d
        BY <3>1
      <4>2. k \in 1..(d - 1)
        BY <1>1, <4>1
      <4> QED
        BY <1>6, <1>11, <4>2
    <3>4. v.kind = "load" /\ g # 0 =>
            names2[g] = names[g] /\ Len(funs'[g].free) = Len(funs[g].free)
      <4> SUFFICES ASSUME v.kind = "load", g # 0
                   PROVE  names2[g] = names[g] /\ Len(funs'[g].free) = Len(funs[g].free)
        OBVIOUS
      <4>1. v.idx \in 1..Len(funs[g].free)
        BY <1>13 DEF StandsFor, NULL
      <4>2. g # f
        BY <1>10, <4>1
      <4>3. g \in 1..L
        BY <1>1 DEF L
      <4> QED
        BY <1>7, <1>12, <4>2, <4>3
    <3>5. StandsFor(funs', lex, own2, names2, g, v, n)
      BY <1>1, <1>7, <1>13, <3>3, <3>4, KeepStands DEF L
    <3> QED
      BY <3>2, <3>5
  <2> QED
    BY <2>1, <2>2
<1>14. Owned(funs', lex, own2, inserting', done')
  <2>1. own2[Len(lex)] = inserting'
    <3>1. d - 1 \in 1..(d - 1)
      BY <1>1, <1>5
    <3> QED
      BY <1>2, <1>4, <1>6, <1>10, <1>11, <3>1
  <2>2. ASSUME NEW k \in 1..(d - 1), own2[k] # 0 PROVE funs'[own2[k]].free = <<>>
    <3>1. k \in 1..d /\ own2[k] = own[k] /\ own[k] \in 1..L /\ own[k] # f
      BY <1>1, <1>10, <1>11, <2>2
    <3>2. funs[own[k]].free = <<>>
      BY <1>3, <2>2, <3>1 DEF Owned
    <3>3. Len(funs'[own[k]].free) = 0
      BY <1>7, <3>1, <3>2
    <3>4. funs'[own[k]] \in Fun
      BY <1>7, <3>1
    <3>5. funs'[own[k]].free \in Seq(Value)
      BY <3>4 DEF Fun
    <3> QED
      BY <3>1, <3>3, <3>5
  <2>3. ASSUME NEW j \in 1..(d - 1), NEW k \in 1..(d - 1), j < k PROVE own2[j] < own2[k]
    <3>1. j \in 1..d /\ k \in 1..d
      BY <1>1
    <3> QED
      BY <1>3, <1>11, <2>3, <3>1 DEF Owned
  <2>4. own2[1] # 0 => /\ funs'[own2[1]].parent = 0 /\ funs'[own2[1]].formals = <<>>
                       /\ \A g \in done' : g < own2[1]
    <3>1. 1 \in 1..(d - 1) /\ 1 \in 1..d
      BY <1>1, <1>5
    <3>2. own2[1] = own[1] /\ own[1] \in 0..L
      BY <1>10, <1>11, <3>1
    <3>3. own[1] # 0 => own[1] \in 1..L
      BY <3>2
    <3>4. own[1] # 0 => /\ funs'[own[1]].parent = funs[own[1]].parent
                        /\ funs'[own[1]].formals = funs[own[1]].formals
      BY <1>7, <3>3 DEF Extends, L
    <3> QED
      BY <1>2, <1>3, <3>2, <3>4 DEF Owned
  <2>5. ASSUME NEW k \in 2..(d - 1)
        PROVE  /\ funs'[own2[k]].parent = own2[k - 1]
               /\ \A n \in Name :
                    IF Positions(funs', own2[k], n) # {}
                    THEN lex[k][n] = Parameter(funs', own2[k], n)
                    ELSE lex[k][n] = NULL \/ lex[k][n].kind = "alloca"
    <3>1. k \in 2..d /\ k \in 1..(d - 1) /\ k - 1 \in 1..(d - 1)
      BY <1>1
    <3>2. own2[k] = own[k] /\ own2[k - 1] = own[k - 1] /\ own[k] \in 1..L
      BY <1>10, <1>11, <3>1
    <3>3. funs[own[k]].parent = own[k - 1]
      BY <1>3, <3>1 DEF Owned
    <3>4. \A n \in Name :
            IF Positions(funs, own[k], n) # {}
            THEN env.lexical[k][n] = Parameter(funs, own[k], n)
            ELSE env.lexical[k][n] = NULL \/ env.lexical[k][n].kind = "alloca"
      BY <1>3, <3>1 DEF Owned
    <3>5. \A n : /\ Positions(funs', own[k], n) = Positions(funs, own[k], n)
                 /\ Parameter(funs', own[k], n) = Parameter(funs, own[k], n)
      BY <1>1, <1>7, <3>2, SameBinder DEF L
    <3>6. lex[k] = env.lexical[k] /\ funs'[own[k]].parent = funs[own[k]].parent
      BY <1>6, <1>7, <3>1, <3>2 DEF Extends, L
    <3> QED
      BY <3>2, <3>3, <3>4, <3>5, <3>6
  <2>6. \A n \in Name : lex[1][n] = NULL
    <3>1. 1 \in 1..(d - 1)
      BY <1>1, <1>5
    <3> QED
      BY <1>3, <1>6, <3>1 DEF Owned
  <2>7. own2[1] # 0
    <3>1. 1 \in 1..(d - 1) /\ d > 1
      BY <1>1, <1>5
    <3>2. own[1] # 0
      BY <1>3, <3>1 DEF Owned
    <3> QED
      BY <1>11, <3>1, <3>2
  <2> QED
    BY <1>6, <2>1, <2>2, <2>3, <2>4, <2>5, <2>6, <2>7 DEF Owned
<1>15. ASSUME NEW i \in 1..Len(fillFreelist(r))
       PROVE  /\ Positions(funs', f, SlotNames(r)[i]) = {}
              /\ StandsFor(funs', lex, own2, names2, funs[f].parent, fillFreelist(r)[i],
                           SlotNames(r)[i])
  <2> DEFINE n == SlotNames(r)[i]
             v == env.lexical[d - 1][n]
  <2>1. n \in Name /\ r[n] # NULL /\ fillFreelist(r)[i] = r[n]
    BY <1>9 DEF Captured
  <2> HIDE DEF n
  <2>2. /\ r[n] = v /\ env.lexical[d][n].kind = "alloca"
        /\ d - 1 \in 1..d /\ v \in Value \cup {NULL} /\ v # NULL
    <3>1. d - 1 \in 1..d
      BY <1>1, <1>5
    <3>2. env.refs[d][n] = env.lexical[d - 1][n] /\ env.lexical[d][n].kind = "alloca"
      BY <1>1, <1>8, <2>1, EnvInvFacts
    <3>3. env.lexical[d - 1][n] \in Value \cup {NULL}
      BY <1>1, <2>1, <3>1, EnvInvFacts
    <3> QED
      BY <1>8, <2>1, <3>1, <3>2, <3>3
  <2>3. Positions(funs', f, n) = {}
    <3>1. Entry(env, funs, own, d, n)
      BY <1>1, <1>3, <2>1, EntryFacts
    <3>2. Positions(funs, f, n) = {}
      BY <1>5, <1>10, <2>2, <3>1 DEF Entry
    <3> QED
      BY <1>1, <1>4, <1>7, <3>2, SameBinder DEF L
  <2>4. StandsFor(funs, env.lexical, own, names, own[d - 1], v, n)
    BY <1>1, <1>3, <2>1, <2>2, BindingStands
  <2>5. replaceUse(env, f, v) = v
    <3>1. ASSUME v.kind = "alloca", NEW m \in Name, env.lexical[d][m] = v PROVE FALSE
      <4>1. DistinctPlaceholders(env) /\ d - 1 # d
        BY <1>1 DEF EnvInv
      <4> QED
        BY <1>1, <2>1, <2>2, <3>1, <4>1, SMTT(30) DEF DistinctPlaceholders
    <3>2. v.kind # "alloca" \/ \A m \in Name : env.lexical[d][m] # v
      BY <3>1
    <3> HIDE DEF v
    <3> QED
      BY <1>1, <1>4, <2>2, <3>2, ReplaceExact
  <2>6. own[d - 1] \in 0..L
    BY <1>10, <2>2
  <2> HIDE DEF v
  <2>7. StandsFor(funs', lex, own2, names2, own[d - 1], v, n)
    BY <1>13, <2>1, <2>2, <2>4, <2>5, <2>6
  <2> QED
    BY <1>10, <2>1, <2>2, <2>3, <2>7 DEF n
<1>16. Resolved(funs', lex, own2, names2, uses')
  <2>1. ASSUME NEW g \in 1..L
        PROVE  /\ Len(names2[g]) = Len(funs'[g].free)
               /\ \A i \in 1..Len(funs'[g].free) :
                    /\ Positions(funs', g, names2[g][i]) = {}
                    /\ StandsFor(funs', lex, own2, names2, funs'[g].parent,
                                 funs'[g].free[i], names2[g][i])
    <3>1. funs'[g].parent = funs[g].parent
      BY <1>7 DEF Extends, L
    <3>2. CASE g = f
      BY <1>7, <1>9, <1>12, <1>15, <3>1, <3>2
    <3>3. CASE g # f
      <4>1. /\ names2[g] = names[g] /\ Len(funs'[g].free) = Len(funs[g].free)
            /\ Len(names[g]) = Len(funs[g].free) /\ names[g] \in Seq(Name)
        BY <1>3, <1>7, <1>12, <3>3 DEF Resolved, NameLists, L
      <4> SUFFICES ASSUME NEW i \in 1..Len(funs[g].free)
                   PROVE  /\ Positions(funs', g, names[g][i]) = {}
                          /\ StandsFor(funs', lex, own2, names2, funs[g].parent,
                                       funs'[g].free[i], names[g][i])
        BY <3>1, <4>1
      <4>2. names[g][i] \in Name /\ funs[g].free[i] \in Value
        <5>1. funs[g] \in Fun
          BY <1>1 DEF L
        <5>2. funs[g].free \in Seq(Value)
          BY <5>1 DEF Fun
        <5> QED
          BY <4>1, <5>2
      <4>3. /\ Positions(funs, g, names[g][i]) = {}
            /\ StandsFor(funs, env.lexical, own, names, funs[g].parent, funs[g].free[i],
                         names[g][i])
        BY <1>3 DEF Resolved, L
      <4>4. funs[g].parent \in 0..L
        BY <1>1 DEF ParentsFirst, L
      <4>5. funs'[g].free[i] = replaceUse(env, f, funs[g].free[i])
        BY <1>7, <3>3
      <4>6. Positions(funs', g, names[g][i]) = {}
        BY <1>1, <1>7, <4>3, SameBinder DEF L
      <4> QED
        BY <1>13, <4>2, <4>3, <4>4, <4>5, <4>6
    <3> QED
      BY <3>2, <3>3
  <2>2. ASSUME NEW w \in uses'
        PROVE  w.fn \in 1..L /\ StandsFor(funs', lex, own2, names2, w.fn, w.val, w.name)
    <3>1. PICK u \in uses : w = [u EXCEPT !.val = replaceUse(env, f, @)]
      BY <1>7, <2>2
    <3>2. u \in Use
      BY DEF IInv, TypeOK
    <3>3. w.fn = u.fn /\ w.name = u.name /\ w.val = replaceUse(env, f, u.val)
          /\ u.name \in Name /\ u.val \in Value \cup {NULL}
      BY <3>1, <3>2 DEF Use
    <3>4. u.fn \in 1..L /\ StandsFor(funs, env.lexical, own, names, u.fn, u.val, u.name)
      BY <1>3 DEF Resolved, L
    <3>5. u.fn \in 0..L
      BY <1>1, <3>4 DEF L
    <3> QED
      BY <1>13, <3>3, <3>4, <3>5
  <2> QED
    BY <1>7, <2>1, <2>2 DEF Resolved
<1> QED
  BY <1>11, <1>12, <1>14, <1>16 DEF Scoped, lex

-----------------------------------------------------------------------------

\* With no activation open there is one scope, unless an Error left others.
LEMMA OneScope ==
  ASSUME stack = <<>>, ~ScopeLeft
  PROVE  Len(env.lexical) = 1
<1>1. OpenFunctions = {}
  BY DEF OpenFunctions
<1>2. Cardinality(OpenFunctions) = 0
  BY <1>1, FS_EmptySet
<1> QED
  BY <1>2 DEF ScopeLeft

\* Its search finds nothing.
LEMMA SearchInOne ==
  ASSUME IInv, Len(env.lexical) = 1, Scoped(funs, env.lexical, inserting, done, uses),
         NEW n \in Name
  PROVE  searchLocalBinding(env, n) = NULL /\ afterSearch(env, n) = env
<1>1. EnvInv(env) /\ Len(env.lexical) >= 1 /\ 1 \in 1..Len(env.lexical)
  BY IInvFacts
<1>2. env.lexical[1][n] = NULL
  BY DEF Scoped, Owned
<1>3. searchLocalBinding(env, n) = NULL
  <2> DEFINE g == afterSearch(env, n)
  <2>0. \A i \in 1..Len(env.lexical), m \in Name :
           \/ g.lexical[i][m] = env.lexical[i][m]
           \/ i > 1 /\ env.lexical[i][m] = NULL /\ g.lexical[i][m].kind = "alloca"
    BY <1>1, SearchAdds, SMTT(30)
  <2>1. g.lexical[1][n] = env.lexical[1][n]
    <3> HIDE DEF g
    <3> QED
      BY <1>1, <2>0
  <2>2. searchLocalBinding(env, n) = g.lexical[Len(env.lexical)][n]
    BY <1>1, SearchAdds, SMTT(30)
  <2> HIDE DEF g
  <2> QED
    BY <1>2, <2>1, <2>2
<1>4. afterSearch(env, n) = env
  BY <1>1, <1>3, SearchAdds
<1> QED
  BY <1>3, <1>4

\* Every step preserves ScopeInv.
LEMMA ScopeStep ==
  ASSUME IInv, InsertOK, ScopeInv, [Next]_vars
  PROVE  ScopeInv'
<1> SUFFICES ASSUME ~ScopeLeft' PROVE Scoped(funs', env'.lexical, inserting', done', uses')
  BY DEF ScopeInv
<1>1. IInv' /\ InsertOK' /\ Scoped(funs, env.lexical, inserting, done, uses) /\ ~ScopeLeft
  BY StepInv, InsertStep, ScopeLeftStays DEF ScopeInv
<1>2. /\ EnvInv(env) /\ Len(env.lexical) \in Nat /\ Len(env.lexical) >= 1
      /\ funs \in Seq(Fun) /\ Len(funs) \in Nat /\ ParentsFirst(funs)
      /\ uses \in SUBSET Use /\ 0 \in 0..Len(funs) /\ done \subseteq 1..Len(funs)
  BY IInvFacts DEF InsertOK, IInv, TypeOK
<1>3. stack' = <<>> => Len(env'.lexical) = 1
  <2>1. stack' = <<>> => OpenFunctions' = {}
    BY DEF OpenFunctions
  <2>2. stack' = <<>> => Cardinality(OpenFunctions') = 0
    BY <2>1, FS_EmptySet
  <2> QED
    BY <2>2 DEF ScopeLeft
<1>4. ASSUME Len(env.lexical) = 1, env'.lexical = env.lexical, funs' = funs, inserting' = 0,
             uses' = uses
      PROVE  Scoped(funs', env'.lexical, inserting', done', uses')
  <2>1. /\ Len(funs) <= Len(funs) /\ \A g \in 1..Len(funs) : funs[g] = funs[g]
        /\ \A g \in 1..Len(funs) : g > Len(funs) => funs[g].free = <<>>
    BY <1>2
  <2>2. Scoped(funs, env.lexical, 0, done', uses)
    BY <1>1, <1>2, <1>4, <2>1, Resettle
  <2> QED
    BY <1>4, <2>2
<1>5. ASSUME NEW n \in Name, Reference(n)
      PROVE  Scoped(funs', env'.lexical, inserting', done', uses')
  BY <1>1, <1>5, ReferenceScoped
<1>6. ASSUME NEW fs \in FormalLists, BeginFunction(fs)
      PROVE  Scoped(funs', env'.lexical, inserting', done', uses')
  <2>1. fs \in Seq(Name)
    BY FormalListsFacts
  <2> QED
    BY <1>1, <1>6, <2>1, BeginFunctionScoped
<1>7. CASE EndFunction
  BY <1>1, <1>7, EndFunctionScoped
<1>8. ASSUME NEW n \in Name, BeginDefine(n)
      PROVE  Scoped(funs', env'.lexical, inserting', done', uses')
  <2>1. env'.lexical = env.lexical
    BY <1>2, <1>8, AddGlobalInv DEF BeginDefine, getGlobal
  <2> QED
    BY <1>1, <1>8, <2>1 DEF BeginDefine
<1>9. CASE EndDefine
  BY <1>1, <1>9 DEF EndDefine
<1>10. CASE SyntaxError \/ MalformedDefine
  <2>1. env' = env /\ stack' = <<>> /\ inserting' = 0 /\ funs' = funs /\ uses' = uses
    BY <1>10 DEF SyntaxError, MalformedDefine, Throw, Unwind
  <2> QED
    BY <1>3, <1>4, <2>1
<1>11. ASSUME NEW n \in Name, Redefinition(n) PROVE FALSE
  <2>1. /\ env' = afterSearch(env, n) /\ stack' = <<>>
        /\ searchLocalBinding(env, n) # NULL
    BY <1>11 DEF Redefinition, Throw, Unwind
  <2>2. Len(env.lexical) = 1
    BY <1>2, <1>3, <2>1, SearchInv
  <2> QED
    BY <1>1, <2>1, <2>2, SearchInOne
<1>12. ASSUME NEW fs \in FormalLists, BadFormals(fs) PROVE FALSE
  <2>1. env' = loadFuncArgs(newScope(env), Len(funs) + 1, fs) /\ stack' = <<>>
    BY <1>12 DEF BadFormals, Throw, Unwind
  <2>2. fs \in Seq(Name) /\ Len(funs) + 1 \in Nat
    BY <1>2, FormalListsFacts
  <2>3. Len(env'.lexical) = Len(env.lexical) + 1
    BY <2>1, <2>2, FunctionGrows
  <2>4. Len(env.lexical) + 1 = 1
    BY <1>3, <2>1, <2>3
  <2> QED
    BY <1>2, <2>4
<1>13. CASE BeginForm
  <2>1. /\ env' = env /\ funs' = Append(funs, NewFun(0, <<>>)) /\ inserting' = Len(funs) + 1
        /\ uses' = uses /\ done' = done /\ phase = "idle"
    BY <1>13 DEF BeginForm
  <2>2. Len(env.lexical) = 1
    BY <1>1, <2>1, OneScope, IInvFacts DEF StackOK
  <2>3. <<>> \in Seq(Name)
    OBVIOUS
  <2>4. /\ funs' \in Seq(Fun) /\ Len(funs') = Len(funs) + 1 /\ ParentsFirst(funs')
        /\ \A g \in 1..Len(funs) : funs'[g] = funs[g]
        /\ funs'[Len(funs) + 1] = NewFun(0, <<>>)
    BY <1>2, <2>1, <2>3, AppendFacts
  <2>5. \A g \in 1..Len(funs') : g > Len(funs) => funs'[g].free = <<>>
    <3>1. \A g \in 1..Len(funs') : g > Len(funs) => g = Len(funs) + 1
      BY <1>2, <2>4
    <3> QED
      BY <2>4, <3>1 DEF NewFun
  <2>6. /\ Len(funs) <= Len(funs') /\ inserting' \in 0..Len(funs')
        /\ \A g \in done : g < inserting'
    BY <1>2, <2>1, <2>4
  <2>7. inserting' # 0 => funs'[inserting'] = NewFun(0, <<>>) /\ \A g \in done : g < inserting'
    BY <2>1, <2>4, <2>6
  <2>8. Scoped(funs', env.lexical, inserting', done, uses)
    BY <1>1, <1>2, <2>2, <2>4, <2>5, <2>6, <2>7, Resettle
  <2> QED
    BY <2>1, <2>8
<1>14. CASE EndForm
  <2>1. env' = env /\ stack' = <<>> /\ inserting' = 0 /\ funs' = funs /\ uses' = uses
    BY <1>14 DEF EndForm
  <2> QED
    BY <1>3, <1>4, <2>1
<1>15. ASSUME NEW b \in Builtin, CheckBuiltin(b)
       PROVE  Scoped(funs', env'.lexical, inserting', done', uses')
  <2>1. /\ phase = "check" /\ env' = afterSearch(env, b) /\ b \in Name
        /\ UNCHANGED <<inserting, funs, uses, done>>
    BY <1>15, BuiltinAssumption DEF CheckBuiltin
  <2>2. Len(env.lexical) = 1
    BY <1>1, <2>1, OneScope, IInvFacts DEF StackOK
  <2>3. env' = env
    BY <1>1, <2>1, <2>2, SearchInOne
  <2> QED
    BY <1>1, <2>1, <2>3
<1>16. CASE Quit \/ (\E defined \in SUBSET Name : RunForm(defined)) \/ UNCHANGED vars
  BY <1>1, <1>16 DEF Quit, RunForm, vars
<1> QED
  BY <1>5, <1>6, <1>7, <1>8, <1>9, <1>10, <1>11, <1>12, <1>13, <1>14, <1>15, <1>16
  DEF Next, Generate

-----------------------------------------------------------------------------

(***************************************************************************)
(* In a program whose forms are done no placeholder is left, so what an      *)
(* operand stands for is what it denotes.  Functions before own[1] have no    *)
(* open scope, nor have their parents.                                      *)
(***************************************************************************)
LEMMA StandsDenotes ==
  ASSUME NEW e, EnvInv(e), Len(e.lexical) >= 1, NEW fs \in Seq(Fun), ParentsFirst(fs),
         NEW own \in Owners(fs, e.lexical), NEW ins, NEW dn,
         Owned(fs, e.lexical, own, ins, dn),
         NEW names \in NameLists(fs), NEW us \in SUBSET Use,
         Resolved(fs, e.lexical, own, names, us),
         NEW g \in 0..Len(fs), own[1] # 0 => g < own[1],
         NEW v \in Value \cup {NULL}, NEW n \in Name,
         StandsFor(fs, e.lexical, own, names, g, v, n)
  PROVE  DenotesIn(fs, g, v) = BinderIn(fs, g, n)
<1> DEFINE L == Len(fs)
           d == Len(e.lexical)
           Below(h) == h \in 0..L /\ (own[1] # 0 => h < own[1])
           Right(h) == \A w \in Value \cup {NULL}, m \in Name :
                         StandsFor(fs, e.lexical, own, names, h, w, m) =>
                           DenotesIn(fs, h, w) = BinderIn(fs, h, m)
           P == {h \in Nat : Below(h) => Right(h)}
<1>1. /\ d \in Nat /\ L \in Nat
      /\ \A k \in 1..d : own[k] \in 0..L
      /\ \A k \in 2..d : own[k] \in 1..L
  BY OwnerFacts
<1>2. ASSUME NEW h \in Nat, Below(h), NEW k \in 1..d, own[k] = h
      PROVE  k = 1 /\ h = 0
  <2>1. k # 1 => own[1] < own[k] /\ k \in 2..d /\ 1 \in 1..d
    <3>1. k # 1 => 1 < k /\ 1 \in 1..d /\ k \in 2..d
      BY <1>1
    <3> QED
      BY <3>1 DEF Owned
  <2>2. own[1] \in 0..L
    BY <1>1
  <2>3. k # 1 => own[1] # 0
    <3>1. k # 1 => d > 1
      BY <1>1
    <3> QED
      BY <3>1 DEF Owned
  <2>4. k = 1
    BY <1>2, <2>1, <2>2, <2>3
  <2> QED
    BY <1>2, <2>2, <2>4
<1>3. ASSUME NEW h \in Nat, \A j \in 0..(h - 1) : j \in P, Below(h),
             NEW w \in Value \cup {NULL}, NEW m \in Name,
             StandsFor(fs, e.lexical, own, names, h, w, m)
      PROVE  DenotesIn(fs, h, w) = BinderIn(fs, h, m)
  <2>1. h \in 0..Len(fs)
    BY <1>3
  <2>2. CASE w = NULL /\ BinderIn(fs, h, m) = NULL
    BY <2>1, <2>2, DenotesStep
  <2>3. CASE w.kind = "arg" /\ h # 0 /\ Positions(fs, h, m) # {} /\ w = Parameter(fs, h, m)
    <3>1. h \in 1..Len(fs)
      BY <2>1, <2>3
    <3>2. w.fn = h
      BY <2>3, <3>1, ParameterFacts
    <3>3. DenotesIn(fs, h, w) = w
      BY <2>1, <2>3, <3>2, DenotesStep
    <3>4. BinderIn(fs, h, m) = w
      BY <2>1, <2>3, BinderStep
    <3> QED
      BY <3>3, <3>4
  <2>4. CASE w.kind = "alloca" /\ \E k \in 1..d : own[k] = h /\ e.lexical[k][m] = w
    <3>1. PICK k \in 1..d : own[k] = h /\ e.lexical[k][m] = w
      BY <2>4
    <3>2. e.lexical[1][m] = w
      BY <1>2, <1>3, <3>1
    <3>3. e.lexical[1][m] = NULL
      BY DEF Owned
    <3> QED
      BY <2>4, <3>2, <3>3 DEF NULL
  <2>5. CASE /\ w.kind = "load" /\ h # 0 /\ w.fn = h
             /\ w.idx \in 1..Len(fs[h].free) /\ names[h][w.idx] = m
    <3> DEFINE p == fs[h].parent
               x == fs[h].free[w.idx]
    <3>1. h \in 1..Len(fs) /\ fs[h] \in Fun
      BY <2>1, <2>5
    <3>2. /\ p \in 0..(h - 1) /\ p \in 0..L /\ x \in Value
      <4>1. p \in 0..(h - 1)
        BY <3>1 DEF ParentsFirst
      <4>2. fs[h].free \in Seq(Value)
        BY <3>1 DEF Fun
      <4>3. x \in Value
        BY <2>5, <4>2
      <4> QED
        BY <1>1, <2>1, <4>1, <4>3
    <3>3. /\ Positions(fs, h, m) = {}
          /\ StandsFor(fs, e.lexical, own, names, p, x, m)
      BY <2>5, <3>1 DEF Resolved
    <3>4. DenotesIn(fs, h, w) = DenotesIn(fs, p, x)
      BY <2>1, <2>5, DenotesStep
    <3>5. BinderIn(fs, h, m) = BinderIn(fs, p, m)
      BY <2>1, <2>5, <3>3, BinderStep
    <3> HIDE DEF x, p
    <3>6. Below(p) /\ p \in P
      <4>1. own[1] # 0 => own[1] \in Nat
        BY <1>1
      <4> QED
        BY <1>3, <3>2, <4>1
    <3>7. DenotesIn(fs, p, x) = BinderIn(fs, p, m)
      BY <3>2, <3>3, <3>6
    <3> QED
      BY <3>4, <3>5, <3>7
  <2> QED
    BY <1>3, <2>2, <2>3, <2>4, <2>5 DEF StandsFor
<1>4. Nat \subseteq P
  <2>1. \A h \in Nat : (\A j \in 0..(h - 1) : j \in P) => h \in P
    BY <1>3
  <2> HIDE DEF P
  <2> QED
    BY <2>1, NatSetInduction
<1>5. g \in P /\ Below(g)
  BY <1>1, <1>4
<1> QED
  BY <1>5

\* What a Scoped state means for the program generated so far.
LEMMA ScopedLexical ==
  ASSUME IInv, InsertOK, Scoped(funs, env.lexical, inserting, done, uses)
  PROVE  LexicalScope
<1>1. /\ EnvInv(env) /\ Len(env.lexical) >= 1 /\ funs \in Seq(Fun) /\ Len(funs) \in Nat
      /\ ParentsFirst(funs) /\ uses \in SUBSET Use /\ done \subseteq 1..Len(funs)
  BY IInvFacts DEF InsertOK, IInv, TypeOK
<1>2. PICK own \in Owners(funs, env.lexical), names \in NameLists(funs) :
        /\ Owned(funs, env.lexical, own, inserting, done)
        /\ Resolved(funs, env.lexical, own, names, uses)
  BY DEF Scoped
<1> SUFFICES ASSUME NEW u \in uses, u.fn \in done
             PROVE  Denotes(u.fn, u.val) = Binder(u.fn, u.name)
  BY DEF LexicalScope
<1>3. u.val \in Value \cup {NULL} /\ u.name \in Name
  BY <1>1 DEF Use
<1>4. u.fn \in 0..Len(funs) /\ StandsFor(funs, env.lexical, own, names, u.fn, u.val, u.name)
  BY <1>1, <1>2 DEF Resolved
<1>5. own[1] # 0 => u.fn < own[1]
  BY <1>2 DEF Owned
<1>6. DenotesIn(funs, u.fn, u.val) = BinderIn(funs, u.fn, u.name)
  BY <1>1, <1>2, <1>3, <1>4, <1>5, StandsDenotes
<1> QED
  BY <1>6, Unprimed

\* The invariant holds when the driver starts.
LEMMA InitScope == Init => InsertOK /\ ScopeInv
<1> SUFFICES ASSUME Init PROVE InsertOK /\ ScopeInv
  OBVIOUS
<1>1. InsertOK
  BY DEF Init, InsertOK, ParentsFirst
<1>2. EnvInv(env) /\ Len(env.lexical) = 1 /\ env.lexical[1] = EmptyBinding
  BY NewEnvInv DEF Init, NewEnv
<1> DEFINE own == [k \in 1..Len(env.lexical) |-> 0]
           names == [g \in 1..Len(funs) |-> <<>>]
<1>3. Len(funs) = 0 /\ own \in Owners(funs, env.lexical) /\ names \in NameLists(funs)
  BY DEF Init, Owners, NameLists
<1>4. Owned(funs, env.lexical, own, inserting, done)
  <2>1. \A k \in 1..Len(env.lexical) : k = 1 /\ own[k] = 0
    BY <1>2
  <2>2. own[1] = 0 /\ own[Len(env.lexical)] = 0 /\ inserting = 0
    BY <1>2 DEF Init
  <2> HIDE DEF own
  <2> QED
    BY <1>2, <2>1, <2>2, EmptyBindingFacts DEF Owned
<1>5. Resolved(funs, env.lexical, own, names, uses)
  BY DEF Init, Resolved
<1> QED
  BY <1>1, <1>3, <1>4, <1>5 DEF ScopeInv, Scoped

(***************************************************************************)
(* However forms, functions, definitions and Errors follow each other, the   *)
(* variable reads of finished code denote the parameter or the global that   *)
(* lexical scoping says, until an Error has left a scope behind.            *)
(***************************************************************************)
THEOREM LexicalUnlessLeft == Spec => []LexicalScopeUnlessLeft
<1>1. Init => IInv /\ InsertOK /\ ScopeInv
  BY InitInv, InitScope
<1>2. IInv /\ InsertOK /\ ScopeInv /\ [Next]_vars => (IInv /\ InsertOK /\ ScopeInv)'
  BY StepInv, InsertStep, ScopeStep
<1>3. IInv /\ InsertOK /\ ScopeInv => LexicalScopeUnlessLeft
  BY ScopedLexical DEF ScopeInv, LexicalScopeUnlessLeft
<1> QED
  BY <1>1, <1>2, <1>3, PTL DEF Spec

\* Each activation has its code in the function of the innermost one, from the
\* bottom up to it, that is no definition.
InnermostOK ==
  \A m \in 1..Len(stack) : \E k \in 1..m :
    /\ stack[k].kind # "def" /\ stack[k].fn = stack[m].fn
    /\ \A j \in (k + 1)..m : stack[j].kind = "def"

\* Entering a function or a definition keeps that.
LEMMA PushInnermost ==
  ASSUME IInv, InsertOK, InnermostOK, phase = "gen", NEW fr \in Frame,
         stack' = Append(stack, fr), fr.kind = "def" => fr.fn = inserting
  PROVE  InnermostOK'
<1> USE IInvFacts
<1> DEFINE d == Len(stack)
           Bottom(k, m) == /\ stack'[k].kind # "def" /\ stack'[k].fn = stack'[m].fn
                           /\ \A j \in (k + 1)..m : stack'[j].kind = "def"
<1>1. d \in Nat /\ d >= 1 /\ d \in 1..d /\ inserting = stack[d].fn
  BY DEF StackOK, InsertOK, Back
<1>2. /\ Len(stack') = d + 1 /\ stack'[d + 1] = fr
      /\ \A i \in 1..d : stack'[i] = stack[i]
  OBVIOUS
<1> HIDE DEF d
<1>3. ASSUME NEW m \in 1..d
      PROVE  \E k \in 1..m : Bottom(k, m)
  <2>1. PICK k \in 1..m : /\ stack[k].kind # "def" /\ stack[k].fn = stack[m].fn
                          /\ \A j \in (k + 1)..m : stack[j].kind = "def"
    BY DEF InnermostOK, d
  <2>2. k \in 1..d /\ \A j \in (k + 1)..m : j \in 1..d
    BY <1>1
  <2> QED
    BY <1>2, <2>1, <2>2
<1>4. \E k \in 1..(d + 1) : Bottom(k, d + 1)
  <2>1. CASE fr.kind # "def"
    <3>1. d + 1 \in 1..(d + 1) /\ \A j \in ((d + 1) + 1)..(d + 1) : FALSE
      BY <1>1
    <3>2. Bottom(d + 1, d + 1)
      BY <1>2, <2>1, <3>1
    <3> QED
      BY <3>1, <3>2
  <2>2. CASE fr.kind = "def"
    <3>1. PICK k \in 1..d : Bottom(k, d)
      BY <1>1, <1>3
    <3>2. k \in 1..(d + 1) /\ \A j \in (k + 1)..(d + 1) : j = d + 1 \/ j \in (k + 1)..d
      BY <1>1
    <3>3. \A j \in (k + 1)..(d + 1) : stack'[j].kind = "def"
      BY <1>2, <2>2, <3>1, <3>2
    <3>4. stack'[k].fn = stack'[d + 1].fn
      BY <1>1, <1>2, <2>2, <3>1
    <3> QED
      BY <3>1, <3>2, <3>3, <3>4
  <2> QED
    BY <2>1, <2>2
<1>5. \A m \in 1..(d + 1) : m = d + 1 \/ m \in 1..d
  BY <1>1
<1>6. \A m \in 1..(d + 1) : \E k \in 1..m : Bottom(k, m)
  BY <1>3, <1>4, <1>5
<1> QED
  BY <1>2, <1>6 DEF InnermostOK

\* So does leaving it.
LEMMA PopInnermost ==
  ASSUME IInv, InnermostOK, stack # <<>>, stack' = PopBack(stack)
  PROVE  InnermostOK'
<1> USE IInvFacts
<1> DEFINE d == Len(stack)
<1>1. /\ d \in Nat /\ d >= 1 /\ Len(stack') = d - 1
      /\ \A i \in 1..(d - 1) : stack'[i] = stack[i]
  BY PopFacts
<1> HIDE DEF d
<1>2. ASSUME NEW m \in 1..(d - 1)
      PROVE  \E k \in 1..m : /\ stack'[k].kind # "def" /\ stack'[k].fn = stack'[m].fn
                             /\ \A j \in (k + 1)..m : stack'[j].kind = "def"
  <2>1. m \in 1..d
    BY <1>1
  <2>2. PICK k \in 1..m : /\ stack[k].kind # "def" /\ stack[k].fn = stack[m].fn
                          /\ \A j \in (k + 1)..m : stack[j].kind = "def"
    BY <2>1 DEF InnermostOK, d
  <2>3. k \in 1..(d - 1) /\ \A j \in (k + 1)..m : j \in 1..(d - 1)
    BY <1>1
  <2> QED
    BY <1>1, <2>2, <2>3
<1> QED
  BY <1>1, <1>2 DEF InnermostOK

\* Every step does.
LEMMA InnermostStep ==
  ASSUME IInv, InsertOK, InnermostOK, [Next]_vars
  PROVE  InnermostOK'
<1> USE IInvFacts
<1>1. ASSUME NEW fs \in FormalLists, BeginFunction(fs) PROVE InnermostOK'
  <2> DEFINE fr == [kind |-> "fn", fn |-> Len(funs) + 1, prev |-> inserting, name |-> 0]
  <2>1. phase = "gen" /\ stack' = Append(stack, fr)
    BY <1>1 DEF BeginFunction
  <2>2. fr \in Frame /\ fr.kind = "fn"
    BY DEF Frame
  <2> HIDE DEF fr
  <2> QED
    BY <2>1, <2>2, PushInnermost
<1>2. ASSUME NEW n \in Name, BeginDefine(n) PROVE InnermostOK'
  <2> DEFINE fr == [kind |-> "def", fn |-> inserting, prev |-> inserting, name |-> n]
  <2>1. phase = "gen" /\ stack' = Append(stack, fr)
    BY <1>2 DEF BeginDefine
  <2>2. fr \in Frame /\ fr.fn = inserting
    BY NameAssumption DEF Frame
  <2> HIDE DEF fr
  <2> QED
    BY <2>1, <2>2, PushInnermost
<1>3. CASE EndFunction \/ EndDefine
  <2>1. stack # <<>> /\ stack' = PopBack(stack)
    BY <1>3 DEF EndFunction, EndDefine, StackOK
  <2> QED
    BY <2>1, PopInnermost
<1>4. CASE BeginForm
  <2> DEFINE fr == [kind |-> "top", fn |-> Len(funs) + 1, prev |-> 0, name |-> 0]
  <2>1. stack' = <<fr>> /\ fr.kind = "top"
    BY <1>4 DEF BeginForm
  <2> HIDE DEF fr
  <2>2. \A m \in 1..Len(stack') : m = 1 /\ stack'[1] = fr /\ 1 \in 1..m
                                  /\ \A j \in (1 + 1)..m : FALSE
    BY <2>1
  <2> QED
    BY <2>1, <2>2 DEF InnermostOK
<1>5. CASE \/ SyntaxError \/ MalformedDefine \/ EndForm
           \/ \E n \in Name : Redefinition(n)
           \/ \E fs \in FormalLists : BadFormals(fs)
  <2>1. stack' = <<>>
    BY <1>5 DEF SyntaxError, MalformedDefine, EndForm, Redefinition, BadFormals, Throw, Unwind
  <2> QED
    BY <2>1 DEF InnermostOK
<1>6. CASE \/ UNCHANGED vars \/ Quit
           \/ \E n \in Name : Reference(n)
           \/ \E b \in Builtin : CheckBuiltin(b)
           \/ \E defined \in SUBSET Name : RunForm(defined)
  <2>1. stack' = stack
    BY <1>6 DEF vars, Quit, Reference, CheckBuiltin, RunForm
  <2> QED
    BY <2>1 DEF InnermostOK
<1> QED
  BY <1>1, <1>2, <1>3, <1>4, <1>5, <1>6 DEF Next, Generate

\* That determines the insert point.
LEMMA InsertPoint ==
  ASSUME IInv, InsertOK, InnermostOK, phase = "gen"
  PROVE  inserting = InnermostFunction
<1> USE IInvFacts
<1> DEFINE d == Len(stack)
           Bottom(k) == stack[k].kind # "def" /\ \A j \in (k + 1)..d : stack[j].kind = "def"
           c == CHOOSE k \in 1..d : Bottom(k)
<1>1. d \in Nat /\ d \in 1..d /\ inserting = stack[d].fn
  BY DEF StackOK, InsertOK, Back
<1>2. PICK k \in 1..d : Bottom(k) /\ stack[k].fn = stack[d].fn
  BY <1>1 DEF InnermostOK
<1>3. c \in 1..d /\ Bottom(c)
  BY <1>2
<1>4. InnermostFunction = stack[c].fn
  BY DEF InnermostFunction
<1> HIDE DEF c, d
<1>5. k = c
  <2>1. k < c => c \in (k + 1)..d
    BY <1>1, <1>2, <1>3
  <2>2. c < k => k \in (c + 1)..d
    BY <1>1, <1>2, <1>3
  <2>3. ~(k < c) /\ ~(c < k)
    BY <1>2, <1>3, <2>1, <2>2
  <2> QED
    BY <1>1, <1>2, <1>3, <2>3
<1> QED
  BY <1>1, <1>2, <1>4, <1>5

\* The innermost scope binds arguments of the function that code goes to.
LEMMA OwnArguments ==
  ASSUME IInv, Scoped(funs, env.lexical, inserting, done, uses), NEW n \in Name,
         Back(env.lexical)[n].kind = "arg"
  PROVE  Back(env.lexical)[n].fn = inserting
<1> USE IInvFacts
<1> DEFINE lex == env.lexical
           d == Len(lex)
<1>1. PICK own \in Owners(funs, lex) : Owned(funs, lex, own, inserting, done)
  BY DEF Scoped
<1>2. d \in Nat /\ d >= 1 /\ Back(lex) = lex[d] /\ own[d] = inserting
  BY <1>1, EnvInvFacts DEF Owned, Back
<1>3. lex[1][n] = NULL /\ NULL.kind # "arg"
  BY <1>1 DEF Owned, NULL
<1>4. d \in 2..d
  BY <1>2, <1>3
<1>5. \/ lex[d][n] = Parameter(funs, own[d], n)
      \/ lex[d][n] = NULL \/ lex[d][n].kind = "alloca"
  BY <1>1, <1>4 DEF Owned
<1>6. lex[d][n] = Parameter(funs, own[d], n)
  BY <1>2, <1>3, <1>5
<1>7. Parameter(funs, own[d], n).fn = own[d]
  BY DEF Parameter, Arg
<1> QED
  BY <1>2, <1>6, <1>7

(***************************************************************************)
(* In the compiler there is one scope for each open function, code goes to   *)
(* the innermost of them, past any definition under way, and the arguments    *)
(* of the innermost scope are its own, whatever nesting was entered and left.*)
(***************************************************************************)
THEOREM CompilerScopes == ~Interactive /\ Spec => []ScopesMatchFunctions
<1> SUFFICES ASSUME ~Interactive PROVE Spec => []ScopesMatchFunctions
  OBVIOUS
<1>1. Spec => [](IInv /\ (phase # "exit" => ~ScopeLeft))
  BY CompilerCount
<1>2. Init => InsertOK /\ ScopeInv /\ InnermostOK
  BY InitScope DEF Init, InnermostOK
<1>3. IInv /\ InsertOK /\ ScopeInv /\ InnermostOK /\ [Next]_vars
        => InsertOK' /\ ScopeInv' /\ InnermostOK'
  BY InsertStep, ScopeStep, InnermostStep
<1>4. IInv /\ (phase # "exit" => ~ScopeLeft) /\ InsertOK /\ ScopeInv /\ InnermostOK
        => ScopesMatchFunctions
  <2> SUFFICES ASSUME IInv, phase # "exit" => ~ScopeLeft, InsertOK, ScopeInv, InnermostOK
               PROVE  ScopesMatchFunctions
    OBVIOUS
  <2>1. phase = "gen" => inserting = InnermostFunction
    BY InsertPoint
  <2>2. ASSUME phase = "gen", NEW n \in Name, Back(env.lexical)[n].kind = "arg"
        PROVE  Back(env.lexical)[n].fn = inserting
    <3>1. phase # "exit"
      BY <2>2
    <3> QED
      BY <2>2, <3>1, OwnArguments DEF ScopeInv
  <2> QED
    BY <2>1, <2>2 DEF ScopesMatchFunctions
<1> QED
  BY <1>1, <1>2, <1>3, <1>4, PTL DEF Spec

\* The compiler has finished nothing, or everything with no scope left open.
FinishedInv ==
  /\ phase \in {"idle", "gen"} => done = {}
  /\ phase = "exit" => done = {} \/ ~ScopeLeft

(***************************************************************************)
(* The compiler generates one program and stops at an Error, so that what it  *)
(* finishes is scoped lexically without exception.                          *)
(***************************************************************************)
THEOREM CompilerLexicalScope == ~Interactive /\ Spec => []LexicalScope
<1> SUFFICES ASSUME ~Interactive PROVE Spec => []LexicalScope
  OBVIOUS
<1>1. Spec => []ScopesMatchFunctions
  BY CompilerScopes
<1>2. Spec => []LexicalScopeUnlessLeft
  BY LexicalUnlessLeft
<1>3. Init => FinishedInv
  BY DEF Init, FinishedInv
<1>4. FinishedInv /\ ScopesMatchFunctions /\ [Next]_vars => FinishedInv'
  <2> SUFFICES ASSUME FinishedInv, ScopesMatchFunctions, [Next]_vars PROVE FinishedInv'
    OBVIOUS
  <2>1. CASE Generate
    <3>1. phase = "gen" /\ done' = done /\ phase' \in {"gen", "exit"}
      BY <2>1 DEF Generate, EndFunction, EndDefine, SyntaxError, MalformedDefine,
                  Reference, BeginDefine, Redefinition, BeginFunction, BadFormals, Throw, Unwind
    <3> QED
      BY <3>1 DEF FinishedInv
  <2>2. CASE BeginForm
    BY <2>2 DEF BeginForm, FinishedInv
  <2>3. CASE EndForm \/ \E b \in Builtin : CheckBuiltin(b)
    BY <2>3 DEF EndForm, CheckBuiltin, FinishedInv
  <2>4. ASSUME NEW defined \in SUBSET Name, RunForm(defined)
        PROVE  FinishedInv'
    <3>1. phase = "check" /\ phase' = "exit" /\ env' = env /\ stack' = stack
      BY <2>4 DEF RunForm
    <3>2. ~ScopeLeft'
      BY <3>1 DEF ScopesMatchFunctions, ScopeLeft, OpenFunctions
    <3> QED
      BY <3>1, <3>2 DEF FinishedInv
  <2>5. CASE UNCHANGED vars
    BY <2>5 DEF vars, FinishedInv, ScopeLeft, OpenFunctions
  <2>6. ~Quit
    BY DEF Quit
  <2> QED
    BY <2>1, <2>2, <2>3, <2>4, <2>5, <2>6 DEF Next
<1>5. FinishedInv /\ ScopesMatchFunctions /\ LexicalScopeUnlessLeft => LexicalScope
  <2> SUFFICES ASSUME FinishedInv, ScopesMatchFunctions, ScopeLeft PROVE LexicalScope
    BY DEF LexicalScopeUnlessLeft
  <2>1. phase = "exit"
    BY DEF ScopesMatchFunctions, ScopeLeft
  <2>2. done = {}
    BY <2>1 DEF FinishedInv
  <2> QED
    BY <2>2 DEF LexicalScope
<1> QED
  BY <1>1, <1>2, <1>3, <1>4, <1>5, PTL DEF Spec

-----------------------------------------------------------------------------

(***************************************************************************)
(* Why a builtin that code reads has a value: a name read as a global symbol  *)
(* is in env.global, so that CheckBuiltinProcs finds it after the form that   *)
(* reads it first, and what it declares is installed before the next prompt.  *)
(***************************************************************************)
BuiltinOK ==
  /\ \A u \in uses : u.val = NULL => u.name \in env.global
  /\ \A u \in uses : u.fn \in done /\ u.val = NULL /\ u.name \in Builtin =>
       u.name \in declared \/ (phase = "check" /\ u.name \in todo)
  /\ \A b \in declared : cell[b] # "unbound" \/ b \in installs
  /\ phase # "check" => installs = {}

BuiltinInv == ScopeLeft \/ BuiltinOK

\* Code goes to a function of the form under way, which is not done.
LEMMA InsertingNotDone ==
  ASSUME IInv, Scoped(funs, env.lexical, inserting, done, uses), inserting # 0
  PROVE  inserting \notin done
<1>1. EnvInv(env) /\ Len(env.lexical) >= 1 /\ Len(env.lexical) \in Nat /\ funs \in Seq(Fun)
  BY IInvFacts
<1>2. PICK own \in Owners(funs, env.lexical), names \in NameLists(funs) :
        /\ Owned(funs, env.lexical, own, inserting, done)
        /\ Resolved(funs, env.lexical, own, names, uses)
  BY DEF Scoped
<1> DEFINE d == Len(env.lexical)
<1>3. /\ \A k \in 1..d : own[k] \in Nat
      /\ own[d] = inserting /\ 1 \in 1..d /\ d \in 1..d
  <2>1. \A k \in 1..d : own[k] \in 0..Len(funs)
    BY <1>1, <1>2, OwnerFacts
  <2> QED
    BY <1>1, <1>2, <2>1 DEF Owned
<1>4. CASE d = 1
  <2>1. \A g \in done : g < inserting
    BY <1>2, <1>3, <1>4 DEF Owned
  <2> QED
    BY <1>3, <2>1
<1>5. CASE d # 1
  <2>1. 1 < d
    <3>1. d \in Nat /\ d >= 1
      BY <1>1
    <3> HIDE DEF d
    <3> QED
      BY <3>1, <1>5
  <2>2. own[1] < own[d] /\ own[1] # 0
    BY <1>2, <1>3, <2>1 DEF Owned
  <2>3. \A g \in done : g < own[1]
    BY <1>2, <2>2 DEF Owned
  <2> QED
    BY <1>3, <2>2, <2>3
<1> QED
  BY <1>4, <1>5

\* Every step preserves BuiltinInv.
LEMMA BuiltinStep ==
  ASSUME IInv, InsertOK, ScopeInv, BuiltinInv, [Next]_vars
  PROVE  BuiltinInv'
<1> SUFFICES ASSUME ~ScopeLeft' PROVE BuiltinOK'
  BY DEF BuiltinInv
<1>1. /\ IInv' /\ Scoped(funs, env.lexical, inserting, done, uses) /\ ~ScopeLeft
      /\ BuiltinOK /\ EnvInv(env)
  BY StepInv, ScopeLeftStays, IInvFacts DEF ScopeInv, BuiltinInv
<1>2. ASSUME NEW n \in Name, Reference(n), UNCHANGED driverVars
      PROVE  BuiltinOK'
  <2> DEFINE v == searchLocalBinding(env, n)
             use == [fn |-> inserting, name |-> n, val |-> v]
  <2>1. /\ phase = "gen" /\ phase' = "gen" /\ uses' = uses \cup {use} /\ done' = done
        /\ UNCHANGED <<declared, installs, cell>>
    BY <1>2 DEF Reference, driverVars
  <2>2. env.global \subseteq env'.global /\ (v = NULL => n \in env'.global)
    BY <1>2, SearchGrows, GlobalGrows DEF Reference, Grows
  <2>3. inserting # 0
    <3>1. inserting \in 1..Len(funs)
      BY <2>1, PopFacts, IInvFacts DEF InsertOK, StackOK, Back
    <3> QED
      BY <3>1
  <2>4. inserting \notin done
    BY <1>1, <2>3, InsertingNotDone
  <2>5. use.fn = inserting /\ use.name = n /\ use.val = v
    OBVIOUS
  <2> HIDE DEF use, v
  <2> QED
    BY <1>1, <2>1, <2>2, <2>4, <2>5 DEF BuiltinOK
<1>3. CASE EndFunction /\ UNCHANGED driverVars
  <2>1. /\ phase = "gen" /\ phase' = "gen" /\ done' = done /\ env'.global = env.global
        /\ UNCHANGED <<declared, installs, cell>>
        /\ uses' = {[u EXCEPT !.val = replaceUse(env, Top.fn, @)] : u \in uses}
    BY <1>1, <1>3, GlobalKept DEF EndFunction, driverVars, replaceAllUsesWith
  <2>2. ASSUME NEW w \in uses', w.val = NULL
        PROVE  \E u \in uses : u.val = NULL /\ u.name = w.name /\ u.fn = w.fn
    <3>1. PICK u \in uses : w = [u EXCEPT !.val = replaceUse(env, Top.fn, @)]
      BY <2>1
    <3>2. u \in Use
      BY DEF IInv, TypeOK
    <3>3. w.fn = u.fn /\ w.name = u.name /\ w.val = replaceUse(env, Top.fn, u.val)
          /\ u.val \in Value \cup {NULL}
      BY <3>1, <3>2 DEF Use
    <3>4. Top.fn \in Nat
      <4>1. stack # <<>> /\ stack \in Seq(Frame)
        BY <2>1, IInvFacts DEF StackOK
      <4> QED
        BY <4>1, PopFacts DEF Top, Frame
    <3>5. u.val \in Value => replaceUse(env, Top.fn, u.val) \in Value
      BY <1>1, <3>3, <3>4, ReplaceFacts, IInvFacts
    <3>6. u.val = NULL
      BY <2>2, <3>3, <3>5, NullFacts
    <3> QED
      BY <3>3, <3>6
  <2> QED
    BY <1>1, <2>1, <2>2 DEF BuiltinOK
<1>4. ASSUME env.global \subseteq env'.global, uses' = uses, done' = done,
             UNCHANGED <<declared, installs, cell>>, phase # "check", phase' # "check"
      PROVE  BuiltinOK'
  BY <1>1, <1>4 DEF BuiltinOK
<1>5. CASE /\ UNCHANGED driverVars
           /\ \/ EndDefine \/ SyntaxError \/ MalformedDefine
              \/ \E n \in Name : BeginDefine(n) \/ Redefinition(n)
              \/ \E fs \in FormalLists : BeginFunction(fs) \/ BadFormals(fs)
  <2>1. env.global \subseteq env'.global
    <3>1. ASSUME NEW n \in Name, BeginDefine(n) \/ Redefinition(n)
          PROVE  env.global \subseteq env'.global
      BY <3>1, SearchGrows, GlobalGrows DEF BeginDefine, Redefinition, Grows
    <3>2. ASSUME NEW fs \in FormalLists, BeginFunction(fs) \/ BadFormals(fs)
          PROVE  env.global \subseteq env'.global
      BY <1>1, <3>2, GlobalKept DEF BeginFunction, BadFormals
    <3> QED
      BY <1>5, <3>1, <3>2 DEF EndDefine, SyntaxError, MalformedDefine
  <2>2. uses' = uses /\ done' = done /\ phase = "gen" /\ phase' # "check"
    BY <1>5 DEF EndDefine, SyntaxError, MalformedDefine, BeginDefine, Redefinition,
                BeginFunction, BadFormals, Throw, Unwind
  <2> QED
    BY <1>4, <1>5, <2>1, <2>2 DEF driverVars
<1>6. CASE BeginForm \/ Quit
  BY <1>4, <1>6 DEF BeginForm, Quit
<1>7. CASE EndForm
  BY <1>1, <1>7 DEF EndForm, BuiltinOK
<1>8. ASSUME NEW b \in Builtin, CheckBuiltin(b)
      PROVE  BuiltinOK'
  <2>1. /\ phase = "check" /\ b \in Name /\ b \in todo
        /\ env' = afterSearch(env, b) /\ phase' = "check" /\ todo' = todo \ {b}
        /\ UNCHANGED <<uses, done, cell>>
    BY <1>8, BuiltinAssumption DEF CheckBuiltin
  <2>2. Len(env.lexical) = 1
    BY <1>1, <2>1, OneScope, IInvFacts DEF StackOK
  <2>3. env' = env /\ searchLocalBinding(env, b) = NULL
    BY <1>1, <2>1, <2>2, SearchInOne
  <2>4. /\ declared' = IF b \in env.global /\ b \notin declared THEN declared \cup {b}
                       ELSE declared
        /\ installs' = IF b \in env.global /\ b \notin declared THEN installs \cup {b}
                       ELSE installs
    BY <1>8, <2>3 DEF CheckBuiltin
  <2> QED
    BY <1>1, <2>1, <2>3, <2>4 DEF BuiltinOK
<1>9. ASSUME NEW defined \in SUBSET Name, RunForm(defined)
      PROVE  BuiltinOK'
  <2>1. /\ phase = "check" /\ todo = {} /\ phase' # "check" /\ installs' = {}
        /\ UNCHANGED <<env, uses, done, declared>>
    BY <1>9 DEF RunForm
  <2>2. \A n \in Name : cell'[n] = IF n \in defined THEN "user"
                                   ELSE IF n \in installs THEN "builtin" ELSE cell[n]
    BY <1>9 DEF RunForm
  <2>3. declared \subseteq Name
    BY BuiltinAssumption DEF IInv, TypeOK
  <2>4. \A b \in declared : cell'[b] # "unbound"
    BY <1>1, <2>2, <2>3 DEF BuiltinOK
  <2> QED
    BY <1>1, <2>1, <2>4 DEF BuiltinOK
<1>10. CASE UNCHANGED vars
  BY <1>1, <1>10 DEF vars, BuiltinOK
<1> QED
  BY <1>2, <1>3, <1>5, <1>6, <1>7, <1>8, <1>9, <1>10 DEF Next, Generate, driverVars

(***************************************************************************)
(* Whenever the prompt is back, every builtin that finished code reads is     *)
(* bound to something, unless an Error has left a scope behind.              *)
(***************************************************************************)
THEOREM BuiltinsReady == Spec => []BuiltinReady
<1> DEFINE Inv == IInv /\ InsertOK /\ ScopeInv /\ BuiltinInv
<1>1. Init => Inv
  BY InitInv, InitScope DEF Init, BuiltinInv, BuiltinOK
<1>2. Inv /\ [Next]_vars => Inv'
  BY StepInv, InsertStep, ScopeStep, BuiltinStep
<1>3. Inv => BuiltinReady
  BY DEF BuiltinInv, BuiltinOK, BuiltinReady
<1> QED
  BY <1>1, <1>2, <1>3, PTL DEF Spec
=============================================================================
