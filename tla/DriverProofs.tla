---------------------------- MODULE DriverProofs ----------------------------
(***************************************************************************)
(* The safety properties of Driver that hold for any names, any bounds and   *)
(* both drivers.  First, that every method of ExecutionEnv preserves EnvInv,   *)
(* and facts about the operators that createFunction is made of: the           *)
(* numbering of the freelist slots, the freelist itself, the replacement of    *)
(* operands and the binding of the parameters.                              *)
(***************************************************************************)
EXTENDS Driver, Recursion, SequenceTheorems, FiniteSetTheorems

\* NULL is no value and no placeholder.
LEMMA NullFacts == NULL.kind # "alloca" /\ NULL \notin Value
  BY DEF NULL, Value

\* A fresh scope binds no name.
LEMMA EmptyBindingFacts ==
  EmptyBinding \in Binding /\ \A n \in Name : EmptyBinding[n] = NULL
  BY DEF EmptyBinding, Binding

\* The parts of the invariant, for a given scope and name.
LEMMA EnvInvFacts ==
  ASSUME NEW e, EnvInv(e)
  PROVE  /\ e \in Env
         /\ e.lexical \in Seq(Binding) /\ e.refs \in Seq(Binding)
         /\ e.nalloca \in Nat
         /\ Len(e.lexical) \in Nat /\ Len(e.refs) = Len(e.lexical)
         /\ \A k \in 1..Len(e.lexical) :
              /\ e.lexical[k] \in Binding /\ e.refs[k] \in Binding
              /\ \A n \in Name :
                   /\ e.lexical[k][n] \in Value \cup {NULL}
                   /\ e.refs[k][n] \in Value \cup {NULL}
                   /\ e.lexical[k][n].kind = "alloca" <=> e.refs[k][n] # NULL
                   /\ e.refs[k][n] # NULL =>
                        k > 1 /\ e.refs[k][n] = e.lexical[k - 1][n]
<1>1. /\ e \in Env
      /\ e.lexical \in Seq(Binding) /\ e.refs \in Seq(Binding)
      /\ e.nalloca \in Nat
      /\ Len(e.lexical) \in Nat /\ Len(e.refs) = Len(e.lexical)
  BY DEF EnvInv, Env, WellChained
<1>2. \A k \in 1..Len(e.lexical) : e.lexical[k] \in Binding /\ e.refs[k] \in Binding
  BY <1>1
<1>3. \A b \in Binding, n \in Name : b[n] \in Value \cup {NULL}
  BY DEF Binding
<1> QED
  BY <1>1, <1>2, <1>3 DEF EnvInv, WellChained

\* The environment of a fresh ExecutionEnv object satisfies the invariant.
LEMMA NewEnvInv == EnvInv(NewEnv) /\ Len(NewEnv.lexical) = 1
<1>1. NewEnv \in Env /\ Len(NewEnv.lexical) = 1 /\ Len(NewEnv.refs) = 1
  BY EmptyBindingFacts DEF NewEnv, Env
<1>2. \A k \in 1..1, n \in Name : /\ NewEnv.lexical[k][n] = NULL
                                  /\ NewEnv.refs[k][n] = NULL
  BY DEF NewEnv, EmptyBinding
<1> QED
  BY <1>1, <1>2, NullFacts
     DEF EnvInv, WellChained, DistinctPlaceholders, OldPlaceholders

\* addGlobalBinding touches no scope.
LEMMA AddGlobalInv ==
  ASSUME NEW e, EnvInv(e), NEW n \in Name
  PROVE  /\ EnvInv(addGlobalBinding(e, n))
         /\ addGlobalBinding(e, n).lexical = e.lexical
<1> DEFINE g == addGlobalBinding(e, n)
<1>1. g \in Env /\ g.lexical = e.lexical /\ g.refs = e.refs /\ g.nalloca = e.nalloca
  BY DEF addGlobalBinding, EnvInv, Env
<1> HIDE DEF g
<1>2. EnvInv(g)
  BY <1>1 DEF EnvInv, WellChained, DistinctPlaceholders, OldPlaceholders
<1> QED
  BY <1>1, <1>2 DEF g

(***************************************************************************)
(* An environment that differs from one satisfying the invariant only above  *)
(* depth d, where it binds nothing, satisfies it too.                       *)
(***************************************************************************)
LEMMA SamePrefix ==
  ASSUME NEW e, EnvInv(e), NEW g \in Env, NEW d \in Nat, NEW c \in Nat,
         d <= Len(e.lexical), g.nalloca = e.nalloca,
         Len(g.lexical) = c, Len(g.refs) = c, d <= c,
         \A k \in 1..d : g.lexical[k] = e.lexical[k] /\ g.refs[k] = e.refs[k],
         \A k \in (d + 1)..c, n \in Name :
           g.lexical[k][n] = NULL /\ g.refs[k][n] = NULL
  PROVE  EnvInv(g)
<1>1. WellChained(g)
  <2> SUFFICES ASSUME NEW k \in 1..c, NEW n \in Name
               PROVE  /\ g.lexical[k][n].kind = "alloca" <=> g.refs[k][n] # NULL
                      /\ g.refs[k][n] # NULL =>
                           k > 1 /\ g.refs[k][n] = g.lexical[k - 1][n]
    BY DEF WellChained
  <2>1. CASE k \in 1..d
    <3>1. g.lexical[k] = e.lexical[k] /\ g.refs[k] = e.refs[k]
      BY <2>1
    <3>2. /\ e.lexical[k][n].kind = "alloca" <=> e.refs[k][n] # NULL
          /\ e.refs[k][n] # NULL => k > 1 /\ e.refs[k][n] = e.lexical[k - 1][n]
      BY <2>1, EnvInvFacts
    <3>3. k > 1 => g.lexical[k - 1] = e.lexical[k - 1]
      BY <2>1
    <3> QED
      BY <3>1, <3>2, <3>3, Zenon
  <2>2. CASE k \in (d + 1)..c
    BY <2>2, NullFacts
  <2> QED
    BY <2>1, <2>2
<1>2. \A k \in 1..c, n \in Name :
        g.lexical[k][n].kind = "alloca" =>
          k \in 1..Len(e.lexical) /\ g.lexical[k][n] = e.lexical[k][n]
  <2> SUFFICES ASSUME NEW k \in 1..c, NEW n \in Name,
                      g.lexical[k][n].kind = "alloca"
               PROVE  k \in 1..Len(e.lexical) /\ g.lexical[k][n] = e.lexical[k][n]
    OBVIOUS
  <2>1. k \in 1..d
    BY NullFacts
  <2> QED
    BY <2>1, EnvInvFacts
<1>3. DistinctPlaceholders(g)
  <2> SUFFICES ASSUME NEW j \in 1..c, NEW k \in 1..c, NEW m \in Name, NEW n \in Name,
                      g.lexical[j][m].kind = "alloca",
                      g.lexical[j][m] = g.lexical[k][n]
               PROVE  j = k /\ m = n
    BY DEF DistinctPlaceholders
  <2>1. /\ j \in 1..Len(e.lexical) /\ g.lexical[j][m] = e.lexical[j][m]
        /\ k \in 1..Len(e.lexical) /\ g.lexical[k][n] = e.lexical[k][n]
    BY <1>2
  <2>2. /\ e.lexical[j][m].kind = "alloca"
        /\ e.lexical[j][m] = e.lexical[k][n]
    BY <2>1
  <2>3. DistinctPlaceholders(e)
    BY DEF EnvInv
  <2> QED
    BY <2>1, <2>2, <2>3, Zenon DEF DistinctPlaceholders
<1>4. OldPlaceholders(g)
  BY <1>2 DEF OldPlaceholders, EnvInv
<1> QED
  BY <1>1, <1>3, <1>4 DEF EnvInv

\* newScope opens a scope that takes nothing from the others.
LEMMA NewScopeInv ==
  ASSUME NEW e, EnvInv(e)
  PROVE  /\ EnvInv(newScope(e))
         /\ Len(newScope(e).lexical) = Len(e.lexical) + 1
         /\ \A k \in 1..Len(e.lexical) : newScope(e).lexical[k] = e.lexical[k]
         /\ \A n \in Name : newScope(e).lexical[Len(e.lexical) + 1][n] = NULL
<1> DEFINE g == newScope(e)
           d == Len(e.lexical)
           lex == Append(e.lexical, EmptyBinding)
           ref == Append(e.refs, EmptyBinding)
<1>1. e \in Env /\ d \in Nat /\ Len(e.refs) = d /\ e.nalloca \in Nat
  BY EnvInvFacts
<1>2. /\ lex \in Seq(Binding) /\ ref \in Seq(Binding)
      /\ Len(lex) = d + 1 /\ Len(ref) = d + 1
      /\ \A k \in 1..d : lex[k] = e.lexical[k] /\ ref[k] = e.refs[k]
      /\ lex[d + 1] = EmptyBinding /\ ref[d + 1] = EmptyBinding
  BY <1>1, EmptyBindingFacts, EnvInvFacts
<1>3. g = withScopes(e, lex, ref, e.nalloca)
  BY DEF newScope
<1> HIDE DEF g, d, lex, ref
<1>4. g \in Env /\ g.lexical = lex /\ g.refs = ref /\ g.nalloca = e.nalloca
  BY <1>1, <1>2, <1>3 DEF Env, withScopes
<1>5. \A k \in (d + 1)..(d + 1) : k = d + 1
  BY <1>1
<1>6. \A k \in (d + 1)..(d + 1), n \in Name :
        g.lexical[k][n] = NULL /\ g.refs[k][n] = NULL
  BY <1>2, <1>4, <1>5, EmptyBindingFacts
<1>7. EnvInv(g)
  <2>1. /\ d + 1 \in Nat /\ d <= Len(e.lexical) /\ d <= d + 1
        /\ Len(g.lexical) = d + 1 /\ Len(g.refs) = d + 1
    BY <1>1, <1>2, <1>4 DEF d
  <2>2. \A k \in 1..d : g.lexical[k] = e.lexical[k] /\ g.refs[k] = e.refs[k]
    BY <1>2, <1>4
  <2> QED
    BY <1>1, <1>4, <1>6, <2>1, <2>2, SamePrefix
<1> QED
  BY <1>1, <1>2, <1>4, <1>7, EmptyBindingFacts DEF g, d

\* exitLastScope closes the innermost scope; the others never refer to it.
LEMMA ExitScopeInv ==
  ASSUME NEW e, EnvInv(e), Len(e.lexical) >= 1
  PROVE  /\ EnvInv(exitLastScope(e))
         /\ Len(exitLastScope(e).lexical) = Len(e.lexical) - 1
         /\ \A k \in 1..(Len(e.lexical) - 1) :
              exitLastScope(e).lexical[k] = e.lexical[k]
<1> DEFINE g == exitLastScope(e)
           d == Len(e.lexical) - 1
           lex == SubSeq(e.lexical, 1, d)
           ref == SubSeq(e.refs, 1, d)
<1>1. e \in Env /\ d \in Nat /\ Len(e.refs) = d + 1 /\ e.nalloca \in Nat
  BY EnvInvFacts
<1>2. \A k \in 1..d : e.lexical[k] \in Binding /\ e.refs[k] \in Binding
  BY <1>1, EnvInvFacts
<1>3. /\ lex \in Seq(Binding) /\ Len(lex) = d
      /\ \A k \in 1..d : lex[k] = e.lexical[k]
  BY <1>1, <1>2, SubSeqProperties
<1>4. /\ ref \in Seq(Binding) /\ Len(ref) = d
      /\ \A k \in 1..d : ref[k] = e.refs[k]
  BY <1>1, <1>2, SubSeqProperties
<1>5. g = withScopes(e, lex, ref, e.nalloca)
  BY <1>1 DEF exitLastScope, PopBack
<1> HIDE DEF g, d, lex, ref
<1>6. g \in Env /\ g.lexical = lex /\ g.refs = ref /\ g.nalloca = e.nalloca
  BY <1>1, <1>3, <1>4, <1>5 DEF Env, withScopes
<1>7. d <= Len(e.lexical)
  BY EnvInvFacts DEF d
<1>8. EnvInv(g)
  BY <1>1, <1>3, <1>4, <1>6, <1>7, SamePrefix
<1> QED
  BY <1>3, <1>6, <1>8 DEF g, d

\* addBinding of values that are no placeholders, as loadFuncArgs does it.
LEMMA AddBindingsInv ==
  ASSUME NEW e, EnvInv(e), Len(e.lexical) >= 1, NEW b \in Binding,
         \A n \in Name : b[n].kind # "alloca"
  PROVE  /\ EnvInv(addBindings(e, b))
         /\ Len(addBindings(e, b).lexical) = Len(e.lexical)
         /\ \A k \in 1..Len(e.lexical), n \in Name :
              e.lexical[k][n] # NULL => addBindings(e, b).lexical[k][n] = e.lexical[k][n]
<1> DEFINE g == addBindings(e, b)
           d == Len(e.lexical)
           new == [n \in Name |-> IF e.lexical[d][n] = NULL THEN b[n]
                                                            ELSE e.lexical[d][n]]
           lex == [e.lexical EXCEPT ![d] = new]
<1>1. e \in Env /\ d \in Nat /\ d \in 1..d /\ Len(e.refs) = d /\ e.nalloca \in Nat
      /\ e.lexical \in Seq(Binding) /\ e.refs \in Seq(Binding)
  BY EnvInvFacts
<1>2. new \in Binding
  BY <1>1, EnvInvFacts DEF Binding
<1>3. g = withScopes(e, lex, e.refs, e.nalloca)
  BY DEF addBindings
<1> HIDE DEF new
<1>4. /\ lex \in Seq(Binding) /\ Len(lex) = d
      /\ \A k \in 1..d : lex[k] = IF k = d THEN new ELSE e.lexical[k]
  BY <1>1, <1>2
<1> HIDE DEF g, lex
<1>5. g \in Env /\ g.lexical = lex /\ g.refs = e.refs /\ g.nalloca = e.nalloca
  BY <1>1, <1>3, <1>4 DEF Env, withScopes
<1>6. \A k \in 1..d, n \in Name :
        /\ e.lexical[k][n] # NULL => lex[k][n] = e.lexical[k][n]
        /\ e.lexical[k][n] = NULL => lex[k][n].kind # "alloca"
  <2> SUFFICES ASSUME NEW k \in 1..d, NEW n \in Name
               PROVE  /\ e.lexical[k][n] # NULL => lex[k][n] = e.lexical[k][n]
                      /\ e.lexical[k][n] = NULL => lex[k][n].kind # "alloca"
    OBVIOUS
  <2>1. CASE k = d
    BY <2>1, <1>4 DEF new
  <2>2. CASE k # d
    BY <2>2, <1>4, NullFacts
  <2> QED
    BY <2>1, <2>2
<1>7. \A k \in 1..d, n \in Name :
        lex[k][n].kind = "alloca" <=> e.lexical[k][n].kind = "alloca"
  BY <1>6, NullFacts
<1>8. WellChained(g)
  <2> SUFFICES ASSUME NEW k \in 1..d, NEW n \in Name
               PROVE  /\ lex[k][n].kind = "alloca" <=> e.refs[k][n] # NULL
                      /\ e.refs[k][n] # NULL =>
                           k > 1 /\ e.refs[k][n] = lex[k - 1][n]
    BY <1>1, <1>4, <1>5 DEF WellChained
  <2>1. /\ e.lexical[k][n].kind = "alloca" <=> e.refs[k][n] # NULL
        /\ e.refs[k][n] # NULL => k > 1 /\ e.refs[k][n] = e.lexical[k - 1][n]
    BY EnvInvFacts
  <2>2. k > 1 => k - 1 \in 1..d
    BY <1>1
  <2> QED
    BY <2>1, <2>2, <1>6, <1>7, Zenon
<1>9. DistinctPlaceholders(g) /\ OldPlaceholders(g)
  <2>1. \A k \in 1..d, n \in Name :
          lex[k][n].kind = "alloca" => lex[k][n] = e.lexical[k][n]
    BY <1>6, NullFacts
  <2>2. DistinctPlaceholders(g)
    BY <2>1, <1>4, <1>5, <1>7 DEF DistinctPlaceholders, EnvInv
  <2>3. OldPlaceholders(g)
    BY <2>1, <1>4, <1>5, <1>7 DEF OldPlaceholders, EnvInv
  <2> QED
    BY <2>2, <2>3
<1>10. EnvInv(g)
  BY <1>5, <1>8, <1>9 DEF EnvInv
<1> QED
  BY <1>4, <1>5, <1>6, <1>10 DEF g

(***************************************************************************)
(* searchLocalBinding finds the innermost scope that binds the name.        *)
(***************************************************************************)
LEMMA ScopeOfFacts ==
  ASSUME NEW e, EnvInv(e), NEW n \in Name, BoundLocally(e, n)
  PROVE  /\ ScopeOf(e, n) \in 1..Len(e.lexical)
         /\ e.lexical[ScopeOf(e, n)][n] # NULL
         /\ \A j \in (ScopeOf(e, n) + 1)..Len(e.lexical) : e.lexical[j][n] = NULL
<1> DEFINE d == Len(e.lexical)
           Bound == {k \in 1..d : e.lexical[k][n] # NULL}
<1>1. d \in Nat
  BY EnvInvFacts
<1>2. Bound # {} /\ Bound \subseteq 1..d
  BY DEF BoundLocally
<1>3. \E k \in Bound : \A j \in Bound : j <= k
  <2> DEFINE M == {d - k : k \in Bound}
  <2>0. ASSUME NEW k \in 1..d PROVE d - k \in Nat
    BY <1>1
  <2>1. M \in SUBSET Nat /\ M # {}
    BY <1>2, <2>0
  <2>2. PICK m \in M : \A j \in M : m <= j
    BY <2>1, LeastNatural
  <2>3. PICK k \in Bound : m = d - k
    OBVIOUS
  <2>4. ASSUME NEW j \in Bound PROVE j <= k
    <3>1. d - j \in M
      OBVIOUS
    <3>2. d - k <= d - j
      BY <2>2, <2>3, <3>1
    <3> QED
      BY <1>1, <1>2, <3>2
  <2> QED
    BY <2>4
<1>4. PICK k \in Bound : \A j \in Bound : j <= k
  BY <1>3
<1>5. \A j \in (k + 1)..d : e.lexical[j][n] = NULL
  BY <1>1, <1>4
<1> QED
  BY <1>4, <1>5 DEF ScopeOf

\* What makeref leaves in each scope and its refs, entry by entry.
LEMMA MakerefFacts ==
  ASSUME NEW e, EnvInv(e), NEW n \in Name, BoundLocally(e, n),
         NEW k, k = ScopeOf(e, n), NEW g, g = makeref(e, n, k)
  PROVE  /\ g \in Env
         /\ Len(g.lexical) = Len(e.lexical) /\ Len(g.refs) = Len(e.lexical)
         /\ g.nalloca = e.nalloca + (Len(e.lexical) - k)
         /\ \A i \in 1..Len(e.lexical), m \in Name :
              /\ g.lexical[i][m] = IF i > k /\ m = n THEN PlaceholderIn(e, n, k, i)
                                                     ELSE e.lexical[i][m]
              /\ g.refs[i][m] = IF i > k /\ m = n THEN PlaceholderIn(e, n, k, i - 1)
                                                  ELSE e.refs[i][m]
<1> DEFINE d == Len(e.lexical)
           add(s, i, v) == IF i <= k THEN s[i] ELSE insert(s[i], n, v)
           lex == [i \in 1..Len(e.lexical) |->
                     add(e.lexical, i, PlaceholderIn(e, n, k, i))]
           ref == [i \in 1..Len(e.refs) |->
                     add(e.refs, i, PlaceholderIn(e, n, k, i - 1))]
<1>1. /\ e \in Env /\ d \in Nat /\ Len(e.refs) = d /\ e.nalloca \in Nat
      /\ k \in 1..d /\ e.lexical[k][n] # NULL
      /\ \A j \in (k + 1)..d : e.lexical[j][n] = NULL
  BY EnvInvFacts, ScopeOfFacts
<1>2. \A i \in 1..d : i > k => e.lexical[i][n] = NULL /\ e.refs[i][n] = NULL
  <2> SUFFICES ASSUME NEW i \in 1..d, i > k
               PROVE  e.lexical[i][n] = NULL /\ e.refs[i][n] = NULL
    OBVIOUS
  <2>1. e.lexical[i][n] = NULL
    BY <1>1
  <2>2. e.lexical[i][n].kind = "alloca" <=> e.refs[i][n] # NULL
    BY EnvInvFacts
  <2> QED
    BY <2>1, <2>2, NullFacts
<1>3. \A i \in k..d : PlaceholderIn(e, n, k, i) \in Value
  <2> SUFFICES ASSUME NEW i \in k..d PROVE PlaceholderIn(e, n, k, i) \in Value
    OBVIOUS
  <2>1. CASE i = k
    <3>1. e.lexical[k][n] \in Value
      BY <1>1, EnvInvFacts
    <3> QED
      BY <2>1, <3>1 DEF PlaceholderIn
  <2>2. CASE i # k
    <3>1. e.nalloca + (i - k - 1) \in Nat
      BY <1>1, <2>2
    <3> QED
      BY <2>2, <3>1 DEF PlaceholderIn, Alloca, Value
  <2> QED
    BY <2>1, <2>2
<1>4. ASSUME NEW b \in Binding, NEW v \in Value, b[n] = NULL
      PROVE  /\ insert(b, n, v) \in Binding
             /\ \A m \in Name : insert(b, n, v)[m] = IF m = n THEN v ELSE b[m]
  BY <1>4 DEF insert, Binding
<1>5. \A i \in 1..d :
        /\ lex[i] \in Binding
        /\ \A m \in Name : lex[i][m] = IF i > k /\ m = n THEN PlaceholderIn(e, n, k, i)
                                                         ELSE e.lexical[i][m]
  <2> SUFFICES ASSUME NEW i \in 1..d
               PROVE  /\ lex[i] \in Binding
                      /\ \A m \in Name :
                           lex[i][m] = IF i > k /\ m = n THEN PlaceholderIn(e, n, k, i)
                                                         ELSE e.lexical[i][m]
    OBVIOUS
  <2>0. e.lexical[i] \in Binding
    BY EnvInvFacts
  <2>1. CASE i <= k
    BY <1>1, <2>0, <2>1
  <2>2. CASE i > k
    <3>1. lex[i] = insert(e.lexical[i], n, PlaceholderIn(e, n, k, i))
      BY <1>1, <2>2
    <3>2. e.lexical[i][n] = NULL /\ PlaceholderIn(e, n, k, i) \in Value
      BY <1>1, <1>2, <1>3, <2>2
    <3> QED
      BY <1>4, <2>0, <2>2, <3>1, <3>2
  <2> QED
    BY <1>1, <2>1, <2>2
<1>6. \A i \in 1..d :
        /\ ref[i] \in Binding
        /\ \A m \in Name : ref[i][m] = IF i > k /\ m = n
                                        THEN PlaceholderIn(e, n, k, i - 1)
                                        ELSE e.refs[i][m]
  <2> SUFFICES ASSUME NEW i \in 1..d
               PROVE  /\ ref[i] \in Binding
                      /\ \A m \in Name :
                           ref[i][m] = IF i > k /\ m = n
                                         THEN PlaceholderIn(e, n, k, i - 1)
                                         ELSE e.refs[i][m]
    OBVIOUS
  <2>0. e.refs[i] \in Binding
    BY EnvInvFacts
  <2>1. CASE i <= k
    BY <1>1, <2>0, <2>1
  <2>2. CASE i > k
    <3>1. ref[i] = insert(e.refs[i], n, PlaceholderIn(e, n, k, i - 1))
      BY <1>1, <2>2
    <3>2. e.refs[i][n] = NULL /\ PlaceholderIn(e, n, k, i - 1) \in Value
      BY <1>1, <1>2, <1>3, <2>2
    <3> QED
      BY <1>4, <2>0, <2>2, <3>1, <3>2
  <2> QED
    BY <1>1, <2>1, <2>2
<1>7. g = withScopes(e, lex, ref, e.nalloca + (d - k))
  BY DEF makeref
<1>8. lex \in Seq(Binding) /\ ref \in Seq(Binding) /\ Len(lex) = d /\ Len(ref) = d
  <2>1. DOMAIN lex = 1..d /\ DOMAIN ref = 1..d
    BY <1>1
  <2>2. lex \in [1..d -> Binding] /\ ref \in [1..d -> Binding]
    BY <1>1, <1>5, <1>6, <2>1
  <2> HIDE DEF lex, ref
  <2>3. d \in Nat
    BY <1>1
  <2> HIDE DEF d
  <2> QED
    BY <2>2, <2>3, FunctionIsSeq
<1>9. e.nalloca + (d - k) \in Nat
  BY <1>1
<1> HIDE DEF lex, ref, d
<1>10. /\ g \in Env /\ g.lexical = lex /\ g.refs = ref
       /\ g.nalloca = e.nalloca + (d - k)
  BY <1>1, <1>7, <1>8, <1>9 DEF Env, withScopes
<1> QED
  BY <1>5, <1>6, <1>8, <1>10 DEF d

(***************************************************************************)
(* searchLocalBinding preserves the invariant and every binding there was,   *)
(* and answers with what the innermost scope then binds the name to.        *)
(***************************************************************************)
LEMMA SearchInv ==
  ASSUME NEW e, EnvInv(e), NEW n \in Name
  PROVE  /\ EnvInv(afterSearch(e, n))
         /\ Len(afterSearch(e, n).lexical) = Len(e.lexical)
         /\ \A i \in 1..Len(e.lexical), m \in Name :
              e.lexical[i][m] # NULL => afterSearch(e, n).lexical[i][m] = e.lexical[i][m]
         /\ searchLocalBinding(e, n) # NULL =>
              /\ searchLocalBinding(e, n) \in Value
              /\ Len(e.lexical) >= 1
              /\ searchLocalBinding(e, n) = afterSearch(e, n).lexical[Len(e.lexical)][n]
<1>1. CASE ~BoundLocally(e, n)
  BY <1>1 DEF afterSearch, searchLocalBinding
<1>2. CASE BoundLocally(e, n)
  <2> DEFINE d == Len(e.lexical)
             k == ScopeOf(e, n)
             g == makeref(e, n, k)
             P(i) == PlaceholderIn(e, n, k, i)
  <2>1. /\ d \in Nat /\ e.nalloca \in Nat /\ k \in 1..d
        /\ e.lexical[k][n] # NULL /\ e.lexical[k][n] \in Value
        /\ \A i \in 1..d : i > k => e.lexical[i][n] = NULL
    BY <1>2, EnvInvFacts, ScopeOfFacts
  <2>2. /\ g \in Env /\ Len(g.lexical) = d /\ Len(g.refs) = d
        /\ g.nalloca = e.nalloca + (d - k)
        /\ \A i \in 1..d, m \in Name :
             /\ g.lexical[i][m] = IF i > k /\ m = n THEN P(i) ELSE e.lexical[i][m]
             /\ g.refs[i][m] = IF i > k /\ m = n THEN P(i - 1) ELSE e.refs[i][m]
    BY <1>2, MakerefFacts
  <2>3. /\ P(k) = e.lexical[k][n]
        /\ \A i \in (k + 1)..d : /\ P(i).kind = "alloca"
                                  /\ P(i).idx = e.nalloca + (i - k - 1)
                                  /\ P(i) \in Value
    BY <2>1 DEF PlaceholderIn, Alloca, Value
  <2> HIDE DEF P, g, k, d
  <2>4. \A i \in k..d : P(i) # NULL
    BY <2>1, <2>3, NullFacts
  <2>5. WellChained(g)
    <3> SUFFICES ASSUME NEW i \in 1..d, NEW m \in Name
                 PROVE  /\ g.lexical[i][m].kind = "alloca" <=> g.refs[i][m] # NULL
                        /\ g.refs[i][m] # NULL =>
                             i > 1 /\ g.refs[i][m] = g.lexical[i - 1][m]
      BY <2>2 DEF WellChained
    <3>1. CASE i > k /\ m = n
      <4>1. i \in (k + 1)..d /\ i - 1 \in k..d /\ i - 1 \in 1..d /\ i > 1
        BY <2>1, <3>1
      <4>2. g.lexical[i][m] = P(i) /\ g.refs[i][m] = P(i - 1)
        BY <2>2, <3>1
      <4>3. g.lexical[i - 1][m] = P(i - 1)
        <5>1. CASE i - 1 = k
          BY <2>1, <2>2, <2>3, <3>1, <4>1, <5>1
        <5>2. CASE i - 1 > k
          BY <2>2, <3>1, <4>1, <5>2
        <5> QED
          BY <2>1, <4>1, <5>1, <5>2
      <4> QED
        BY <2>3, <2>4, <4>1, <4>2, <4>3
    <3>2. CASE ~(i > k /\ m = n)
      <4>1. g.lexical[i][m] = e.lexical[i][m] /\ g.refs[i][m] = e.refs[i][m]
        BY <2>2, <3>2
      <4>2. /\ e.lexical[i][m].kind = "alloca" <=> e.refs[i][m] # NULL
            /\ e.refs[i][m] # NULL => i > 1 /\ e.refs[i][m] = e.lexical[i - 1][m]
        BY EnvInvFacts DEF d
      <4>3. i > 1 => g.lexical[i - 1][m] = e.lexical[i - 1][m]
        BY <2>1, <2>2, <3>2
      <4> QED
        BY <4>1, <4>2, <4>3, Zenon
    <3> QED
      BY <3>1, <3>2
  <2>6. \A i \in 1..d, m \in Name :
          e.lexical[i][m].kind = "alloca" =>
            /\ e.lexical[i][m] \in Value
            /\ e.lexical[i][m].idx < e.nalloca
    BY EnvInvFacts, NullFacts DEF EnvInv, OldPlaceholders, d
  <2>7. OldPlaceholders(g)
    <3> SUFFICES ASSUME NEW i \in 1..d, NEW m \in Name,
                        g.lexical[i][m].kind = "alloca"
                 PROVE  g.lexical[i][m].idx < e.nalloca + (d - k)
      BY <2>2 DEF OldPlaceholders
    <3>1. CASE i > k /\ m = n
      <4>1. i \in (k + 1)..d /\ g.lexical[i][m] = P(i)
        BY <2>1, <2>2, <3>1
      <4>2. P(i).idx = e.nalloca + (i - k - 1)
        BY <2>3, <4>1
      <4>3. e.nalloca + (i - k - 1) < e.nalloca + (d - k)
        BY <2>1, <4>1
      <4> QED
        BY <4>1, <4>2, <4>3
    <3>2. CASE ~(i > k /\ m = n)
      <4>1. e.lexical[i][m] \in Value /\ e.lexical[i][m].idx < e.nalloca
            /\ g.lexical[i][m] = e.lexical[i][m]
        BY <2>2, <2>6, <3>2
      <4>2. e.lexical[i][m].idx \in Nat
        BY <4>1 DEF Value
      <4> QED
        BY <2>1, <4>1, <4>2
    <3> QED
      BY <3>1, <3>2
  <2>8. DistinctPlaceholders(g)
    <3> SUFFICES ASSUME NEW i \in 1..d, NEW j \in 1..d, NEW m \in Name, NEW l \in Name,
                        g.lexical[i][m].kind = "alloca",
                        g.lexical[i][m] = g.lexical[j][l]
                 PROVE  i = j /\ m = l
      BY <2>2 DEF DistinctPlaceholders
    <3>1. CASE (i > k /\ m = n) /\ (j > k /\ l = n)
      <4>1. P(i).idx = P(j).idx
        BY <2>2, <3>1
      <4> QED
        BY <2>1, <2>3, <3>1, <4>1
    <3>2. CASE (i > k /\ m = n) /\ ~(j > k /\ l = n)
      <4>1. g.lexical[i][m] = P(i) /\ g.lexical[j][l] = e.lexical[j][l]
        BY <2>2, <3>2
      <4>2. e.lexical[j][l].idx < e.nalloca
        BY <2>6, <4>1
      <4>3. P(i).idx >= e.nalloca
        BY <2>1, <2>3, <3>2
      <4> QED
        BY <2>1, <2>3, <3>2, <4>1, <4>2, <4>3
    <3>3. CASE ~(i > k /\ m = n) /\ (j > k /\ l = n)
      <4>1. g.lexical[j][l] = P(j) /\ g.lexical[i][m] = e.lexical[i][m]
        BY <2>2, <3>3
      <4>2. e.lexical[i][m].idx < e.nalloca
        BY <2>6, <4>1
      <4>3. P(j).idx >= e.nalloca
        BY <2>1, <2>3, <3>3
      <4> QED
        BY <2>1, <2>3, <3>3, <4>1, <4>2, <4>3
    <3>4. CASE ~(i > k /\ m = n) /\ ~(j > k /\ l = n)
      <4>1. g.lexical[j][l] = e.lexical[j][l] /\ g.lexical[i][m] = e.lexical[i][m]
        BY <2>2, <3>4
      <4>2. e.lexical[i][m].kind = "alloca" /\ e.lexical[i][m] = e.lexical[j][l]
        BY <4>1
      <4>3. DistinctPlaceholders(e)
        BY DEF EnvInv
      <4>4. i \in 1..Len(e.lexical) /\ j \in 1..Len(e.lexical)
        BY DEF d
      <4> QED
        BY <4>2, <4>3, <4>4, SMTT(30) DEF DistinctPlaceholders
    <3> QED
      BY <3>1, <3>2, <3>3, <3>4
  <2>9. EnvInv(g)
    BY <2>2, <2>5, <2>7, <2>8 DEF EnvInv
  <2>10. \A i \in 1..d, m \in Name :
           e.lexical[i][m] # NULL => g.lexical[i][m] = e.lexical[i][m]
    BY <2>1, <2>2
  <2>11. P(d) \in Value /\ d \in 1..d /\ d >= 1 /\ g.lexical[d][n] = P(d)
    <3>1. CASE d = k
      BY <2>1, <2>2, <2>3, <3>1
    <3>2. CASE d > k
      BY <2>1, <2>2, <2>3, <3>2
    <3> QED
      BY <2>1, <3>1, <3>2
  <2>12. afterSearch(e, n) = g /\ searchLocalBinding(e, n) = P(d)
    BY <1>2 DEF afterSearch, searchLocalBinding, g, P, k, d
  <2> QED
    BY <2>2, <2>9, <2>10, <2>11, <2>12 DEF d
<1> QED
  BY <1>1, <1>2

\* A name the innermost scope binds is answered from there.
LEMMA SearchInnermost ==
  ASSUME NEW e, EnvInv(e), NEW n \in Name, Len(e.lexical) >= 1,
         Back(e.lexical)[n] # NULL
  PROVE  searchLocalBinding(e, n) = Back(e.lexical)[n]
<1> DEFINE d == Len(e.lexical)
<1>1. d \in 1..d /\ d \in Nat /\ e.lexical[d][n] # NULL
  BY EnvInvFacts DEF Back
<1>2. BoundLocally(e, n)
  BY <1>1 DEF BoundLocally
<1>3. ScopeOf(e, n) = d
  BY <1>1, <1>2, ScopeOfFacts
<1> QED
  BY <1>2, <1>3 DEF searchLocalBinding, PlaceholderIn, Back

-----------------------------------------------------------------------------

(***************************************************************************)
(* The order in which std::map iterates numbers the captured names 1, 2, ...  *)
(* without gaps and without repetition.                                     *)
(***************************************************************************)
LEMMA SlotFacts ==
  ASSUME NEW r
  PROVE  /\ Cardinality(Captured(r)) \in Nat
         /\ \A n \in Captured(r) : Slot(r, n) \in 1..Cardinality(Captured(r))
         /\ \A m, n \in Captured(r) : Slot(r, m) = Slot(r, n) => m = n
         /\ \A i \in 1..Cardinality(Captured(r)) :
              \E n \in Captured(r) : Slot(r, n) = i
<1> DEFINE C == Captured(r)
           Upto(n) == {m \in C : m <= n}
<1>1. IsFiniteSet(C) /\ C \subseteq Nat
  <2>1. C \in SUBSET Name
    BY DEF Captured
  <2> QED
    BY <2>1, FS_Subset, FiniteNames, NameAssumption
<1>2. Cardinality(C) \in Nat
  BY <1>1, FS_CardinalityType
<1> HIDE DEF C
<1>3. ASSUME NEW n \in C
      PROVE  /\ IsFiniteSet(Upto(n)) /\ Cardinality(Upto(n)) \in Nat
             /\ Cardinality(Upto(n)) \in 1..Cardinality(C)
  <2>1. Upto(n) \in SUBSET C /\ n \in Upto(n)
    BY <1>1
  <2>2. IsFiniteSet(Upto(n)) /\ Cardinality(Upto(n)) <= Cardinality(C)
    BY <1>1, <2>1, FS_Subset
  <2>3. Cardinality(Upto(n)) \in Nat /\ Cardinality(Upto(n)) # 0
    BY <2>1, <2>2, FS_CardinalityType, FS_EmptySet
  <2> QED
    BY <1>2, <2>2, <2>3
<1>4. ASSUME NEW m \in C, NEW n \in C, m < n
      PROVE  Cardinality(Upto(m)) # Cardinality(Upto(n))
  <2>1. Upto(m) \in SUBSET Upto(n)
    <3> SUFFICES ASSUME NEW x \in C, x <= m PROVE x <= n
      OBVIOUS
    <3>1. x \in Nat /\ m \in Nat /\ n \in Nat
      BY <1>1
    <3> QED
      BY <1>4, <3>1
  <2>2. n \in Upto(n) /\ n \notin Upto(m)
    BY <1>1, <1>4
  <2>3. IsFiniteSet(Upto(n))
    BY <1>3
  <2> HIDE DEF Upto
  <2>4. Cardinality(Upto(n)) = Cardinality(Upto(m)) => Upto(n) = Upto(m)
    BY <2>1, <2>3, FS_Subset
  <2> QED
    BY <2>2, <2>4
<1>5. \A m, n \in C : Cardinality(Upto(m)) = Cardinality(Upto(n)) => m = n
  <2> SUFFICES ASSUME NEW m \in C, NEW n \in C,
                      Cardinality(Upto(m)) = Cardinality(Upto(n)), m # n
               PROVE  FALSE
    OBVIOUS
  <2>1. m < n \/ n < m
    BY <1>1
  <2> HIDE DEF Upto
  <2> QED
    BY <2>1, <1>4
<1>6. \A i \in 1..Cardinality(C) : \E n \in C : Cardinality(Upto(n)) = i
  <2> DEFINE T == 1..Cardinality(C)
             f == [n \in C |-> Cardinality(Upto(n))]
  <2>1. f \in Injection(C, T)
    BY <1>3, <1>5 DEF Injection, IsInjective
  <2>2. IsFiniteSet(T) /\ Cardinality(T) = Cardinality(C)
    BY <1>2, FS_Interval
  <2> HIDE DEF T
  <2>3. f \in Surjection(C, T)
    <3> HIDE DEF f
    <3> QED
      BY <2>1, <2>2, FS_Injection
  <2>4. \A i \in T : \E n \in C : f[n] = i
    BY <2>3 DEF Surjection
  <2> QED
    BY <2>4 DEF T
<1> QED
  BY <1>2, <1>3, <1>5, <1>6 DEF Slot, C

\* Every slot is filled, with the value refs holds for some captured name.
LEMMA FreelistFacts ==
  ASSUME NEW r \in Binding
  PROVE  /\ fillFreelist(r) \in Seq(Value)
         /\ \A i \in 1..Len(fillFreelist(r)) :
              \E n \in Captured(r) : fillFreelist(r)[i] = r[n]
<1> DEFINE c == Cardinality(Captured(r))
           pick(i) == CHOOSE n \in Captured(r) : Slot(r, n) = i
           s == [i \in 1..c |-> r[pick(i)]]
<1>1. c \in Nat /\ \A i \in 1..c : pick(i) \in Captured(r)
  BY SlotFacts
<1>2. \A n \in Captured(r) : r[n] \in Value
  BY DEF Captured, Binding
<1> HIDE DEF pick, c
<1>3. s \in [1..c -> Value] /\ \A i \in 1..c : s[i] = r[pick(i)]
  BY <1>1, <1>2
<1>4. fillFreelist(r) = s
  BY DEF fillFreelist, pick, c
<1> HIDE DEF s
<1>5. s \in Seq(Value) /\ Len(s) = c
  BY <1>1, <1>3
<1> QED
  BY <1>1, <1>3, <1>4, <1>5

(***************************************************************************)
(* Replacing operands: an operand stays what it was or becomes a load, and  *)
(* no placeholder of the innermost scope is left.                           *)
(***************************************************************************)
LEMMA ReplaceFacts ==
  ASSUME NEW e, EnvInv(e), Len(e.lexical) >= 1, NEW f \in Nat,
         NEW v \in Value \cup {NULL}
  PROVE  /\ replaceUse(e, f, v) \in Value \cup {NULL}
         /\ v \in Value => replaceUse(e, f, v) \in Value
         /\ replaceUse(e, f, v).kind = "alloca" =>
              /\ replaceUse(e, f, v) = v
              /\ \A n \in Name : e.lexical[Len(e.lexical)][n] # v
<1> DEFINE d == Len(e.lexical)
           r == getCurrentRefs(e)
<1>1. d \in 1..d /\ r = e.refs[d] /\ Back(e.lexical) = e.lexical[d]
  BY EnvInvFacts DEF getCurrentRefs, Back
<1>2. ASSUME NEW n \in Name
      PROVE  e.lexical[d][n].kind = "alloca" <=> n \in Captured(r)
  BY <1>1, EnvInvFacts DEF Captured
<1>3. ASSUME NEW n \in Captured(r)
      PROVE  searchLocalBinding(e, n) = e.lexical[d][n]
  <2>1. n \in Name
    BY DEF Captured
  <2>2. e.lexical[d][n].kind = "alloca"
    BY <1>2, <2>1
  <2>3. e.lexical[d][n] # NULL
    BY <2>2, NullFacts
  <2> QED
    BY <1>1, <2>1, <2>3, SearchInnermost
<1>4. CASE \E n \in Captured(r) : searchLocalBinding(e, n) = v
  <2>1. PICK m \in Captured(r) :
          replaceUse(e, f, v) = Load(f, Slot(r, m))
    BY <1>4 DEF replaceUse
  <2>2. Slot(r, m) \in Nat
    BY SlotFacts
  <2>3. Load(f, Slot(r, m)) \in Value /\ Load(f, Slot(r, m)).kind # "alloca"
    BY <2>2 DEF Load, Value
  <2> QED
    BY <2>1, <2>3
<1>5. CASE ~\E n \in Captured(r) : searchLocalBinding(e, n) = v
  <2>1. replaceUse(e, f, v) = v
    BY <1>5 DEF replaceUse
  <2>2. ASSUME NEW n \in Name, v.kind = "alloca", e.lexical[d][n] = v
        PROVE  FALSE
    BY <1>2, <1>3, <1>5, <2>2
  <2> QED
    BY <2>1, <2>2
<1> QED
  BY <1>4, <1>5

\* The scope of a new function binds its parameters to its own arguments.
LEMMA ArgsFacts ==
  ASSUME NEW e, EnvInv(e), NEW f \in Nat, NEW fs \in Seq(Name)
  PROVE  /\ EnvInv(loadFuncArgs(newScope(e), f, fs))
         /\ Len(loadFuncArgs(newScope(e), f, fs).lexical) = Len(e.lexical) + 1
         /\ \A k \in 1..Len(e.lexical), n \in Name :
              e.lexical[k][n] # NULL =>
                loadFuncArgs(newScope(e), f, fs).lexical[k][n] = e.lexical[k][n]
<1> DEFINE args(n) == {i \in 1..Len(fs) : fs[i] = n}
           first(n) == CHOOSE i \in args(n) : \A j \in args(n) : i <= j
           b == [n \in Name |-> IF args(n) = {} THEN NULL ELSE Arg(f, first(n))]
           h == newScope(e)
<1>1. ASSUME NEW n \in Name, args(n) # {}
      PROVE  first(n) \in Nat
  <2>1. args(n) \in SUBSET Nat
    OBVIOUS
  <2>2. \E i \in args(n) : \A j \in args(n) : i <= j
    BY <1>1, <2>1, LeastNatural
  <2>3. first(n) \in args(n)
    BY <2>2
  <2> QED
    BY <2>1, <2>3
<1> HIDE DEF first, args
<1>2. \A n \in Name : b[n] \in Value \cup {NULL} /\ b[n].kind # "alloca"
  BY <1>1, NullFacts DEF Arg, Value
<1>3. b \in Binding
  BY <1>2 DEF Binding
<1>4. /\ EnvInv(h) /\ Len(h.lexical) = Len(e.lexical) + 1 /\ Len(e.lexical) \in Nat
      /\ \A k \in 1..Len(e.lexical) : h.lexical[k] = e.lexical[k]
  BY NewScopeInv, EnvInvFacts
<1>5. loadFuncArgs(h, f, fs) = addBindings(h, b)
  BY DEF loadFuncArgs, first, args
<1> HIDE DEF h, b
<1>6. /\ EnvInv(addBindings(h, b))
      /\ Len(addBindings(h, b).lexical) = Len(h.lexical)
      /\ \A k \in 1..Len(h.lexical), n \in Name :
           h.lexical[k][n] # NULL => addBindings(h, b).lexical[k][n] = h.lexical[k][n]
  BY <1>2, <1>3, <1>4, AddBindingsInv
<1>7. \A k \in 1..Len(e.lexical) : k \in 1..Len(h.lexical)
  BY <1>4
<1> QED
  BY <1>4, <1>5, <1>6, <1>7 DEF h

\* Searching, opening and closing scopes leave the global symbols alone.
LEMMA GlobalKept ==
  ASSUME NEW e, EnvInv(e)
  PROVE  /\ \A n : afterSearch(e, n).global = e.global
         /\ exitLastScope(e).global = e.global
         /\ \A f, fs : loadFuncArgs(newScope(e), f, fs).global = e.global
<1>1. ASSUME NEW g \in Env, NEW lex, NEW ref, NEW c
      PROVE  withScopes(g, lex, ref, c).global = g.global
  BY DEF Env, withScopes
<1>2. e \in Env /\ newScope(e) \in Env
  BY NewScopeInv DEF EnvInv
<1>3. \A n : afterSearch(e, n).global = e.global
  BY <1>1, <1>2 DEF afterSearch, makeref
<1>4. exitLastScope(e).global = e.global /\ newScope(e).global = e.global
  BY <1>1, <1>2 DEF exitLastScope, newScope
<1>5. \A f, fs : loadFuncArgs(newScope(e), f, fs).global = newScope(e).global
  BY <1>1, <1>2 DEF loadFuncArgs, addBindings
<1> QED
  BY <1>3, <1>4, <1>5

-----------------------------------------------------------------------------

(***************************************************************************)
(* A search adds placeholders, in inner scopes, where nothing was bound, and *)
(* answers with the binding of the innermost scope; a name it does not find   *)
(* is bound nowhere.                                                        *)
(***************************************************************************)
LEMMA SearchAdds ==
  ASSUME NEW e, EnvInv(e), Len(e.lexical) >= 1, NEW n \in Name,
         NEW g, g = afterSearch(e, n)
  PROVE  /\ \A i \in 1..Len(e.lexical), m \in Name :
              \/ g.lexical[i][m] = e.lexical[i][m]
              \/ i > 1 /\ e.lexical[i][m] = NULL /\ g.lexical[i][m].kind = "alloca"
         /\ searchLocalBinding(e, n) = g.lexical[Len(e.lexical)][n]
         /\ searchLocalBinding(e, n) = NULL =>
              g = e /\ \A i \in 1..Len(e.lexical) : e.lexical[i][n] = NULL
<1> DEFINE d == Len(e.lexical)
           k == ScopeOf(e, n)
<1>1. d \in Nat /\ d \in 1..d
  BY EnvInvFacts
<1>2. CASE ~BoundLocally(e, n)
  <2>1. g = e /\ searchLocalBinding(e, n) = NULL
    BY <1>2 DEF afterSearch, searchLocalBinding
  <2>2. \A i \in 1..d : e.lexical[i][n] = NULL
    BY <1>2 DEF BoundLocally
  <2> QED
    BY <1>1, <2>1, <2>2
<1>3. CASE BoundLocally(e, n)
  <2>1. g = makeref(e, n, k)
    BY <1>3 DEF afterSearch
  <2>2. k \in 1..d /\ \A j \in (k + 1)..d : e.lexical[j][n] = NULL
    BY <1>3, ScopeOfFacts
  <2>3. \A i \in 1..d, m \in Name :
          g.lexical[i][m] = IF i > k /\ m = n THEN PlaceholderIn(e, n, k, i)
                                              ELSE e.lexical[i][m]
    <3> HIDE DEF k
    <3>1. k = ScopeOf(e, n)
      BY DEF k
    <3> QED
      BY <1>3, <2>1, <3>1, MakerefFacts
  <2>4. \A i \in 1..d : i > k => PlaceholderIn(e, n, k, i).kind = "alloca"
    BY <2>2 DEF PlaceholderIn, Alloca
  <2>5. searchLocalBinding(e, n) # NULL
    <3>1. searchLocalBinding(e, n) = PlaceholderIn(e, n, k, d)
      BY <1>3 DEF searchLocalBinding
    <3>2. CASE d = k
      <4>1. e.lexical[k][n] # NULL
        BY <1>3, ScopeOfFacts
      <4> QED
        BY <3>1, <3>2, <4>1 DEF PlaceholderIn
    <3>3. CASE d # k
      <4>1. d > k
        BY <1>1, <2>2, <3>3
      <4> QED
        BY <1>1, <2>4, <3>1, <4>1, NullFacts
    <3> QED
      BY <3>2, <3>3
  <2>6. searchLocalBinding(e, n) = g.lexical[d][n]
    BY <2>5, SearchInv
  <2>7. ASSUME NEW i \in 1..d, NEW m \in Name, i > k, m = n
        PROVE  i > 1 /\ e.lexical[i][m] = NULL /\ g.lexical[i][m].kind = "alloca"
    BY <2>2, <2>3, <2>4, <2>7
  <2>8. \A i \in 1..d, m \in Name :
          \/ g.lexical[i][m] = e.lexical[i][m]
          \/ i > 1 /\ e.lexical[i][m] = NULL /\ g.lexical[i][m].kind = "alloca"
    BY <2>3, <2>7
  <2> QED
    BY <2>5, <2>6, <2>8
<1> QED
  BY <1>2, <1>3

\* The argument of f that loadFuncArgs binds n to.
ArgOf(f, fs, n) ==
  LET at == {i \in 1..Len(fs) : fs[i] = n} IN
  IF at = {} THEN NULL ELSE Arg(f, CHOOSE i \in at : \A j \in at : i <= j)

\* The bindings that the head of createFunction leaves, entry by entry.
LEMMA ArgsBound ==
  ASSUME NEW e, EnvInv(e), NEW f \in Nat, NEW fs \in Seq(Name),
         NEW g, g = loadFuncArgs(newScope(e), f, fs)
  PROVE  /\ \A k \in 1..Len(e.lexical) : g.lexical[k] = e.lexical[k]
         /\ \A n \in Name : g.lexical[Len(e.lexical) + 1][n] = ArgOf(f, fs, n)
<1> DEFINE at(n) == {i \in 1..Len(fs) : fs[i] = n}
           first(n) == CHOOSE i \in at(n) : \A j \in at(n) : i <= j
           b == [n \in Name |-> IF at(n) = {} THEN NULL ELSE Arg(f, first(n))]
           h == newScope(e)
           c == Len(e.lexical) + 1
           lex == [h.lexical EXCEPT ![c] =
                     [n \in Name |-> IF @[n] = NULL THEN b[n] ELSE @[n]]]
<1>1. /\ EnvInv(h) /\ Len(h.lexical) = c /\ Len(e.lexical) \in Nat
      /\ \A k \in 1..Len(e.lexical) : h.lexical[k] = e.lexical[k]
      /\ \A n \in Name : h.lexical[c][n] = NULL
  BY NewScopeInv, EnvInvFacts
<1>2. h \in Env /\ h.lexical \in Seq(Binding)
  BY <1>1, EnvInvFacts
<1>3. g = withScopes(h, lex, h.refs, h.nalloca)
  <2>1. g = addBindings(h, b)
    BY DEF loadFuncArgs
  <2> HIDE DEF b, h, c
  <2> QED
    BY <1>1, <2>1 DEF addBindings
<1> HIDE DEF b, h, at, first
<1>4. g.lexical = lex
  <2> HIDE DEF lex
  <2> QED
    BY <1>2, <1>3 DEF withScopes, Env
<1>5. /\ \A k \in 1..Len(e.lexical) : lex[k] = h.lexical[k]
      /\ lex[c] = [n \in Name |-> IF h.lexical[c][n] = NULL THEN b[n] ELSE h.lexical[c][n]]
  <2>1. c \in DOMAIN h.lexical /\ \A k \in 1..Len(e.lexical) : k # c /\ k \in DOMAIN h.lexical
    BY <1>1, <1>2
  <2> HIDE DEF c
  <2> QED
    BY <2>1
<1>6. \A n \in Name : lex[c][n] = b[n]
  <2> HIDE DEF lex, c
  <2> QED
    BY <1>1, <1>5
<1>7. \A n \in Name : b[n] = IF at(n) = {} THEN NULL ELSE Arg(f, first(n))
  BY DEF b
<1> QED
  BY <1>1, <1>4, <1>5, <1>6, <1>7 DEF at, first, ArgOf

\* The captured names in the order of their slots.
SlotNames(r) ==
  [i \in 1..Cardinality(Captured(r)) |-> CHOOSE n \in Captured(r) : Slot(r, n) = i]

\* The i-th slot is filled for the i-th captured name.
LEMMA SlotNamesFacts ==
  ASSUME NEW r \in Binding
  PROVE  /\ SlotNames(r) \in Seq(Name) /\ Len(SlotNames(r)) = Len(fillFreelist(r))
         /\ \A i \in 1..Len(fillFreelist(r)) :
              /\ SlotNames(r)[i] \in Captured(r)
              /\ fillFreelist(r)[i] = r[SlotNames(r)[i]]
         /\ \A n \in Captured(r) :
              /\ Slot(r, n) \in 1..Len(fillFreelist(r))
              /\ SlotNames(r)[Slot(r, n)] = n
<1> DEFINE c == Cardinality(Captured(r))
           pick(i) == CHOOSE n \in Captured(r) : Slot(r, n) = i
           s == [i \in 1..c |-> r[pick(i)]]
           t == [i \in 1..c |-> pick(i)]
<1>1. c \in Nat /\ \A i \in 1..c : pick(i) \in Captured(r) /\ Slot(r, pick(i)) = i
  BY SlotFacts
<1>2. \A n \in Captured(r) : n \in Name /\ r[n] \in Value
  BY DEF Captured, Binding
<1>3. \A n \in Captured(r) : Slot(r, n) \in 1..c
  BY SlotFacts
<1>4. \A m, n \in Captured(r) : Slot(r, m) = Slot(r, n) => m = n
  BY SlotFacts
<1>5. fillFreelist(r) = s /\ SlotNames(r) = t
  BY DEF fillFreelist, SlotNames
<1> HIDE DEF pick, c
<1>6. s \in [1..c -> Value] /\ \A i \in 1..c : s[i] = r[pick(i)]
  BY <1>1, <1>2
<1>7. t \in [1..c -> Name] /\ \A i \in 1..c : t[i] = pick(i)
  BY <1>1, <1>2
<1> HIDE DEF s, t
<1>8. s \in Seq(Value) /\ Len(s) = c /\ t \in Seq(Name) /\ Len(t) = c
  BY <1>1, <1>6, <1>7, FunctionIsSeq
<1>9. ASSUME NEW n \in Captured(r) PROVE t[Slot(r, n)] = n
  BY <1>1, <1>3, <1>4, <1>7
<1> QED
  BY <1>1, <1>3, <1>5, <1>6, <1>7, <1>8, <1>9

\* Replacing is exact: each placeholder of the innermost scope becomes the load
\* of the slot of its name, and nothing else changes.
LEMMA ReplaceExact ==
  ASSUME NEW e, EnvInv(e), Len(e.lexical) >= 1, NEW f \in Nat,
         NEW v \in Value \cup {NULL}, NEW d, d = Len(e.lexical)
  PROVE  /\ v.kind # "alloca" \/ (\A n \in Name : e.lexical[d][n] # v) =>
              replaceUse(e, f, v) = v
         /\ \A n \in Name : v.kind = "alloca" /\ e.lexical[d][n] = v =>
              /\ n \in Captured(getCurrentRefs(e))
              /\ replaceUse(e, f, v) = Load(f, Slot(getCurrentRefs(e), n))
<1> DEFINE r == getCurrentRefs(e)
<1>1. d \in 1..d /\ r = e.refs[d] /\ Back(e.lexical) = e.lexical[d]
  BY EnvInvFacts DEF getCurrentRefs, Back
<1>2. ASSUME NEW n \in Name
      PROVE  e.lexical[d][n].kind = "alloca" <=> n \in Captured(r)
  BY <1>1, EnvInvFacts DEF Captured
<1>3. ASSUME NEW n \in Captured(r)
      PROVE  n \in Name /\ searchLocalBinding(e, n) = e.lexical[d][n]
             /\ e.lexical[d][n].kind = "alloca"
  <2>1. n \in Name
    BY DEF Captured
  <2>2. e.lexical[d][n].kind = "alloca"
    BY <1>2, <2>1
  <2>3. e.lexical[d][n] # NULL
    BY <2>2, NullFacts
  <2> QED
    BY <1>1, <2>1, <2>2, <2>3, SearchInnermost
<1>4. ASSUME v.kind # "alloca" \/ (\A n \in Name : e.lexical[d][n] # v)
      PROVE  replaceUse(e, f, v) = v
  <2>1. ~\E n \in Captured(r) : searchLocalBinding(e, n) = v
    BY <1>3, <1>4
  <2> QED
    BY <2>1 DEF replaceUse
<1>5. ASSUME NEW n \in Name, v.kind = "alloca", e.lexical[d][n] = v
      PROVE  /\ n \in Captured(getCurrentRefs(e))
             /\ replaceUse(e, f, v) = Load(f, Slot(getCurrentRefs(e), n))
  <2> DEFINE w == CHOOSE m \in Captured(r) : searchLocalBinding(e, m) = v
  <2>1. n \in Captured(r) /\ searchLocalBinding(e, n) = v
    BY <1>2, <1>3, <1>5
  <2>2. w \in Captured(r) /\ searchLocalBinding(e, w) = v
    BY <2>1
  <2>3. replaceUse(e, f, v) = Load(f, Slot(r, w))
    BY <2>1 DEF replaceUse
  <2> HIDE DEF w
  <2>4. w \in Name /\ e.lexical[d][w] = v
    BY <1>3, <2>2
  <2>5. w = n
    <3>1. DistinctPlaceholders(e)
      BY DEF EnvInv
    <3> QED
      BY <1>1, <1>5, <2>4, <3>1, SMTT(30) DEF DistinctPlaceholders
  <2> QED
    BY <2>1, <2>3, <2>5
<1> QED
  BY <1>4, <1>5

-----------------------------------------------------------------------------

(***************************************************************************)
(* The activations of a form: its own at the bottom, functions and           *)
(* definitions above it; a definition under way has its symbol.             *)
(***************************************************************************)
StackOK ==
  /\ phase # "gen" => stack = <<>>
  /\ phase = "gen" => stack # <<>> /\ stack[1].kind = "top"
  /\ \A i \in 1..Len(stack) :
       /\ i > 1 => stack[i].kind # "top"
       /\ stack[i].kind = "def" => stack[i].name \in env.global

\* Every open function has its scope; an Error may have left others.
ScopesOpen == Len(env.lexical) >= 1 + Cardinality(OpenFunctions)

IInv == TypeOK /\ EnvInv(env) /\ StackOK /\ ScopesOpen /\ NoDanglingPlaceholder

-----------------------------------------------------------------------------

Opens(s) == {i \in 1..Len(s) : s[i].kind = "fn"}

\* What is left when the innermost activation is gone.
LEMMA PopFacts ==
  ASSUME NEW s \in Seq(Frame), s # <<>>
  PROVE  /\ PopBack(s) \in Seq(Frame) /\ Len(PopBack(s)) = Len(s) - 1
         /\ Len(s) \in 1..Len(s) /\ Back(s) = s[Len(s)] /\ Back(s) \in Frame
         /\ \A i \in 1..(Len(s) - 1) : PopBack(s)[i] = s[i]
<1> DEFINE d == Len(s) - 1
<1>1. d \in Nat /\ Len(s) \in 1..Len(s) /\ \A i \in 1..Len(s) : s[i] \in Frame
  OBVIOUS
<1>2. \A i \in 1..d : s[i] \in Frame
  BY <1>1
<1>3. /\ SubSeq(s, 1, d) \in Seq(Frame) /\ Len(SubSeq(s, 1, d)) = d
      /\ \A i \in 1..d : SubSeq(s, 1, d)[i] = s[i]
  <2>1. d \in 1 - 1..Len(s) /\ 1 \in 1..Len(s) + 1
    BY <1>1
  <2>2. \A i \in 1..d : i \in 1..d - 1 + 1 /\ s[1 + i - 1] = s[i]
    BY <1>1
  <2> HIDE DEF d
  <2>3. /\ SubSeq(s, 1, d) \in Seq(Frame)
        /\ Len(SubSeq(s, 1, d)) = IF 1 <= d THEN d - 1 + 1 ELSE 0
        /\ \A i \in 1..d - 1 + 1 : SubSeq(s, 1, d)[i] = s[1 + i - 1]
    BY <2>1, SubSeqProperties
  <2> QED
    BY <1>1, <2>2, <2>3
<1> QED
  BY <1>1, <1>3 DEF PopBack, Back

\* The open functions are counted up by a push and down by a pop.
LEMMA OpensFacts ==
  ASSUME NEW s \in Seq(Frame)
  PROVE  /\ Cardinality(Opens(s)) \in Nat
         /\ \A fr \in Frame :
              Cardinality(Opens(Append(s, fr))) =
                Cardinality(Opens(s)) + (IF fr.kind = "fn" THEN 1 ELSE 0)
         /\ s # <<>> =>
              Cardinality(Opens(PopBack(s))) =
                Cardinality(Opens(s)) - (IF Back(s).kind = "fn" THEN 1 ELSE 0)
<1> DEFINE d == Len(s)
<1>1. d \in Nat
  OBVIOUS
<1>2. IsFiniteSet(Opens(s)) /\ Cardinality(Opens(s)) \in Nat
  <2>1. IsFiniteSet(1..d)
    BY <1>1, FS_Interval
  <2>2. Opens(s) \in SUBSET (1..d)
    BY DEF Opens
  <2>3. IsFiniteSet(Opens(s))
    BY <2>1, <2>2, FS_Subset
  <2> QED
    BY <2>3, FS_CardinalityType
<1>3. ASSUME NEW fr \in Frame
      PROVE  Cardinality(Opens(Append(s, fr))) =
               Cardinality(Opens(s)) + (IF fr.kind = "fn" THEN 1 ELSE 0)
  <2>1. /\ Len(Append(s, fr)) = d + 1 /\ Append(s, fr)[d + 1] = fr
        /\ \A i \in 1..d : Append(s, fr)[i] = s[i]
    OBVIOUS
  <2>2. CASE fr.kind = "fn"
    <3>1. Opens(Append(s, fr)) = Opens(s) \cup {d + 1} /\ d + 1 \notin Opens(s)
      BY <1>1, <2>1, <2>2 DEF Opens
    <3> QED
      BY <1>2, <2>2, <3>1, FS_AddElement
  <2>3. CASE fr.kind # "fn"
    <3>1. Opens(Append(s, fr)) = Opens(s)
      BY <1>1, <2>1, <2>3 DEF Opens
    <3> QED
      BY <1>2, <2>3, <3>1
  <2> QED
    BY <2>2, <2>3
<1>4. ASSUME s # <<>>
      PROVE  Cardinality(Opens(PopBack(s))) =
               Cardinality(Opens(s)) - (IF Back(s).kind = "fn" THEN 1 ELSE 0)
  <2>1. /\ d >= 1 /\ Len(PopBack(s)) = d - 1 /\ Back(s) = s[d]
        /\ \A i \in 1..(d - 1) : PopBack(s)[i] = s[i]
    BY <1>4, PopFacts
  <2>2. CASE Back(s).kind = "fn"
    <3>1. Opens(PopBack(s)) = Opens(s) \ {d} /\ d \in Opens(s)
      BY <1>1, <2>1, <2>2 DEF Opens
    <3> QED
      BY <1>2, <2>2, <3>1, FS_RemoveElement
  <2>3. CASE Back(s).kind # "fn"
    <3>1. Opens(PopBack(s)) = Opens(s)
      BY <1>1, <2>1, <2>3 DEF Opens
    <3> QED
      BY <1>2, <2>3, <3>1
  <2> QED
    BY <2>2, <2>3
<1> QED
  BY <1>2, <1>3, <1>4

-----------------------------------------------------------------------------

\* The parameter lists of an instance are sequences of names.
LEMMA FormalListsFacts == \A fs \in FormalLists : fs \in Seq(Name)
  BY CodeGenAssumption DEF FormalLists

(***************************************************************************)
(* Placeholders stay reachable over a step that closes no scope and emits   *)
(* no operand other than the bindings of open scopes.                       *)
(***************************************************************************)
LEMMA KeepPlaceholders ==
  ASSUME NoDanglingPlaceholder, EnvInv(env), EnvInv(env'),
         Len(env'.lexical) >= Len(env.lexical),
         \A k \in 1..Len(env.lexical), n \in Name :
           env.lexical[k][n] # NULL => env'.lexical[k][n] = env.lexical[k][n],
         \A v \in Operands' :
           v.kind = "alloca" =>
             v \in Operands \/ \E k \in 1..Len(env'.lexical), n \in Name :
                                env'.lexical[k][n] = v
  PROVE  NoDanglingPlaceholder'
<1> SUFFICES ASSUME NEW v \in Operands', v.kind = "alloca"
             PROVE  \E k \in 1..Len(env'.lexical), n \in Name :
                      env'.lexical[k][n] = v
  BY DEF NoDanglingPlaceholder
<1>1. CASE v \in Operands
  <2>1. PICK k \in 1..Len(env.lexical), n \in Name : env.lexical[k][n] = v
    BY <1>1 DEF NoDanglingPlaceholder
  <2>2. env.lexical[k][n] # NULL
    BY <2>1, NullFacts
  <2>3. k \in 1..Len(env'.lexical)
    BY EnvInvFacts
  <2> QED
    BY <2>1, <2>2, <2>3
<1> QED
  BY <1>1

\* A function that has just been created has no operands.
LEMMA NewFunFacts ==
  ASSUME TypeOK, NEW p \in Nat, NEW fs \in Seq(Name),
         funs' = Append(funs, NewFun(p, fs)), uses' = uses
  PROVE  funs' \in Seq(Fun) /\ Operands' \subseteq Operands
<1> DEFINE f == NewFun(p, fs)
           d == Len(funs)
<1>1. f \in Fun /\ f.free = <<>>
  BY DEF NewFun, Fun
<1>2. funs \in Seq(Fun) /\ d \in Nat
  BY DEF TypeOK
<1> HIDE DEF f
<1>3. /\ funs' \in Seq(Fun) /\ Len(funs') = d + 1
      /\ funs'[d + 1] = f /\ \A g \in 1..d : funs'[g] = funs[g]
  BY <1>1, <1>2 DEF f
<1>4. ASSUME NEW v \in Operands' PROVE v \in Operands
  <2>1. CASE v \in {u.val : u \in uses'}
    BY <2>1 DEF Operands
  <2>2. CASE \E g \in 1..Len(funs') :
               v \in {funs'[g].free[i] : i \in 1..Len(funs'[g].free)}
    <3>1. PICK g \in 1..Len(funs') :
            v \in {funs'[g].free[i] : i \in 1..Len(funs'[g].free)}
      BY <2>2
    <3>2. g # d + 1
      BY <1>1, <1>3, <3>1
    <3>3. g \in 1..d /\ funs'[g] = funs[g]
      BY <1>2, <1>3, <3>2
    <3> QED
      BY <3>1, <3>3 DEF Operands
  <2> QED
    BY <2>1, <2>2 DEF Operands
<1> QED
  BY <1>3, <1>4

\* IInv holds when the driver starts.
LEMMA InitInv == Init => IInv
<1> SUFFICES ASSUME Init PROVE IInv
  OBVIOUS
<1>1. EnvInv(env) /\ env \in Env /\ Len(env.lexical) = 1
  BY NewEnvInv DEF Init, EnvInv
<1>2. TypeOK
  BY <1>1 DEF Init, TypeOK
<1>3. StackOK
  BY DEF Init, StackOK
<1>4. ScopesOpen
  <2>1. OpenFunctions = {}
    BY DEF Init, OpenFunctions
  <2> QED
    BY <1>1, <2>1, FS_EmptySet DEF ScopesOpen
<1>5. NoDanglingPlaceholder
  BY DEF Init, NoDanglingPlaceholder, Operands
<1> QED
  BY <1>1, <1>2, <1>3, <1>4, <1>5 DEF IInv

\* The parts of IInv in the form the steps use them.
LEMMA IInvFacts ==
  ASSUME IInv
  PROVE  /\ TypeOK /\ EnvInv(env) /\ StackOK /\ NoDanglingPlaceholder
         /\ stack \in Seq(Frame) /\ inserting \in Nat /\ funs \in Seq(Fun)
         /\ Len(funs) \in Nat /\ env.global \subseteq Name
         /\ OpenFunctions = Opens(stack)
         /\ Cardinality(Opens(stack)) \in Nat
         /\ Len(env.lexical) \in Nat
         /\ Len(env.lexical) >= 1 + Cardinality(Opens(stack))
<1>1. TypeOK /\ EnvInv(env) /\ StackOK /\ NoDanglingPlaceholder /\ ScopesOpen
  BY DEF IInv
<1>2. stack \in Seq(Frame) /\ inserting \in Nat /\ funs \in Seq(Fun) /\ env \in Env
  BY <1>1 DEF TypeOK
<1>3. Len(funs) \in Nat /\ env.global \subseteq Name
  BY <1>2 DEF Env
<1>4. OpenFunctions = Opens(stack)
  BY DEF OpenFunctions, Opens
<1>5. Cardinality(Opens(stack)) \in Nat /\ Len(env.lexical) \in Nat
  BY <1>1, <1>2, OpensFacts, EnvInvFacts
<1> QED
  BY <1>1, <1>2, <1>3, <1>4, <1>5 DEF ScopesOpen

(***************************************************************************)
(* What a step inside codeGenEval() has to show about the environment and    *)
(* the operands, given that it closes no scope.                             *)
(***************************************************************************)
Grows ==
  /\ EnvInv(env')
  /\ Len(env'.lexical) >= Len(env.lexical)
  /\ env.global \subseteq env'.global
  /\ \A k \in 1..Len(env.lexical), n \in Name :
       env.lexical[k][n] # NULL => env'.lexical[k][n] = env.lexical[k][n]

driverVars == <<todo, declared, installs, cell>>

\* A search only adds placeholders.
LEMMA SearchGrows ==
  ASSUME IInv, NEW n \in Name, env' = afterSearch(env, n)
  PROVE  Grows /\ Len(env'.lexical) = Len(env.lexical) /\ env'.global = env.global
<1>1. EnvInv(env) /\ Len(env.lexical) \in Nat
  BY IInvFacts
<1> QED
  BY <1>1, SearchInv, GlobalKept DEF Grows

\* The creation of a global symbol leaves the scopes alone.
LEMMA GlobalGrows ==
  ASSUME IInv, NEW n \in Name, env' = getGlobal(env, n)
  PROVE  Grows /\ Len(env'.lexical) = Len(env.lexical) /\ n \in env'.global
<1>1. EnvInv(env) /\ Len(env.lexical) \in Nat /\ env \in Env
  BY IInvFacts DEF EnvInv
<1>2. env' = addGlobalBinding(env, n)
  BY DEF getGlobal
<1>3. env'.global = env.global \cup {n}
  BY <1>1, <1>2 DEF addGlobalBinding, Env
<1>4. EnvInv(env') /\ env'.lexical = env.lexical
  BY <1>1, <1>2, AddGlobalInv
<1> QED
  BY <1>1, <1>3, <1>4 DEF Grows

\* The start of a function adds one scope to those that are open.
LEMMA FunctionGrows ==
  ASSUME IInv, NEW f \in Nat, NEW fs \in Seq(Name),
         env' = loadFuncArgs(newScope(env), f, fs)
  PROVE  Grows /\ Len(env'.lexical) = Len(env.lexical) + 1
<1>1. EnvInv(env) /\ Len(env.lexical) \in Nat
  BY IInvFacts
<1>2. /\ EnvInv(env') /\ Len(env'.lexical) = Len(env.lexical) + 1
      /\ \A k \in 1..Len(env.lexical), n \in Name :
           env.lexical[k][n] # NULL => env'.lexical[k][n] = env.lexical[k][n]
  <2> DEFINE g == loadFuncArgs(newScope(env), f, fs)
  <2>1. EnvInv(g)
    BY <1>1, ArgsFacts
  <2>2. Len(g.lexical) = Len(env.lexical) + 1
    BY <1>1, ArgsFacts
  <2>3. \A k \in 1..Len(env.lexical), n \in Name :
           env.lexical[k][n] # NULL => g.lexical[k][n] = env.lexical[k][n]
    BY <1>1, ArgsFacts
  <2>4. env' = g
    OBVIOUS
  <2> HIDE DEF g
  <2> QED
    BY <2>1, <2>2, <2>3, <2>4
<1>3. env'.global = env.global
  BY <1>1, GlobalKept
<1> QED
  BY <1>1, <1>2, <1>3 DEF Grows

\* Every activation ends: an Error, or the end of the process.
Gone == phase' \in {"idle", "exit"} /\ Unwind

\* That drops every activation and keeps whatever scopes were open.
LEMMA ErrorInv ==
  ASSUME IInv, Gone, Grows, funs' \in Seq(Fun), Operands' \subseteq Operands,
         UNCHANGED driverVars
  PROVE  IInv'
<1> USE IInvFacts
<1>1. TypeOK'
  <2>1. env' \in Env
    BY DEF Grows, EnvInv
  <2> QED
    BY <2>1 DEF TypeOK, Gone, Unwind, driverVars
<1>2. StackOK'
  BY DEF StackOK, Gone, Unwind
<1>3. ScopesOpen'
  <2>1. OpenFunctions' = {}
    BY DEF OpenFunctions, Gone, Unwind
  <2>2. Len(env'.lexical) \in Nat
    BY EnvInvFacts DEF Grows
  <2> QED
    BY <2>1, <2>2, FS_EmptySet DEF ScopesOpen, Grows
<1>4. NoDanglingPlaceholder'
  BY KeepPlaceholders DEF Grows
<1> QED
  BY <1>1, <1>2, <1>3, <1>4 DEF IInv, Grows

-----------------------------------------------------------------------------

\* Pushing an activation that is not a form's own.
LEMMA PushFacts ==
  ASSUME IInv, phase = "gen", phase' = "gen", NEW fr \in Frame, fr.kind # "top",
         fr.kind = "def" => fr.name \in env'.global,
         env.global \subseteq env'.global, stack' = Append(stack, fr)
  PROVE  /\ stack' \in Seq(Frame) /\ StackOK'
         /\ OpenFunctions' = Opens(stack')
         /\ Cardinality(Opens(stack')) =
              Cardinality(Opens(stack)) + (IF fr.kind = "fn" THEN 1 ELSE 0)
<1> USE IInvFacts
<1>1. stack # <<>> /\ stack[1].kind = "top" /\ Len(stack) \in Nat /\ 1 \in 1..Len(stack)
  BY DEF StackOK
<1>2. /\ stack' \in Seq(Frame) /\ Len(stack') = Len(stack) + 1 /\ stack' # <<>>
      /\ \A i \in 1..Len(stack) : stack'[i] = stack[i]
      /\ stack'[Len(stack) + 1] = fr
  OBVIOUS
<1>3. ASSUME NEW i \in 1..Len(stack')
      PROVE  /\ i > 1 => stack'[i].kind # "top"
             /\ stack'[i].kind = "def" => stack'[i].name \in env'.global
  <2>1. CASE i = Len(stack) + 1
    BY <1>2, <2>1
  <2>2. CASE i # Len(stack) + 1
    <3>1. i \in 1..Len(stack)
      BY <1>1, <1>2, <2>2
    <3>2. stack'[i] = stack[i]
      BY <1>2, <3>1
    <3>3. /\ i > 1 => stack[i].kind # "top"
          /\ stack[i].kind = "def" => stack[i].name \in env.global
      BY <3>1 DEF StackOK
    <3> QED
      BY <3>2, <3>3
  <2> QED
    BY <2>1, <2>2
<1>4. stack'[1].kind = "top"
  BY <1>1, <1>2
<1>5. StackOK'
  BY <1>2, <1>3, <1>4, Zenon DEF StackOK
<1>6. OpenFunctions' = Opens(stack')
  BY DEF OpenFunctions, Opens
<1> QED
  BY <1>2, <1>5, <1>6, OpensFacts

\* Popping it again.
LEMMA FinishFacts ==
  ASSUME IInv, phase = "gen", phase' = "gen", Top.kind # "top",
         env'.global = env.global, stack' = PopBack(stack)
  PROVE  /\ stack' \in Seq(Frame) /\ StackOK'
         /\ Top \in Frame
         /\ Top.kind = "def" => Top.name \in env.global
         /\ OpenFunctions' = Opens(stack')
         /\ Cardinality(Opens(stack')) =
              Cardinality(Opens(stack)) - (IF Top.kind = "fn" THEN 1 ELSE 0)
<1> USE IInvFacts
<1> DEFINE p == PopBack(stack)
           d == Len(stack)
<1>1. /\ stack # <<>> /\ stack[1].kind = "top" /\ d \in Nat /\ d \in 1..d
      /\ Top = stack[d] /\ Top \in Frame
      /\ p \in Seq(Frame) /\ Len(p) = d - 1
      /\ \A i \in 1..(d - 1) : p[i] = stack[i]
  BY PopFacts DEF StackOK, Top
<1>2. d > 1
  BY <1>1
<1>3. p # <<>>
  BY <1>1, <1>2
<1>4. Cardinality(Opens(p)) = Cardinality(Opens(stack)) - (IF Top.kind = "fn" THEN 1 ELSE 0)
  BY <1>1, OpensFacts DEF Top
<1> HIDE DEF p, d
<1>5. /\ stack' \in Seq(Frame) /\ Len(stack') = d - 1 /\ stack' # <<>>
      /\ Opens(stack') = Opens(p)
      /\ \A i \in 1..(d - 1) : /\ stack'[i].kind = p[i].kind
                                /\ stack'[i].name = p[i].name
  BY <1>1, <1>3 DEF p
<1>6. ASSUME NEW i \in 1..(d - 1)
      PROVE  /\ stack'[i].kind = stack[i].kind
             /\ i > 1 => stack'[i].kind # "top"
             /\ stack'[i].kind = "def" => stack'[i].name \in env'.global
  <2>1. i \in 1..Len(stack)
    BY <1>1 DEF d
  <2>2. stack'[i].kind = stack[i].kind /\ stack'[i].name = stack[i].name
    BY <1>1, <1>5
  <2>3. /\ i > 1 => stack[i].kind # "top"
        /\ stack[i].kind = "def" => stack[i].name \in env.global
    BY <2>1 DEF StackOK
  <2> QED
    BY <2>2, <2>3
<1>7. 1 \in 1..(d - 1)
  BY <1>1, <1>2
<1>8. StackOK'
  BY <1>1, <1>5, <1>6, <1>7, Zenon DEF StackOK
<1>9. OpenFunctions' = Opens(stack')
  BY DEF OpenFunctions, Opens
<1>10. Top.kind = "def" => Top.name \in env.global
  BY <1>1 DEF StackOK, d
<1> QED
  BY <1>1, <1>4, <1>5, <1>8, <1>9, <1>10

\* SymbolASTNode::codeGenEval preserves IInv.
LEMMA ReferenceInv ==
  ASSUME IInv, NEW n \in Name, Reference(n), UNCHANGED driverVars
  PROVE  IInv'
<1> USE IInvFacts
<1> DEFINE v == searchLocalBinding(env, n)
           u == [fn |-> inserting, name |-> n, val |-> v]
<1>1. /\ uses' = uses \cup {u} /\ stack' = stack /\ phase = "gen"
      /\ env' = IF v # NULL THEN afterSearch(env, n) ELSE getGlobal(env, n)
      /\ UNCHANGED <<phase, inserting, funs, stores, done>>
  BY DEF Reference
<1>2. Grows /\ Len(env'.lexical) = Len(env.lexical)
  BY <1>1, SearchGrows, GlobalGrows
<1>3. v \in Value \cup {NULL}
  BY SearchInv
<1>4. v # NULL => \E k \in 1..Len(env'.lexical), m \in Name : env'.lexical[k][m] = v
  <2> SUFFICES ASSUME v # NULL
               PROVE  \E k \in 1..Len(env'.lexical), m \in Name : env'.lexical[k][m] = v
    OBVIOUS
  <2>1. env' = afterSearch(env, n)
    BY <1>1
  <2>2. Len(env.lexical) >= 1 /\ v = afterSearch(env, n).lexical[Len(env.lexical)][n]
    BY SearchInv
  <2>3. Len(env.lexical) \in 1..Len(env'.lexical)
    BY <1>2, <2>2
  <2> QED
    BY <2>1, <2>2, <2>3
<1> HIDE DEF v
<1>5. u \in Use /\ u.val = v
  BY <1>3 DEF Use
<1> HIDE DEF u
<1>6. Operands' \subseteq Operands \cup {v}
  BY <1>1, <1>5 DEF Operands
<1>7. NoDanglingPlaceholder'
  BY <1>2, <1>4, <1>6, NullFacts, KeepPlaceholders DEF Grows
<1>8. /\ stack # <<>> /\ stack' \in Seq(Frame) /\ Len(stack') = Len(stack)
      /\ \A i \in 1..Len(stack) : /\ stack'[i].kind = stack[i].kind
                                   /\ stack'[i].name = stack[i].name
      /\ Opens(stack') = Opens(stack) /\ stack' # <<>>
  BY <1>1 DEF StackOK
<1>9. StackOK'
  BY <1>1, <1>2, <1>8 DEF StackOK, Grows
<1>10. ScopesOpen'
  BY <1>2, <1>8 DEF ScopesOpen, OpenFunctions, Opens
<1>11. TypeOK'
  <2>1. env' \in Env
    BY <1>2 DEF Grows, EnvInv
  <2> QED
    BY <1>1, <1>5, <1>8, <2>1 DEF TypeOK, driverVars
<1> QED
  BY <1>2, <1>7, <1>9, <1>10, <1>11 DEF IInv, Grows

\* The head of createFunction preserves IInv.
LEMMA BeginFunctionInv ==
  ASSUME IInv, NEW fs \in Seq(Name), BeginFunction(fs), UNCHANGED driverVars
  PROVE  IInv'
<1> USE IInvFacts
<1> DEFINE f == Len(funs) + 1
           fr == [kind |-> "fn", fn |-> f, prev |-> inserting,
                  name |-> 0]
<1>1. /\ phase = "gen" /\ f \in Nat
      /\ funs' = Append(funs, NewFun(inserting, fs))
      /\ env' = loadFuncArgs(newScope(env), f, fs)
      /\ stack' = Append(stack, fr) /\ inserting' = f
      /\ UNCHANGED <<phase, uses, stores, done>>
  BY DEF BeginFunction
<1>2. Grows /\ Len(env'.lexical) = Len(env.lexical) + 1
  BY <1>1, FunctionGrows
<1>3. funs' \in Seq(Fun) /\ Operands' \subseteq Operands
  BY <1>1, NewFunFacts
<1>4. NoDanglingPlaceholder'
  BY <1>2, <1>3, KeepPlaceholders DEF Grows
<1>5. fr \in Frame /\ fr.kind = "fn"
  BY <1>1 DEF Frame
<1> HIDE DEF fr, f
<1>6. /\ stack' \in Seq(Frame) /\ StackOK' /\ OpenFunctions' = Opens(stack')
      /\ Cardinality(Opens(stack')) = Cardinality(Opens(stack)) + 1
  BY <1>1, <1>2, <1>5, PushFacts DEF Grows
<1>7. ScopesOpen'
  BY <1>2, <1>6 DEF ScopesOpen
<1>8. TypeOK'
  <2>1. env' \in Env
    BY <1>2 DEF Grows, EnvInv
  <2> QED
    BY <1>1, <1>3, <1>6, <2>1 DEF TypeOK, driverVars
<1> QED
  BY <1>2, <1>4, <1>6, <1>7, <1>8 DEF IInv, Grows

\* The Errors preserve IInv, whatever they leave behind.
LEMMA ErrorsInv ==
  ASSUME IInv, UNCHANGED driverVars,
         \/ SyntaxError \/ MalformedDefine
         \/ \E n \in Name : Redefinition(n)
         \/ \E fs \in FormalLists : BadFormals(fs)
  PROVE  IInv'
<1> USE IInvFacts
<1>1. CASE SyntaxError \/ MalformedDefine
  <2>1. Grows
    BY <1>1 DEF SyntaxError, MalformedDefine, Grows
  <2>2. Operands' = Operands
    BY <1>1 DEF SyntaxError, MalformedDefine, Throw, Unwind, Operands
  <2> QED
    BY <1>1, <2>1, <2>2, ErrorInv DEF SyntaxError, MalformedDefine, Throw, Gone
<1>2. ASSUME NEW n \in Name, Redefinition(n) PROVE IInv'
  <2>1. Grows
    BY <1>2, SearchGrows DEF Redefinition
  <2>2. Operands' = Operands
    BY <1>2 DEF Redefinition, Throw, Unwind, Operands
  <2> QED
    BY <1>2, <2>1, <2>2, ErrorInv DEF Redefinition, Throw, Gone
<1>3. ASSUME NEW fs \in FormalLists, BadFormals(fs) PROVE IInv'
  <2>1. fs \in Seq(Name) /\ Len(funs) + 1 \in Nat
    BY FormalListsFacts
  <2>2. Grows
    BY <1>3, <2>1, FunctionGrows DEF BadFormals
  <2>3. funs' \in Seq(Fun) /\ Operands' \subseteq Operands
    BY <1>3, <2>1, NewFunFacts DEF BadFormals, Throw, Unwind
  <2> QED
    BY <1>3, <2>2, <2>3, ErrorInv DEF BadFormals, Throw, Gone
<1> QED
  BY <1>1, <1>2, <1>3

\* What replaceAllUsesWith leaves of the operands, and where they come from.
LEMMA ReplaceOperands ==
  ASSUME IInv, NEW f \in Nat, replaceAllUsesWith(env, f)
  PROVE  /\ uses' \subseteq Use /\ funs' \in Seq(Fun)
         /\ \A v \in Operands' :
              \/ \E w \in Operands \cap (Value \cup {NULL}) : v = replaceUse(env, f, w)
              \/ \E n \in Captured(getCurrentRefs(env)) : v = getCurrentRefs(env)[n]
<1> USE IInvFacts
<1> DEFINE r == getCurrentRefs(env)
           R(v) == replaceUse(env, f, v)
           N(g) == [funs[g] EXCEPT !.free =
                      IF g = f THEN fillFreelist(r)
                      ELSE [i \in 1..Len(@) |-> R(@[i])]]
<1>1. r \in Binding
  <2>1. Len(env.lexical) \in 1..Len(env.lexical) /\ r = env.refs[Len(env.lexical)]
    BY EnvInvFacts DEF getCurrentRefs, Back
  <2> QED
    BY <2>1, EnvInvFacts
<1>2. /\ \A v \in Value \cup {NULL} : R(v) \in Value \cup {NULL}
      /\ \A v \in Value : R(v) \in Value
  <2>1. EnvInv(env) /\ Len(env.lexical) >= 1
    OBVIOUS
  <2> QED
    BY <2>1, ReplaceFacts, Zenon
<1>3. /\ uses' = {[u EXCEPT !.val = R(@)] : u \in uses}
      /\ funs' = [g \in 1..Len(funs) |-> N(g)]
  BY DEF replaceAllUsesWith
<1> HIDE DEF R, r
<1>4. ASSUME NEW u \in uses
      PROVE  /\ [u EXCEPT !.val = R(@)] \in Use
             /\ u.val \in Value \cup {NULL}
             /\ [u EXCEPT !.val = R(@)].val = R(u.val)
  <2>1. u \in Use
    BY DEF TypeOK
  <2> QED
    BY <1>2, <2>1 DEF Use
<1>5. ASSUME NEW g \in 1..Len(funs)
      PROVE  /\ N(g) \in Fun
             /\ g = f => N(g).free = fillFreelist(r)
             /\ g # f => /\ Len(N(g).free) = Len(funs[g].free)
                         /\ \A i \in 1..Len(funs[g].free) :
                              /\ N(g).free[i] = R(funs[g].free[i])
                              /\ funs[g].free[i] \in Value
  <2> DEFINE h == funs[g]
             fr == IF g = f THEN fillFreelist(r)
                   ELSE [i \in 1..Len(h.free) |-> R(h.free[i])]
  <2>1. h \in Fun
    OBVIOUS
  <2>2. /\ h.free \in Seq(Value) /\ Len(h.free) \in Nat
        /\ \A i \in 1..Len(h.free) : h.free[i] \in Value
    <3> HIDE IInvFacts
    <3> HIDE DEF h
    <3>1. h.free \in Seq(Value)
      BY <2>1 DEF Fun
    <3> QED
      BY <3>1, SeqFacts
  <2>3. N(g) = [h EXCEPT !.free = fr]
    OBVIOUS
  <2> HIDE DEF h
  <2>4. CASE g = f
    <3>1. fr = fillFreelist(r) /\ fr \in Seq(Value)
      BY <1>1, <2>4, FreelistFacts
    <3> HIDE DEF fr, N
    <3>2. N(g) \in Fun /\ N(g).free = fr
      BY <2>1, <2>3, <3>1 DEF Fun
    <3> QED
      BY <2>4, <3>1, <3>2
  <2>5. CASE g # f
    <3>1. fr = [i \in 1..Len(h.free) |-> R(h.free[i])]
      BY <2>5
    <3> HIDE DEF fr, N
    <3>2. fr \in [1..Len(h.free) -> Value]
      BY <1>2, <2>2, <3>1
    <3>3. fr \in Seq(Value) /\ Len(fr) = Len(h.free)
      BY <2>2, <3>2, FunctionIsSeq
    <3>4. N(g) \in Fun /\ N(g).free = fr
      BY <2>1, <2>3, <3>3 DEF Fun
    <3> QED
      BY <2>2, <2>5, <3>1, <3>3, <3>4 DEF h
  <2> QED
    BY <2>4, <2>5
<1> HIDE DEF N
<1>6. uses' \subseteq Use
  BY <1>3, <1>4
<1>7. funs' \in Seq(Fun) /\ Len(funs') = Len(funs) /\ \A g \in 1..Len(funs) : funs'[g] = N(g)
  BY <1>3, <1>5
<1>8. ASSUME NEW v \in Operands'
      PROVE  \/ \E w \in Operands \cap (Value \cup {NULL}) : v = R(w)
             \/ \E n \in Captured(r) : v = r[n]
  <2>1. CASE v \in {u.val : u \in uses'}
    <3>1. PICK u \in uses : v = [u EXCEPT !.val = R(@)].val
      BY <1>3, <2>1
    <3>2. v = R(u.val) /\ u.val \in Operands \cap (Value \cup {NULL})
      BY <1>4, <3>1 DEF Operands
    <3> QED
      BY <3>2
  <2>2. CASE \E g \in 1..Len(funs') :
               v \in {funs'[g].free[i] : i \in 1..Len(funs'[g].free)}
    <3>4. PICK g \in 1..Len(funs') :
            v \in {funs'[g].free[i] : i \in 1..Len(funs'[g].free)}
      BY <2>2
    <3>5. PICK i \in 1..Len(funs'[g].free) : v = funs'[g].free[i]
      BY <3>4
    <3>1. g \in 1..Len(funs) /\ i \in 1..Len(N(g).free) /\ v = N(g).free[i]
      BY <1>7, <3>5
    <3>2. CASE g = f
      BY <1>1, <1>5, <3>1, <3>2, FreelistFacts
    <3>3. CASE g # f
      <4>1. i \in 1..Len(funs[g].free) /\ v = R(funs[g].free[i])
            /\ funs[g].free[i] \in Value
        BY <1>5, <3>1, <3>3
      <4>2. funs[g].free[i] \in Operands
        <5>1. funs[g].free[i] \in {funs[g].free[j] : j \in 1..Len(funs[g].free)}
          BY <4>1
        <5>2. {funs[g].free[j] : j \in 1..Len(funs[g].free)} \in
                {{funs[h].free[j] : j \in 1..Len(funs[h].free)} : h \in 1..Len(funs)}
          BY <3>1, Zenon
        <5> QED
          BY <5>1, <5>2, Zenon DEF Operands
      <4> QED
        BY <4>1, <4>2
    <3> QED
      BY <3>2, <3>3
  <2> QED
    BY <2>1, <2>2 DEF Operands
<1> QED
  BY <1>6, <1>7, <1>8 DEF R, r

\* The tail of createFunction preserves IInv.
LEMMA EndFunctionInv ==
  ASSUME IInv, EndFunction, UNCHANGED driverVars
  PROVE  IInv'
<1> USE IInvFacts
<1> DEFINE d == Len(env.lexical)
           f == Top.fn
           r == getCurrentRefs(env)
<1>1. /\ phase = "gen" /\ Top.kind = "fn"
      /\ replaceAllUsesWith(env, f) /\ env' = exitLastScope(env)
      /\ inserting' = Top.prev /\ stack' = PopBack(stack)
      /\ UNCHANGED <<phase, stores, done>>
  BY DEF EndFunction
<1>2. env'.global = env.global
  BY <1>1, GlobalKept
<1>3. /\ stack' \in Seq(Frame) /\ StackOK' /\ Top \in Frame
      /\ OpenFunctions' = Opens(stack')
      /\ Cardinality(Opens(stack')) = Cardinality(Opens(stack)) - 1
  <2>1. phase' = "gen" /\ Top.kind # "top"
    BY <1>1
  <2> QED
    BY <1>1, <1>2, <2>1, FinishFacts
<1>4. /\ EnvInv(env') /\ Len(env'.lexical) = d - 1 /\ d \in Nat /\ d \in 1..d
      /\ \A k \in 1..(d - 1) : env'.lexical[k] = env.lexical[k]
  <2>1. env' = exitLastScope(env)
    BY <1>1
  <2>2. EnvInv(env) /\ d \in Nat /\ d >= 1
    OBVIOUS
  <2>3. d \in 1..d
    BY <2>2
  <2> QED
    BY <2>1, <2>2, <2>3, ExitScopeInv
<1>5. ScopesOpen'
  BY <1>3, <1>4 DEF ScopesOpen
<1>6. f \in Nat /\ Top.prev \in Nat
  BY <1>3 DEF Frame
<1>7. uses' \subseteq Use /\ funs' \in Seq(Fun)
  BY <1>1, <1>6, ReplaceOperands
<1>8. TypeOK'
  <2>1. env' \in Env
    BY <1>4 DEF EnvInv
  <2> QED
    BY <1>1, <1>3, <1>6, <1>7, <2>1 DEF TypeOK, driverVars
<1>9. NoDanglingPlaceholder'
  <2> SUFFICES ASSUME NEW v \in Operands', v.kind = "alloca"
               PROVE  \E k \in 1..Len(env'.lexical), n \in Name : env'.lexical[k][n] = v
    BY DEF NoDanglingPlaceholder
  <2>1. ASSUME NEW w \in Operands \cap (Value \cup {NULL}), v = replaceUse(env, f, w)
        PROVE  \E k \in 1..(d - 1), n \in Name : env.lexical[k][n] = v
    <3>1. v = w /\ \A n \in Name : env.lexical[d][n] # v
      BY <1>6, <2>1, ReplaceFacts
    <3>2. PICK k \in 1..d, n \in Name : env.lexical[k][n] = v
      BY <3>1 DEF NoDanglingPlaceholder
    <3>3. k # d
      BY <3>1, <3>2
    <3>4. k \in 1..(d - 1)
      BY <1>4, <3>3
    <3> QED
      BY <3>2, <3>4
  <2>2. ASSUME NEW n \in Captured(r), v = r[n]
        PROVE  \E k \in 1..(d - 1), m \in Name : env.lexical[k][m] = v
    <3>1. n \in Name /\ r = env.refs[d] /\ r[n] # NULL
      BY <1>4, EnvInvFacts DEF Captured, getCurrentRefs, Back
    <3>2. d > 1 /\ r[n] = env.lexical[d - 1][n]
      <4>1. EnvInv(env)
        OBVIOUS
      <4>2. \A k \in 1..d, m \in Name :
              env.refs[k][m] # NULL => k > 1 /\ env.refs[k][m] = env.lexical[k - 1][m]
        BY <4>1 DEF EnvInv, WellChained
      <4> HIDE IInvFacts
      <4> QED
        BY <1>4, <3>1, <4>2
    <3>3. d - 1 \in 1..(d - 1)
      BY <1>4, <3>2
    <3> QED
      BY <2>2, <3>1, <3>2, <3>3
  <2> QED
    <3>1. \E k \in 1..(d - 1), n \in Name : env.lexical[k][n] = v
      BY <1>1, <1>6, <2>1, <2>2, ReplaceOperands
    <3> QED
      BY <1>4, <3>1
<1> QED
  BY <1>3, <1>4, <1>5, <1>8, <1>9 DEF IInv

\* handleDefine preserves IInv at both ends.
LEMMA DefineInv ==
  ASSUME IInv, UNCHANGED driverVars,
         EndDefine \/ \E n \in Name : BeginDefine(n)
  PROVE  IInv'
<1> USE IInvFacts
<1>1. ASSUME NEW n \in Name, BeginDefine(n) PROVE IInv'
  <2> DEFINE fr == [kind |-> "def", fn |-> inserting, prev |-> inserting,
                    name |-> n]
  <2>1. /\ phase = "gen" /\ phase' = "gen" /\ env' = getGlobal(env, n)
        /\ stack' = Append(stack, fr)
        /\ UNCHANGED <<phase, inserting, funs, uses, stores, done>>
    BY <1>1 DEF BeginDefine
  <2>2. Grows /\ Len(env'.lexical) = Len(env.lexical) /\ n \in env'.global
    BY <2>1, GlobalGrows
  <2>3. fr \in Frame /\ fr.kind = "def" /\ fr.name = n
    BY NameAssumption DEF Frame
  <2> HIDE DEF fr
  <2>4. /\ stack' \in Seq(Frame) /\ StackOK' /\ OpenFunctions' = Opens(stack')
        /\ Cardinality(Opens(stack')) = Cardinality(Opens(stack))
    BY <2>1, <2>2, <2>3, PushFacts DEF Grows
  <2>5. ScopesOpen'
    BY <2>2, <2>4 DEF ScopesOpen
  <2>6. NoDanglingPlaceholder'
    <3>1. Operands' = Operands
      BY <2>1 DEF Operands
    <3> QED
      BY <2>2, <3>1, KeepPlaceholders DEF Grows
  <2>7. TypeOK'
    <3>1. env' \in Env
      BY <2>2 DEF Grows, EnvInv
    <3> QED
      BY <2>1, <2>4, <3>1 DEF TypeOK, driverVars
  <2> QED
    BY <2>2, <2>4, <2>5, <2>6, <2>7 DEF IInv, Grows
<1>2. CASE EndDefine
  <2>1. /\ phase = "gen" /\ phase' = "gen" /\ Top.kind = "def" /\ Top.kind # "top"
        /\ stores' = stores \cup {[fn |-> inserting, name |-> Top.name]}
        /\ stack' = PopBack(stack) /\ env' = env
        /\ UNCHANGED <<phase, env, inserting, funs, uses, done>>
    BY <1>2 DEF EndDefine
  <2>2. /\ stack' \in Seq(Frame) /\ StackOK' /\ Top.name \in env.global
        /\ OpenFunctions' = Opens(stack')
        /\ Cardinality(Opens(stack')) = Cardinality(Opens(stack))
    BY <2>1, FinishFacts
  <2>3. [fn |-> inserting, name |-> Top.name] \in Store
    BY <2>2 DEF Store
  <2>4. TypeOK'
    BY <2>1, <2>2, <2>3 DEF TypeOK, driverVars
  <2>5. ScopesOpen'
    BY <2>1, <2>2 DEF ScopesOpen
  <2>6. NoDanglingPlaceholder'
    <3>1. Operands' = Operands
      BY <2>1 DEF Operands
    <3> QED
      BY <2>1, <3>1 DEF NoDanglingPlaceholder
  <2> QED
    BY <2>1, <2>2, <2>4, <2>5, <2>6 DEF IInv
<1> QED
  BY <1>1, <1>2

\* The driver's own steps preserve IInv.
LEMMA DriverStepInv ==
  ASSUME IInv,
         \/ BeginForm \/ EndForm \/ Quit
         \/ \E b \in Builtin : CheckBuiltin(b)
         \/ \E defined \in SUBSET Name : RunForm(defined)
  PROVE  IInv'
<1> USE IInvFacts
<1>1. CASE BeginForm
  <2> DEFINE fr == [kind |-> "top", fn |-> Len(funs) + 1, prev |-> 0,
                    name |-> 0]
  <2>1. /\ phase = "idle" /\ phase' = "gen"
        /\ funs' = Append(funs, NewFun(0, <<>>)) /\ stack' = <<fr>>
        /\ inserting' = Len(funs) + 1
        /\ UNCHANGED <<env, uses, stores, done, todo, declared, installs, cell>>
    BY <1>1 DEF BeginForm
  <2>2. funs' \in Seq(Fun) /\ Operands' \subseteq Operands
    <3>1. <<>> \in Seq(Name) /\ 0 \in Nat
      OBVIOUS
    <3> QED
      BY <2>1, <3>1, NewFunFacts
  <2>3. fr \in Frame /\ fr.kind = "top"
    BY DEF Frame
  <2> HIDE DEF fr
  <2>4. /\ stack' \in Seq(Frame) /\ stack' # <<>> /\ Len(stack') = 1
        /\ stack'[1] = fr
    BY <2>1, <2>3
  <2>5. StackOK' /\ OpenFunctions' = {}
    BY <2>1, <2>3, <2>4 DEF StackOK, OpenFunctions
  <2>6. ScopesOpen'
    BY <2>1, <2>5, FS_EmptySet DEF ScopesOpen
  <2>7. TypeOK'
    BY <2>1, <2>2, <2>4 DEF TypeOK
  <2>8. NoDanglingPlaceholder'
    BY <2>1, <2>2 DEF NoDanglingPlaceholder
  <2> QED
    BY <2>1, <2>5, <2>6, <2>7, <2>8 DEF IInv
<1>2. CASE EndForm
  <2>1. /\ phase = "gen" /\ phase' = "check" /\ todo' = Builtin
        /\ done' = done \cup Top.fn..Len(funs) /\ stack' = <<>> /\ inserting' = 0
        /\ UNCHANGED <<env, funs, uses, stores, declared, installs, cell>>
    BY <1>2 DEF EndForm
  <2>2. Top.fn \in Nat
    <3>1. Top \in Frame
      BY <2>1, PopFacts DEF StackOK, Top
    <3> QED
      BY <3>1 DEF Frame
  <2>3. done' \subseteq Nat
    BY <2>1, <2>2 DEF TypeOK
  <2>4. TypeOK'
    BY <2>1, <2>3 DEF TypeOK
  <2>5. StackOK' /\ OpenFunctions' = {}
    BY <2>1 DEF StackOK, OpenFunctions
  <2>6. ScopesOpen'
    BY <2>1, <2>5, FS_EmptySet DEF ScopesOpen
  <2>7. NoDanglingPlaceholder'
    BY <2>1 DEF NoDanglingPlaceholder, Operands
  <2> QED
    BY <2>1, <2>4, <2>5, <2>6, <2>7 DEF IInv
<1>3. CASE Quit \/ \E defined \in SUBSET Name : RunForm(defined)
  <2>1. /\ phase # "gen" /\ phase' \in {"idle", "exit"} /\ installs' \subseteq installs
        /\ UNCHANGED <<env, stack, inserting, funs, uses, stores, done, todo, declared>>
    BY <1>3 DEF Quit, RunForm
  <2>2. cell' \in [Name -> {"unbound", "builtin", "user"}]
    <3>1. cell \in [Name -> {"unbound", "builtin", "user"}]
      BY DEF TypeOK
    <3> QED
      BY <1>3, <3>1 DEF Quit, RunForm
  <2>3. TypeOK'
    BY <2>1, <2>2 DEF TypeOK
  <2>4. StackOK'
    BY <2>1 DEF StackOK
  <2>5. ScopesOpen'
    BY <2>1 DEF ScopesOpen, OpenFunctions, Opens
  <2>6. NoDanglingPlaceholder'
    <3>1. Operands' = Operands /\ env' = env
      BY <2>1 DEF Operands
    <3> QED
      BY <3>1 DEF NoDanglingPlaceholder
  <2> QED
    BY <2>1, <2>3, <2>4, <2>5, <2>6 DEF IInv
<1>4. ASSUME NEW b \in Builtin, CheckBuiltin(b) PROVE IInv'
  <2>1. /\ phase = "check" /\ env' = afterSearch(env, b) /\ todo' \subseteq todo
        /\ declared' \subseteq declared \cup {b} /\ installs' \subseteq installs \cup {b}
        /\ UNCHANGED <<phase, stack, inserting, funs, uses, stores, done, cell>>
    BY <1>4 DEF CheckBuiltin
  <2>2. b \in Name
    BY BuiltinAssumption
  <2>3. Grows /\ Len(env'.lexical) = Len(env.lexical)
    BY <2>1, <2>2, SearchGrows
  <2>4. TypeOK'
    <3>1. env' \in Env
      BY <2>3 DEF Grows, EnvInv
    <3> QED
      BY <2>1, <3>1 DEF TypeOK
  <2>5. StackOK' /\ ScopesOpen'
    BY <2>1, <2>3 DEF StackOK, ScopesOpen, OpenFunctions, Opens, Grows
  <2>6. NoDanglingPlaceholder'
    <3>1. Operands' = Operands
      BY <2>1 DEF Operands
    <3> QED
      BY <2>3, <3>1, KeepPlaceholders DEF Grows
  <2> QED
    BY <2>3, <2>4, <2>5, <2>6 DEF IInv, Grows
<1> QED
  BY <1>1, <1>2, <1>3, <1>4

\* Every step preserves IInv.
LEMMA StepInv == IInv /\ [Next]_vars => IInv'
<1> SUFFICES ASSUME IInv, [Next]_vars PROVE IInv'
  OBVIOUS
<1>1. CASE Generate /\ UNCHANGED driverVars
  BY <1>1, ReferenceInv, BeginFunctionInv, ErrorsInv, EndFunctionInv, DefineInv,
     FormalListsFacts DEF Generate
<1>2. CASE UNCHANGED vars
  <2>1. TypeOK'
    BY <1>2 DEF vars, IInv, TypeOK
  <2>2. EnvInv(env') /\ StackOK'
    BY <1>2 DEF vars, IInv, StackOK
  <2>3. ScopesOpen'
    BY <1>2 DEF vars, IInv, ScopesOpen, OpenFunctions
  <2>4. NoDanglingPlaceholder'
    BY <1>2 DEF vars, IInv, NoDanglingPlaceholder, Operands
  <2> QED
    BY <2>1, <2>2, <2>3, <2>4 DEF IInv
<1> QED
  BY <1>1, <1>2, DriverStepInv DEF Next, driverVars

(***************************************************************************)
(* Type correctness of the code generator and its drivers, for any program.  *)
(***************************************************************************)
THEOREM TypeCorrect == Spec => []TypeOK
<1>1. IInv => TypeOK
  BY DEF IInv
<1> QED
  BY <1>1, InitInv, StepInv, PTL DEF Spec

(***************************************************************************)
(* The refs of every open scope, also of those an Error left behind, hold     *)
(* what the scope around it uses.                                           *)
(***************************************************************************)
THEOREM ChainedAlways == Spec => []Chained
<1>1. IInv => Chained
  BY DEF IInv, EnvInv, Chained
<1> QED
  BY <1>1, InitInv, StepInv, PTL DEF Spec

(***************************************************************************)
(* No placeholder that makeref hands out stands for two names or two scopes, *)
(* also after Errors that left scopes open.                                 *)
(***************************************************************************)
THEOREM PlaceholdersStayDistinct == Spec => []PlaceholdersDistinct
<1>1. IInv => PlaceholdersDistinct
  BY DEF IInv, EnvInv, PlaceholdersDistinct
<1> QED
  BY <1>1, InitInv, StepInv, PTL DEF Spec

(***************************************************************************)
(* createFunction's `delete argval' leaves no instruction behind that uses   *)
(* the placeholder it frees.                                                *)
(***************************************************************************)
THEOREM NoDangling == Spec => []NoDanglingPlaceholder
<1>1. IInv => NoDanglingPlaceholder
  BY DEF IInv
<1> QED
  BY <1>1, InitInv, StepInv, PTL DEF Spec

-----------------------------------------------------------------------------

(***************************************************************************)
(* A step opens and closes scopes and functions together, unless it throws:  *)
(* an Error closes the functions and leaves their scopes open.               *)
(***************************************************************************)
LEMMA ScopesStep ==
  ASSUME IInv, [Next]_vars
  PROVE  \/ Len(env'.lexical) - Cardinality(Opens(stack')) =
              Len(env.lexical) - Cardinality(Opens(stack))
         \/ Gone /\ Len(env'.lexical) >= Len(env.lexical) /\ Opens(stack') = {}
<1> DEFINE Balanced == Len(env'.lexical) - Cardinality(Opens(stack')) =
                         Len(env.lexical) - Cardinality(Opens(stack))
<1> USE IInvFacts
<1>1. ASSUME NEW n \in Name, Reference(n)
      PROVE  Balanced
  <2>1. Len(env'.lexical) = Len(env.lexical)
    BY <1>1, SearchGrows, GlobalGrows DEF Reference
  <2>2. Opens(stack') = Opens(stack) /\ phase = "gen"
    BY <1>1 DEF Reference, StackOK
  <2> QED
    BY <2>1, <2>2
<1>2. ASSUME NEW fs \in FormalLists, BeginFunction(fs)
      PROVE  Balanced
  <2> DEFINE f == Len(funs) + 1
             fr == [kind |-> "fn", fn |-> f, prev |-> inserting,
                    name |-> 0]
  <2>1. f \in Nat /\ fs \in Seq(Name) /\ phase = "gen"
        /\ env' = loadFuncArgs(newScope(env), f, fs) /\ stack' = Append(stack, fr)
    BY <1>2, FormalListsFacts DEF BeginFunction
  <2>2. Len(env'.lexical) = Len(env.lexical) + 1
    BY <2>1, FunctionGrows
  <2>3. fr \in Frame /\ fr.kind = "fn"
    BY <2>1 DEF Frame
  <2> HIDE DEF fr, f
  <2>4. Cardinality(Opens(stack')) = Cardinality(Opens(stack)) + 1
    BY <2>1, <2>3, OpensFacts
  <2> QED
    BY <2>1, <2>2, <2>4
<1>3. CASE EndFunction
  <2>1. /\ phase = "gen" /\ phase' = "gen" /\ Top.kind = "fn" /\ Top.kind # "top"
        /\ env' = exitLastScope(env) /\ stack' = PopBack(stack)
    BY <1>3 DEF EndFunction
  <2>2. Len(env'.lexical) = Len(env.lexical) - 1 /\ env'.global = env.global
    BY <2>1, ExitScopeInv, GlobalKept
  <2>3. Cardinality(Opens(stack')) = Cardinality(Opens(stack)) - 1
    BY <2>1, <2>2, FinishFacts
  <2> QED
    BY <2>1, <2>2, <2>3
<1>4. ASSUME NEW n \in Name, BeginDefine(n)
      PROVE  Balanced
  <2> DEFINE fr == [kind |-> "def", fn |-> inserting, prev |-> inserting,
                    name |-> n]
  <2>1. phase = "gen" /\ stack' = Append(stack, fr)
    BY <1>4 DEF BeginDefine
  <2>2. Len(env'.lexical) = Len(env.lexical)
    BY <1>4, GlobalGrows DEF BeginDefine
  <2>3. fr \in Frame /\ fr.kind = "def"
    BY NameAssumption DEF Frame
  <2> HIDE DEF fr
  <2>4. Cardinality(Opens(stack')) = Cardinality(Opens(stack))
    BY <2>1, <2>3, OpensFacts
  <2> QED
    BY <2>1, <2>2, <2>4
<1>5. CASE EndDefine
  <2>1. /\ phase = "gen" /\ phase' = "gen" /\ Top.kind = "def" /\ Top.kind # "top"
        /\ env' = env /\ stack' = PopBack(stack)
    BY <1>5 DEF EndDefine
  <2>2. Cardinality(Opens(stack')) = Cardinality(Opens(stack))
    BY <2>1, FinishFacts
  <2> QED
    BY <2>1, <2>2
<1>6. CASE \/ SyntaxError \/ MalformedDefine
           \/ \E n \in Name : Redefinition(n)
           \/ \E fs \in FormalLists : BadFormals(fs)
  <2>1. Gone /\ Opens(stack') = {}
    BY <1>6 DEF SyntaxError, MalformedDefine, Redefinition, BadFormals, Throw, Unwind, Gone, Opens
  <2>2. Len(env'.lexical) >= Len(env.lexical)
    <3>1. CASE SyntaxError \/ MalformedDefine
      BY <3>1 DEF SyntaxError, MalformedDefine
    <3>2. ASSUME NEW n \in Name, Redefinition(n) PROVE Len(env'.lexical) >= Len(env.lexical)
      BY <3>2, SearchGrows DEF Redefinition
    <3>3. ASSUME NEW fs \in FormalLists, BadFormals(fs)
          PROVE  Len(env'.lexical) >= Len(env.lexical)
      <4> DEFINE f == Len(funs) + 1
      <4>1. fs \in Seq(Name) /\ f \in Nat
        BY FormalListsFacts
      <4>2. env' = loadFuncArgs(newScope(env), f, fs)
        BY <3>3 DEF BadFormals
      <4> HIDE DEF f
      <4>3. Len(env'.lexical) = Len(env.lexical) + 1
        BY <4>1, <4>2, FunctionGrows
      <4>4. Len(env.lexical) \in Nat
        BY IInvFacts
      <4> QED
        BY <4>3, <4>4
    <3> QED
      BY <1>6, <3>1, <3>2, <3>3
  <2> QED
    BY <2>1, <2>2
<1>7. CASE BeginForm
  <2>1. phase = "idle" /\ stack = <<>> /\ env' = env
    BY <1>7 DEF BeginForm, StackOK
  <2>2. Opens(stack') = {} /\ Opens(stack) = {}
    BY <1>7, <2>1 DEF BeginForm, Opens
  <2> QED
    BY <2>1, <2>2
<1>8. CASE EndForm
  <2>1. /\ phase = "gen" /\ Top.kind = "top" /\ env' = env /\ stack' = <<>>
    BY <1>8 DEF EndForm
  <2>2. stack # <<>> /\ Len(stack) \in 1..Len(stack) /\ Top = stack[Len(stack)]
    BY <2>1, PopFacts DEF StackOK, Top
  <2>3. Len(stack) = 1 /\ stack[1].kind = "top"
    <3>1. Len(stack) > 1 => stack[Len(stack)].kind # "top"
      BY <2>2 DEF StackOK
    <3>2. ~(Len(stack) > 1) /\ Len(stack) \in Nat /\ Len(stack) >= 1
      BY <2>1, <2>2, <3>1
    <3>3. \A x \in Nat : ~(x > 1) /\ x >= 1 => x = 1
      OBVIOUS
    <3>4. Len(stack) = 1
      BY <3>2, <3>3, Zenon
    <3> QED
      BY <2>1, <2>2, <3>4
  <2>4. Opens(stack) = {} /\ Opens(stack') = {}
    BY <2>1, <2>3 DEF Opens
  <2> QED
    BY <2>1, <2>4
<1>9. ASSUME NEW b \in Builtin, CheckBuiltin(b)
      PROVE  Balanced
  <2>1. phase # "exit" /\ env' = afterSearch(env, b) /\ stack' = stack
    BY <1>9 DEF CheckBuiltin
  <2>2. Len(env'.lexical) = Len(env.lexical)
    BY <2>1, BuiltinAssumption, SearchGrows
  <2> QED
    BY <2>1, <2>2
<1>10. CASE Quit \/ (\E defined \in SUBSET Name : RunForm(defined)) \/ UNCHANGED vars
  BY <1>10 DEF Quit, RunForm, vars
<1> QED
  BY <1>1, <1>2, <1>3, <1>4, <1>5, <1>6, <1>7, <1>8, <1>9, <1>10 DEF Next, Generate

\* A scope that an Error left behind stays.
LEMMA ScopeLeftStays ==
  ASSUME IInv, [Next]_vars, ScopeLeft
  PROVE  ScopeLeft'
<1> USE IInvFacts
<1>1. IInv' /\ OpenFunctions' = Opens(stack') /\ Len(env'.lexical) \in Nat
      /\ Cardinality(Opens(stack')) \in Nat
  BY StepInv, EnvInvFacts, OpensFacts DEF OpenFunctions, Opens, IInv, TypeOK
<1>2. CASE Gone /\ Len(env'.lexical) >= Len(env.lexical) /\ Opens(stack') = {}
  BY <1>1, <1>2, FS_EmptySet DEF ScopeLeft
<1>3. CASE Len(env'.lexical) - Cardinality(Opens(stack')) =
             Len(env.lexical) - Cardinality(Opens(stack))
  BY <1>1, <1>3 DEF ScopeLeft
<1> QED
  BY <1>2, <1>3, ScopesStep

\* The compiler stops at the first Error, so that it never generates code with
\* a scope too many.
LEMMA CompilerCount == ~Interactive /\ Spec => [](IInv /\ (phase # "exit" => ~ScopeLeft))
<1> SUFFICES ASSUME ~Interactive PROVE Spec => [](IInv /\ (phase # "exit" => ~ScopeLeft))
  OBVIOUS
<1> DEFINE Inv == IInv /\ (phase # "exit" => ~ScopeLeft)
<1>1. Init => Inv
  <2> SUFFICES ASSUME Init PROVE ~ScopeLeft
    BY InitInv
  <2>1. Len(env.lexical) = 1 /\ OpenFunctions = {}
    BY NewEnvInv DEF Init, OpenFunctions
  <2> QED
    BY <2>1, FS_EmptySet DEF ScopeLeft
<1>2. Inv /\ [Next]_vars => Inv'
  <2> SUFFICES ASSUME IInv, phase # "exit" => ~ScopeLeft, [Next]_vars, phase' # "exit"
               PROVE  Len(env'.lexical) = 1 + Cardinality(OpenFunctions')
    BY StepInv DEF ScopeLeft
  <2> USE IInvFacts
  <2>1. /\ OpenFunctions' = Opens(stack') /\ Len(env'.lexical) \in Nat
        /\ Cardinality(Opens(stack')) \in Nat
    BY StepInv, EnvInvFacts, OpensFacts DEF OpenFunctions, Opens, IInv, TypeOK
  <2>2. CASE phase = "exit"
    <3>1. UNCHANGED vars
      BY <2>2 DEF Next, Generate, EndFunction, EndDefine, SyntaxError, MalformedDefine, Reference,
             BeginDefine, Redefinition, BeginFunction, BadFormals, BeginForm, EndForm, Quit,
             CheckBuiltin, RunForm
    <3> QED
      BY <2>2, <3>1 DEF vars
  <2>3. CASE Generate
    <3>1. ~Gone
      BY <2>3 DEF Generate, EndFunction, EndDefine, SyntaxError, MalformedDefine, Reference,
             BeginDefine, Redefinition, BeginFunction, BadFormals, Throw, Gone
    <3> QED
      BY <2>1, <2>2, <3>1, ScopesStep DEF ScopeLeft
  <2>4. CASE BeginForm \/ EndForm \/ \E b \in Builtin : CheckBuiltin(b)
    <3>1. ~Gone
      BY <2>4 DEF BeginForm, EndForm, CheckBuiltin, Gone
    <3> QED
      BY <2>1, <2>2, <3>1, ScopesStep DEF ScopeLeft
  <2>5. CASE UNCHANGED vars
    BY <2>1, <2>5 DEF vars, ScopeLeft, OpenFunctions, Opens
  <2>6. ~Quit /\ \A defined \in SUBSET Name : ~RunForm(defined)
    BY DEF Quit, RunForm
  <2> QED
    BY <2>3, <2>4, <2>5, <2>6 DEF Next
<1> HIDE DEF Inv
<1>3. Inv => IInv /\ (phase # "exit" => ~ScopeLeft)
  BY DEF Inv
<1> QED
  BY <1>1, <1>2, <1>3, PTL DEF Spec

-----------------------------------------------------------------------------

(***************************************************************************)
(* What keeps a builtin from being installed over a definition: a name that  *)
(* a definition can store to is a global symbol, and once a form has been    *)
(* checked every such builtin is declared, which it is only once.            *)
(***************************************************************************)
InstallInv ==
  /\ installs \subseteq declared
  /\ \A n \in installs : cell[n] # "user"
  /\ \A b \in Builtin : cell[b] = "user" => b \in declared
  /\ \A s \in stores : s.name \in env.global
  /\ phase = "check" =>
       \A b \in Builtin \ todo : b \in env.global => b \in declared

\* The steps that only generate code preserve InstallInv.
LEMMA GenerateInstall ==
  ASSUME IInv, InstallInv, phase = "gen", phase' # "check", UNCHANGED driverVars,
         env.global \subseteq env'.global,
         \A s \in stores' : s \in stores \/ s.name \in env.global
  PROVE  InstallInv'
  BY DEF InstallInv, driverVars

\* Every step preserves InstallInv and no step of it loses a definition.
LEMMA InstallStep ==
  ASSUME IInv, InstallInv, [Next]_vars
  PROVE  InstallInv' /\ \A n \in Name : cell[n] = "user" => cell'[n] = "user"
<1> USE IInvFacts
<1>1. CASE Generate /\ UNCHANGED driverVars
  <2>1. phase = "gen" /\ phase' # "check"
    BY <1>1 DEF Generate, EndFunction, EndDefine, SyntaxError, MalformedDefine, Reference,
                BeginDefine, Redefinition, BeginFunction, BadFormals, Throw, Unwind
  <2>2. env.global \subseteq env'.global
    <3>1. CASE EndFunction \/ EndDefine \/ SyntaxError \/ MalformedDefine
      BY <3>1, GlobalKept DEF EndFunction, EndDefine, SyntaxError, MalformedDefine
    <3>2. ASSUME NEW n \in Name, Reference(n) \/ BeginDefine(n) \/ Redefinition(n)
          PROVE  env.global \subseteq env'.global
      BY <3>2, SearchGrows, GlobalGrows DEF Reference, BeginDefine, Redefinition, Grows
    <3>3. ASSUME NEW fs \in FormalLists, BeginFunction(fs) \/ BadFormals(fs)
          PROVE  env.global \subseteq env'.global
      BY <3>3, GlobalKept DEF BeginFunction, BadFormals
    <3> QED
      BY <1>1, <3>1, <3>2, <3>3 DEF Generate
  <2>3. CASE EndDefine
    <3>1. /\ phase' = "gen" /\ Top.kind # "top" /\ Top.kind = "def" /\ env' = env
          /\ stores' = stores \cup {[fn |-> inserting, name |-> Top.name]}
          /\ stack' = PopBack(stack)
      BY <2>1, <2>3 DEF EndDefine
    <3>2. Top.name \in env.global
      BY <2>1, <3>1, FinishFacts
    <3> QED
      BY <1>1, <2>1, <2>2, <3>1, <3>2, GenerateInstall DEF driverVars
  <2>4. CASE ~EndDefine
    <3>1. stores' = stores
      BY <1>1, <2>4 DEF Generate, EndFunction, SyntaxError, MalformedDefine, Reference,
                        BeginDefine, Redefinition, BeginFunction, BadFormals, Throw, Unwind
    <3> QED
      BY <1>1, <2>1, <2>2, <3>1, GenerateInstall DEF driverVars
  <2> QED
    BY <2>3, <2>4
<1>2. CASE BeginForm \/ Quit \/ UNCHANGED vars
  BY <1>2 DEF BeginForm, Quit, vars, InstallInv
<1>3. CASE EndForm
  BY <1>3 DEF EndForm, InstallInv
<1>4. ASSUME NEW b \in Builtin, CheckBuiltin(b)
      PROVE  InstallInv' /\ \A n \in Name : cell[n] = "user" => cell'[n] = "user"
  <2>1. /\ env'.global = env.global /\ cell' = cell /\ stores' = stores
        /\ phase = "check" /\ phase' = "check" /\ todo' = todo \ {b}
    BY <1>4, GlobalKept DEF CheckBuiltin
  <2>2. /\ declared \subseteq declared' /\ declared' \subseteq declared \cup {b}
        /\ b \in env.global => b \in declared'
        /\ installs' \subseteq installs \cup {b}
        /\ b \in installs' => b \in installs \/ b \in declared' \ declared
    BY <1>4 DEF CheckBuiltin
  <2> QED
    BY <2>1, <2>2 DEF InstallInv
<1>5. ASSUME NEW defined \in SUBSET Name, RunForm(defined)
      PROVE  InstallInv' /\ \A n \in Name : cell[n] = "user" => cell'[n] = "user"
  <2>1. /\ phase = "check" /\ phase' # "check" /\ todo = {} /\ installs' = {}
        /\ defined \subseteq env.global
        /\ UNCHANGED <<env, stores, declared>>
    BY <1>5 DEF RunForm, InstallInv
  <2>2. \A n \in Name : cell'[n] = IF n \in defined THEN "user"
                                    ELSE IF n \in installs THEN "builtin" ELSE cell[n]
    BY <1>5 DEF RunForm
  <2>3. \A n \in Name : cell[n] = "user" => cell'[n] = "user"
    BY <2>2 DEF InstallInv
  <2>4. \A b \in Builtin : cell'[b] = "user" => b \in declared
    BY <2>1, <2>2, BuiltinAssumption DEF InstallInv
  <2> QED
    BY <2>1, <2>3, <2>4 DEF InstallInv
<1> QED
  BY <1>1, <1>2, <1>3, <1>4, <1>5 DEF Next, driverVars

(***************************************************************************)
(* No later form, and no form after a failed one, puts the builtin back in   *)
(* place of a user's definition.                                            *)
(***************************************************************************)
THEOREM DefinitionsStay == Spec => DefinitionStays
<1>1. Init => IInv /\ InstallInv
  BY InitInv, BuiltinAssumption DEF Init, InstallInv
<1>2. IInv /\ InstallInv /\ [Next]_vars => (IInv /\ InstallInv)'
  BY StepInv, InstallStep
<1>3. IInv /\ InstallInv /\ [Next]_vars =>
        [\A n \in Name : cell[n] = "user" => cell'[n] = "user"]_vars
  BY InstallStep
<1> QED
  BY <1>1, <1>2, <1>3, PTL DEF Spec, DefinitionStays
=============================================================================
