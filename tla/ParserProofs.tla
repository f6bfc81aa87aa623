---------------------------- MODULE ParserProofs ----------------------------
(***************************************************************************)
(* The parser, for every input, any nesting of lists, quotes and dots, and    *)
(* any number of forms: each datum stands for the tokens consumed for it, is  *)
(* returned before a token behind it is asked for, is a datum of the grammar, *)
(* and no datum of the grammar is refused.                                   *)
(*                                                                         *)
(* The properties speak of two recursions: Written, over the nodes, and the   *)
(* grammar, over the tokens.  Both are first shown to have a value (a node is *)
(* older than its arguments, a part of a text shorter than the text) and to   *)
(* obey their rules; Written keeps its value when a node grows that is        *)
(* nobody's argument, and no datum begins with another one.  Then three       *)
(* invariants follow: Shape, what the stacks of the activations hold;         *)
(* Spelled, that the open lists from the outermost on are the tokens read     *)
(* since the last form, and that none of them can be completed when the text  *)
(* is refused; and Finished, that what is completed is a datum.              *)
(***************************************************************************)
EXTENDS Parser, Recursion, SequenceTheorems

-----------------------------------------------------------------------------

(***************************************************************************)
(* FlattenSeq, which is defined by recursion on the length.                  *)
(***************************************************************************)
FlattenStep(F, s, j) == IF j = 1 THEN s[j] ELSE F[j - 1] \o s[j]

FlattenTable(F, s) == F = [j \in 1..Len(s) |-> FlattenStep(F, s, j)]

\* There is a table of the partial results.
LEMMA FlattenExists ==
  ASSUME NEW s, Len(s) \in Nat
  PROVE  \E F : FlattenTable(F, s)
<1> DEFINE P == {m \in Nat : \E F : \A j \in 1..m : F[j] = FlattenStep(F, s, j)}
<1>1. ASSUME NEW n \in Nat, \A m \in 0..(n - 1) : m \in P
      PROVE  n \in P
  <2>1. \E f : \A j \in 1..(n - 1) : f[j] = FlattenStep(f, s, j)
    <3>1. CASE n = 0
      BY <3>1
    <3>2. CASE n # 0
      <4>1. n - 1 \in 0..(n - 1)
        BY <3>2
      <4> QED
        BY <1>1, <4>1
    <3> QED
      BY <3>1, <3>2
  <2>2. PICK f : \A j \in 1..(n - 1) : f[j] = FlattenStep(f, s, j)
    BY <2>1
  <2> DEFINE g == [j \in 1..n |-> IF j < n THEN f[j] ELSE FlattenStep(f, s, n)]
  <2>3. /\ \A j \in 1..(n - 1) : g[j] = f[j]
        /\ n > 0 => g[n] = FlattenStep(f, s, n)
    OBVIOUS
  <2> HIDE DEF g
  <2>4. ASSUME NEW j \in 1..n PROVE g[j] = FlattenStep(g, s, j)
    <3>1. j # 1 => f[j - 1] = g[j - 1]
      BY <2>3
    <3>2. FlattenStep(f, s, j) = FlattenStep(g, s, j)
      BY <3>1 DEF FlattenStep
    <3>3. j = n => g[j] = FlattenStep(f, s, j)
      BY <2>3
    <3>4. j # n => j \in 1..(n - 1)
      OBVIOUS
    <3>5. j # n => g[j] = FlattenStep(f, s, j)
      BY <2>2, <2>3, <3>4
    <3> QED
      BY <3>2, <3>3, <3>5
  <2> QED
    BY <2>4
<1> HIDE DEF P
<1>2. Len(s) \in P
  BY <1>1, NatSetInduction
<1>3. PICK f : \A j \in 1..Len(s) : f[j] = FlattenStep(f, s, j)
  BY <1>2 DEF P
<1> DEFINE g == [j \in 1..Len(s) |-> f[j]]
<1>4. g = [j \in 1..Len(s) |-> g[j]] /\ \A j \in 1..Len(s) : g[j] = f[j]
  OBVIOUS
<1> HIDE DEF g
<1>5. ASSUME NEW j \in 1..Len(s) PROVE g[j] = FlattenStep(g, s, j)
  <2>1. j # 1 => f[j - 1] = g[j - 1]
    BY <1>4
  <2>2. FlattenStep(f, s, j) = FlattenStep(g, s, j)
    BY <2>1 DEF FlattenStep
  <2> QED
    BY <1>3, <1>4, <2>2
<1>6. FlattenTable(g, s)
  BY <1>4, <1>5, Zenon DEF FlattenTable
<1> QED
  BY <1>6

\* Two tables agree where the sequences do.
LEMMA FlattenUnique ==
  ASSUME NEW s, NEW u, Len(s) \in Nat, Len(u) \in Nat, Len(s) > 0, Len(s) <= Len(u),
         \A j \in 1..Len(s) : s[j] = u[j],
         NEW f, FlattenTable(f, s), NEW g, FlattenTable(g, u)
  PROVE  f[Len(s)] = g[Len(s)]
<1> DEFINE h == Len(s)
           P == {m \in Nat : m > 0 /\ m <= h => f[m] = g[m]}
<1>0. /\ \A j \in 1..Len(s) : f[j] = FlattenStep(f, s, j)
      /\ \A j \in 1..Len(u) : g[j] = FlattenStep(g, u, j)
  BY DEF FlattenTable
<1>1. ASSUME NEW m \in Nat, \A j \in 0..(m - 1) : j \in P
      PROVE  m \in P
  <2> SUFFICES ASSUME m > 0, m <= h PROVE f[m] = g[m]
    OBVIOUS
  <2>1. m - 1 \in P
    BY <1>1
  <2>2. m # 1 => f[m - 1] = g[m - 1]
    BY <2>1
  <2>3. FlattenStep(f, s, m) = FlattenStep(g, u, m)
    BY <2>2 DEF FlattenStep
  <2> QED
    BY <1>0, <2>3
<1> HIDE DEF P
<1>2. h \in P
  BY <1>1, NatSetInduction
<1> QED
  BY <1>2 DEF P

\* What FlattenSeq does with the empty sequence, and with one more element.
LEMMA FlattenFacts ==
  ASSUME NEW S, NEW s \in Seq(Seq(S)), NEW t \in Seq(S)
  PROVE  /\ FlattenSeq(<<>>) = <<>>
         /\ FlattenSeq(Append(s, t)) = FlattenSeq(s) \o t
<1> DEFINE T(u) == CHOOSE F : FlattenTable(F, u)
           v == Append(s, t)
<1>1. /\ v \in Seq(Seq(S)) /\ Len(v) = Len(s) + 1 /\ Len(s) \in Nat
      /\ v[Len(v)] = t /\ \A j \in 1..Len(s) : v[j] = s[j]
  OBVIOUS
<1> HIDE DEF v
<1>2. FlattenTable(T(s), s) /\ FlattenTable(T(v), v)
  BY <1>1, FlattenExists
<1>3. FlattenSeq(s) = IF Len(s) = 0 THEN s ELSE T(s)[Len(s)]
  BY DEF FlattenSeq, FlattenTable, FlattenStep
<1>4. FlattenSeq(v) = IF Len(v) = 0 THEN v ELSE T(v)[Len(v)]
  BY DEF FlattenSeq, FlattenTable, FlattenStep
<1> HIDE DEF T
<1>5. T(v)[Len(v)] = FlattenStep(T(v), v, Len(v))
  <2>1. Len(v) \in 1..Len(v)
    BY <1>1
  <2> QED
    BY <1>2, <2>1 DEF FlattenTable
<1>0. FlattenSeq(<<>>) = <<>>
  <2>1. Len(<<>>) = 0
    OBVIOUS
  <2> QED
    BY <2>1, Zenon DEF FlattenSeq
<1>6. CASE Len(s) = 0
  <2>1. FlattenSeq(s) = <<>>
    BY <1>3, <1>6
  <2>2. FlattenSeq(v) = t
    BY <1>1, <1>4, <1>5, <1>6 DEF FlattenStep
  <2> QED
    BY <1>0, <2>1, <2>2, ConcatEmptySeq DEF v
<1>7. CASE Len(s) # 0
  <2>1. T(s)[Len(s)] = T(v)[Len(s)]
    <3>1. Len(s) <= Len(v) /\ Len(s) > 0 /\ Len(v) \in Nat
          /\ \A j \in 1..Len(s) : s[j] = v[j]
      BY <1>1, <1>7
    <3> QED
      BY <1>1, <1>2, <3>1, FlattenUnique, Zenon
  <2>2. FlattenSeq(v) = T(v)[Len(s)] \o t
    BY <1>1, <1>4, <1>5, <1>7 DEF FlattenStep
  <2> QED
    BY <1>0, <1>3, <1>7, <2>1, <2>2 DEF v
<1> QED
  BY <1>6, <1>7

-----------------------------------------------------------------------------

(***************************************************************************)
(* The written form of nodes, for any table of nodes.                        *)
(***************************************************************************)
Glyph == Tokens \cup {"garbage", "quote"}

\* The texts of the nodes ids are sequences over S.
Spelt(W, ids, S) == \A k \in 1..Len(ids) : W[ids[k]] \in Seq(S)

Each(W, ids) == FlattenSeq([k \in 1..Len(ids) |-> W[ids[k]]])

Quotes(ns, ids) == ids # <<>> /\ ns[ids[1]].text = "quote"

Writing(ns, W, n) ==
  IF n = Garbage THEN <<"garbage">>
  ELSE LET x == ns[n]
       IN CASE x.text # "list" -> <<x.text>>
            [] x.text = "list" /\ x.dotted /\ x.args # <<>> ->
                 <<"(">> \o Each(W, Front(x.args)) \o <<".">> \o W[Last(x.args)] \o <<")">>
            [] x.text = "list" /\ ~x.dotted /\ x.args # <<>> /\ ns[x.args[1]].text = "quote" ->
                 <<"'">> \o Each(W, Tail(x.args))
            [] OTHER -> <<"(">> \o Each(W, x.args) \o <<")">>

Texts(ns) == LET W[m \in 0..Len(ns)] == Writing(ns, W, m) IN W

Solves(W, ns) == W = [m \in 0..Len(ns) |-> Writing(ns, W, m)]

\* Arguments are younger than their node, and only later ones are garbage.
Acyclic(ns) ==
  /\ ns \in Seq(Node)
  /\ \A n \in 1..Len(ns) : \A k \in 1..Len(ns[n].args) :
       \/ ns[n].args[k] = Garbage /\ k # 1
       \/ ns[n].args[k] \in (n + 1)..Len(ns)

\* The property's Written, as that table.
LEMMA WrittenIs ==
  ASSUME NEW n
  PROVE  Written(n) = Texts(nodes)[n]
  BY DEF Written, Texts, Writing, Each

\* The text of the arguments, one after the other.
LEMMA EachFacts ==
  ASSUME NEW S, NEW W, NEW ids \in Seq(Nat), Spelt(W, ids, S)
  PROVE  /\ Each(W, <<>>) = <<>>
         /\ \A b \in Nat : W[b] \in Seq(S) => Each(W, Append(ids, b)) = Each(W, ids) \o W[b]
<1> DEFINE s == [k \in 1..Len(ids) |-> W[ids[k]]]
<1>1. s \in Seq(Seq(S)) /\ Len(s) = Len(ids)
  <2>1. Len(ids) \in Nat
    OBVIOUS
  <2>2. s \in [1..Len(ids) -> Seq(S)]
    BY DEF Spelt
  <2> HIDE DEF s
  <2> QED
    BY <2>1, <2>2, FunctionIsSeq
<1>2. Each(W, <<>>) = <<>>
  <2>1. [k \in 1..Len(<<>>) |-> W[<<>>[k]]] = <<>>
    OBVIOUS
  <2>2. FlattenSeq(<<>>) = <<>>
    BY <1>1, FlattenFacts, EmptySeq
  <2> QED
    BY <2>1, <2>2 DEF Each
<1>3. ASSUME NEW b \in Nat, W[b] \in Seq(S)
      PROVE  Each(W, Append(ids, b)) = Each(W, ids) \o W[b]
  <2> DEFINE bs == Append(ids, b)
             u == [k \in 1..Len(bs) |-> W[bs[k]]]
  <2>1. /\ Len(bs) = Len(ids) + 1 /\ bs[Len(ids) + 1] = b /\ Len(ids) \in Nat
        /\ \A k \in 1..Len(ids) : bs[k] = ids[k]
    BY AppendProperties
  <2> HIDE DEF bs
  <2>2. u \in Seq(Seq(S)) /\ Len(u) = Len(ids) + 1
    <3>1. \A k \in 1..Len(bs) : W[bs[k]] \in Seq(S)
      <4> SUFFICES ASSUME NEW k \in 1..Len(bs) PROVE W[bs[k]] \in Seq(S)
        OBVIOUS
      <4>1. CASE k = Len(ids) + 1
        BY <1>3, <2>1, <4>1
      <4>2. CASE k # Len(ids) + 1
        <5>1. k \in 1..Len(ids)
          BY <2>1, <4>2
        <5> QED
          BY <2>1, <5>1 DEF Spelt
      <4> QED
        BY <4>1, <4>2
    <3>2. Len(bs) \in Nat /\ u \in [1..Len(bs) -> Seq(S)]
      BY <2>1, <3>1
    <3> HIDE DEF u
    <3> QED
      BY <2>1, <3>2, FunctionIsSeq
  <2>3. Append(s, W[b]) \in Seq(Seq(S)) /\ Len(Append(s, W[b])) = Len(ids) + 1
        /\ Append(s, W[b])[Len(ids) + 1] = W[b]
        /\ \A k \in 1..Len(ids) : Append(s, W[b])[k] = s[k]
    <3> HIDE DEF s
    <3> QED
      BY <1>1, <1>3, <2>1
  <2>4. ASSUME NEW k \in 1..(Len(ids) + 1) PROVE u[k] = Append(s, W[b])[k]
    <3>1. CASE k = Len(ids) + 1
      <4>1. u[k] = W[b]
        BY <2>1, <3>1
      <4> HIDE DEF u, s
      <4> QED
        BY <2>3, <3>1, <4>1
    <3>2. CASE k # Len(ids) + 1
      <4>1. k \in 1..Len(ids)
        BY <2>1, <3>2
      <4>2. u[k] = W[ids[k]] /\ s[k] = W[ids[k]]
        BY <2>1, <4>1
      <4> HIDE DEF u, s
      <4> QED
        BY <2>3, <4>1, <4>2
    <3> QED
      BY <3>1, <3>2
  <2> HIDE DEF u, s
  <2>5. u = Append(s, W[b])
    BY <2>2, <2>3, <2>4, SeqEqual
  <2>6. FlattenSeq(u) = FlattenSeq(s) \o W[b]
    BY <1>1, <1>3, <2>5, FlattenFacts
  <2> QED
    BY <2>6 DEF Each, u, s, bs
<1> QED
  BY <1>2, <1>3

\* A sequence that is not empty, by its first and by its last element.
LEMMA FrontLast ==
  ASSUME NEW S, NEW s \in Seq(S), s # <<>>
  PROVE  /\ Len(s) \in Nat \ {0}
         /\ Front(s) \in Seq(S) /\ Len(Front(s)) = Len(s) - 1
         /\ \A k \in 1..(Len(s) - 1) : Front(s)[k] = s[k]
         /\ Last(s) \in S /\ Last(s) = s[Len(s)]
         /\ s = Append(Front(s), Last(s))
<1>1. Len(s) \in Nat \ {0}
  OBVIOUS
<1>2. Last(s) \in S /\ Last(s) = s[Len(s)]
  BY <1>1 DEF Last
<1> DEFINE f == SubSeq(s, 1, Len(s) - 1)
<1>3. f \in Seq(S) /\ Len(f) = Len(s) - 1 /\ \A k \in 1..(Len(s) - 1) : f[k] = s[k]
  <2>1. \A k \in 1..(Len(s) - 1) : s[k] \in S
    BY <1>1
  <2> HIDE DEF f
  <2>2. /\ f \in Seq(S) /\ Len(f) = IF 1 <= Len(s) - 1 THEN (Len(s) - 1) - 1 + 1 ELSE 0
        /\ \A k \in 1..((Len(s) - 1) - 1 + 1) : f[k] = s[1 + k - 1]
    BY <1>1, <2>1, SubSeqProperties DEF f
  <2>3. \A k \in 1..(Len(s) - 1) : k \in 1..((Len(s) - 1) - 1 + 1) /\ 1 + k - 1 = k
    BY <1>1
  <2>4. \A k \in 1..(Len(s) - 1) : f[k] = s[k]
    BY <2>2, <2>3
  <2>5. Len(f) = Len(s) - 1
    <3>1. Len(f) = IF 1 <= Len(s) - 1 THEN (Len(s) - 1) - 1 + 1 ELSE 0
      BY <2>2
    <3>2. ASSUME NEW n \in Nat \ {0}
          PROVE  n - 1 = IF 1 <= n - 1 THEN (n - 1) - 1 + 1 ELSE 0
      OBVIOUS
    <3> QED
      BY <1>1, <3>1, <3>2, Zenon
  <2> QED
    BY <2>2, <2>4, <2>5
<1>4. Front(s) = f
  BY DEF Front
<1> HIDE DEF f
<1>5. s = Append(f, Last(s))
  <2>1. Append(f, Last(s)) \in Seq(S) /\ Len(Append(f, Last(s))) = Len(s)
    BY <1>1, <1>2, <1>3
  <2>2. \A k \in 1..Len(s) : s[k] = Append(f, Last(s))[k]
    BY <1>1, <1>2, <1>3
  <2> QED
    BY <2>1, <2>2, SeqEqual
<1> QED
  BY <1>1, <1>2, <1>3, <1>4, <1>5

\* Each yields a sequence of glyphs.
LEMMA EachIn ==
  ASSUME NEW S, NEW W, NEW ids \in Seq(Nat), Spelt(W, ids, S)
  PROVE  Each(W, ids) \in Seq(S)
<1> DEFINE P == {m \in Nat : \A bs \in Seq(Nat) :
                   Len(bs) = m /\ Spelt(W, bs, S)
                     => Each(W, bs) \in Seq(S)}
<1> HIDE DEF P
<1>1. ASSUME NEW m \in Nat, \A n \in 0..(m - 1) : n \in P
      PROVE  m \in P
  <2> SUFFICES ASSUME NEW bs \in Seq(Nat), Len(bs) = m,
                      Spelt(W, bs, S)
               PROVE  Each(W, bs) \in Seq(S)
    BY DEF P
  <2>1. CASE bs = <<>>
    <3>1. Each(W, <<>>) = <<>>
      BY <2>1, EachFacts
    <3> QED
      BY <2>1, <3>1, EmptySeq
  <2>2. CASE bs # <<>>
    <3> DEFINE cs == Front(bs)
               b == Last(bs)
    <3>1. /\ cs \in Seq(Nat) /\ Len(cs) = m - 1 /\ m > 0
          /\ \A k \in 1..(m - 1) : cs[k] = bs[k]
          /\ b \in Nat /\ b = bs[m] /\ bs = Append(cs, b)
      <4>1. /\ Len(bs) \in Nat \ {0}
            /\ cs \in Seq(Nat) /\ Len(cs) = Len(bs) - 1
            /\ \A k \in 1..(Len(bs) - 1) : cs[k] = bs[k]
            /\ b \in Nat /\ b = bs[Len(bs)] /\ bs = Append(cs, b)
        BY <2>2, FrontLast
      <4> HIDE DEF cs, b
      <4> QED
        BY <4>1
    <3> HIDE DEF cs, b
    <3>2. Spelt(W, cs, S) /\ W[b] \in Seq(S)
      BY <3>1 DEF Spelt
    <3>3. Each(W, cs) \in Seq(S)
      <4>1. m - 1 \in P
        BY <1>1, <3>1
      <4> QED
        BY <3>1, <3>2, <4>1 DEF P
    <3>4. Each(W, bs) = Each(W, cs) \o W[b]
      <4>1. cs \in Seq(Nat) /\ Spelt(W, cs, S) /\ b \in Nat /\ W[b] \in Seq(S)
        BY <3>1, <3>2
      <4>2. Each(W, Append(cs, b)) = Each(W, cs) \o W[b]
        BY <4>1, EachFacts
      <4> QED
        BY <3>1, <4>2, Zenon
    <3> QED
      BY <3>2, <3>3, <3>4, ConcatProperties
  <2> QED
    BY <2>1, <2>2
<1>2. Len(ids) \in P
  BY <1>1, NatSetInduction
<1> QED
  BY <1>2 DEF P

\* Each depends on the texts of the arguments only.
LEMMA EachSame ==
  ASSUME NEW W, NEW U, NEW ids, \A k \in 1..Len(ids) : W[ids[k]] = U[ids[k]]
  PROVE  Each(W, ids) = Each(U, ids)
<1>1. [k \in 1..Len(ids) |-> W[ids[k]]] = [k \in 1..Len(ids) |-> U[ids[k]]]
  OBVIOUS
<1> QED
  BY <1>1 DEF Each

-----------------------------------------------------------------------------

\* What the arguments of a node are.
LEMMA ArgsFacts ==
  ASSUME NEW ns, Acyclic(ns), NEW n \in 1..Len(ns)
  PROVE  /\ ns[n] \in Node /\ ns[n].args \in Seq(Nat) /\ Len(ns) \in Nat
         /\ ns[n].text \in Atom \cup {"quote", "list"}
         /\ \A k \in 1..Len(ns[n].args) : ns[n].args[k] \in {0} \cup ((n + 1)..Len(ns))
         /\ ns[n].args # <<>> => ns[n].args[1] \in (n + 1)..Len(ns)
<1>1. ns[n] \in Node /\ Len(ns) \in Nat
  BY DEF Acyclic
<1>2. ns[n].args \in Seq(Nat) /\ ns[n].text \in Atom \cup {"quote", "list"}
  BY <1>1 DEF Node
<1>3. \A k \in 1..Len(ns[n].args) : \/ ns[n].args[k] = 0 /\ k # 1
                                    \/ ns[n].args[k] \in (n + 1)..Len(ns)
  BY DEF Acyclic, Garbage
<1>4. ns[n].args # <<>> => 1 \in 1..Len(ns[n].args)
  BY <1>2
<1> QED
  BY <1>1, <1>2, <1>3, <1>4

\* A sequence without its first element.
LEMMA TailFacts ==
  ASSUME NEW S, NEW s \in Seq(S), s # <<>>
  PROVE  Tail(s) \in Seq(S) /\ Len(Tail(s)) = Len(s) - 1
         /\ \A k \in 1..(Len(s) - 1) : Tail(s)[k] = s[k + 1]
  OBVIOUS

\* If the texts of all arguments are sequences, so are those of a part of them.
LEMMA SpeltParts ==
  ASSUME NEW S, NEW W, NEW ids \in Seq(Nat), Spelt(W, ids, S), ids # <<>>
  PROVE  /\ Spelt(W, Front(ids), S) /\ W[Last(ids)] \in Seq(S)
         /\ Spelt(W, Tail(ids), S)
<1>1. /\ Len(ids) \in Nat \ {0}
      /\ Front(ids) \in Seq(Nat) /\ Len(Front(ids)) = Len(ids) - 1
      /\ \A k \in 1..(Len(ids) - 1) : Front(ids)[k] = ids[k]
      /\ Last(ids) = ids[Len(ids)]
  BY FrontLast
<1>2. Len(Tail(ids)) = Len(ids) - 1 /\ \A k \in 1..(Len(ids) - 1) : Tail(ids)[k] = ids[k + 1]
  BY TailFacts
<1>3. ASSUME NEW k \in 1..(Len(ids) - 1)
      PROVE  W[Front(ids)[k]] \in Seq(S) /\ W[Tail(ids)[k]] \in Seq(S)
  <2>1. k \in 1..Len(ids) /\ k + 1 \in 1..Len(ids)
    BY <1>1
  <2>2. Front(ids)[k] = ids[k] /\ Tail(ids)[k] = ids[k + 1]
    BY <1>1, <1>2
  <2>3. W[ids[k]] \in Seq(S) /\ W[ids[k + 1]] \in Seq(S)
    BY <2>1 DEF Spelt
  <2> QED
    BY <2>2, <2>3
<1>4. W[Last(ids)] \in Seq(S)
  <2>1. Len(ids) \in 1..Len(ids)
    BY <1>1
  <2> QED
    BY <1>1, <2>1 DEF Spelt
<1> QED
  BY <1>1, <1>2, <1>3, <1>4 DEF Spelt

\* Two tables that agree on the arguments.
Agree(W, U, ids) == \A k \in 1..Len(ids) : W[ids[k]] = U[ids[k]]

\* Tables that agree on the arguments give the same text of them, and of parts of them.
LEMMA AgreeParts ==
  ASSUME NEW W, NEW U, NEW ids \in Seq(Nat), Agree(W, U, ids)
  PROVE  /\ Each(W, ids) = Each(U, ids)
         /\ ids # <<>> => /\ Each(W, Front(ids)) = Each(U, Front(ids))
                          /\ W[Last(ids)] = U[Last(ids)]
                          /\ Each(W, Tail(ids)) = Each(U, Tail(ids))
<1>1. Each(W, ids) = Each(U, ids)
  BY EachSame DEF Agree
<1> SUFFICES ASSUME ids # <<>>
             PROVE  /\ Each(W, Front(ids)) = Each(U, Front(ids))
                    /\ W[Last(ids)] = U[Last(ids)]
                    /\ Each(W, Tail(ids)) = Each(U, Tail(ids))
  BY <1>1
<1>2. /\ Len(ids) \in Nat \ {0}
      /\ Len(Front(ids)) = Len(ids) - 1
      /\ \A k \in 1..(Len(ids) - 1) : Front(ids)[k] = ids[k]
      /\ Last(ids) = ids[Len(ids)]
  BY FrontLast
<1>3. Len(Tail(ids)) = Len(ids) - 1 /\ \A k \in 1..(Len(ids) - 1) : Tail(ids)[k] = ids[k + 1]
  BY TailFacts
<1>4. ASSUME NEW k \in 1..(Len(ids) - 1)
      PROVE  W[Front(ids)[k]] = U[Front(ids)[k]] /\ W[Tail(ids)[k]] = U[Tail(ids)[k]]
  <2>1. k \in 1..Len(ids) /\ k + 1 \in 1..Len(ids)
    BY <1>2
  <2>2. Front(ids)[k] = ids[k] /\ Tail(ids)[k] = ids[k + 1]
    BY <1>2, <1>3
  <2>3. W[ids[k]] = U[ids[k]] /\ W[ids[k + 1]] = U[ids[k + 1]]
    BY <2>1 DEF Agree
  <2> QED
    BY <2>2, <2>3
<1>5. W[Last(ids)] = U[Last(ids)]
  <2>1. Len(ids) \in 1..Len(ids)
    BY <1>2
  <2> QED
    BY <1>2, <2>1 DEF Agree
<1>6. Each(W, Front(ids)) = Each(U, Front(ids))
  BY <1>2, <1>4, EachSame
<1>7. Each(W, Tail(ids)) = Each(U, Tail(ids))
  <2> DEFINE t == Tail(ids)
  <2>1. Len(t) = Len(ids) - 1 /\ \A k \in 1..(Len(ids) - 1) : W[t[k]] = U[t[k]]
    BY <1>3, <1>4
  <2> HIDE DEF t
  <2>2. Each(W, t) = Each(U, t)
    BY <2>1, EachSame
  <2> QED
    BY <2>2 DEF t
<1> QED
  BY <1>5, <1>6, <1>7

(***************************************************************************)
(* The form of one node: it is a sequence if the texts of the arguments are,  *)
(* and depends on the node, the first text and the texts of the arguments.   *)
(***************************************************************************)
LEMMA WritingIn ==
  ASSUME NEW ns, Acyclic(ns), NEW n \in 0..Len(ns), NEW W,
         n # 0 => Spelt(W, ns[n].args, Glyph)
  PROVE  Writing(ns, W, n) \in Seq(Glyph)
<1>1. "garbage" \in Glyph /\ "(" \in Glyph /\ ")" \in Glyph /\ "." \in Glyph /\ "'" \in Glyph
      /\ Atom \cup {"quote"} \subseteq Glyph
  BY DEF Glyph, Tokens
<1>2. CASE n = 0
  <2>1. Writing(ns, W, n) = <<"garbage">>
    BY <1>2 DEF Writing, Garbage
  <2> QED
    BY <1>1, <2>1
<1>3. CASE n # 0
  <2> DEFINE x == ns[n]
  <2>1. n \in 1..Len(ns)
    BY <1>3 DEF Acyclic
  <2>2. x.args \in Seq(Nat) /\ x.text \in Atom \cup {"quote", "list"}
    BY <2>1, ArgsFacts
  <2>3. Spelt(W, x.args, Glyph)
    BY <1>3
  <2> DEFINE e == Each(W, x.args)
             f == Each(W, Front(x.args))
             t == Each(W, Tail(x.args))
             l == W[Last(x.args)]
  <2>4. e \in Seq(Glyph)
    BY <2>2, <2>3, EachIn
  <2>5. ASSUME x.args # <<>>
        PROVE  f \in Seq(Glyph) /\ t \in Seq(Glyph) /\ l \in Seq(Glyph)
    <3>1. Spelt(W, Front(x.args), Glyph) /\ l \in Seq(Glyph) /\ Spelt(W, Tail(x.args), Glyph)
      BY <2>2, <2>3, <2>5, SpeltParts
    <3>2. Front(x.args) \in Seq(Nat)
      BY <2>2, <2>5, FrontLast
    <3>3. Tail(x.args) \in Seq(Nat)
      BY <2>2, <2>5, TailFacts
    <3> HIDE DEF x
    <3> QED
      BY <3>1, <3>2, <3>3, EachIn
  <2>6. Writing(ns, W, n) =
          CASE x.text # "list" -> <<x.text>>
            [] x.text = "list" /\ x.dotted /\ x.args # <<>> ->
                 <<"(">> \o f \o <<".">> \o l \o <<")">>
            [] x.text = "list" /\ ~x.dotted /\ x.args # <<>> /\ ns[x.args[1]].text = "quote" ->
                 <<"'">> \o t
            [] OTHER -> <<"(">> \o e \o <<")">>
    BY <1>3 DEF Writing, Garbage
  <2> HIDE DEF e, f, t, l, x
  <2>7. CASE x.text # "list"
    BY <1>1, <2>2, <2>6, <2>7
  <2>8. CASE x.text = "list" /\ x.dotted /\ x.args # <<>>
    <3>1. Writing(ns, W, n) = <<"(">> \o f \o <<".">> \o l \o <<")">>
      BY <2>6, <2>8
    <3> QED
      BY <1>1, <2>5, <2>8, <3>1
  <2>9. CASE x.text = "list" /\ ~x.dotted /\ x.args # <<>> /\ ns[x.args[1]].text = "quote"
    <3>1. Writing(ns, W, n) = <<"'">> \o t
      BY <2>6, <2>9
    <3> QED
      BY <1>1, <2>5, <2>9, <3>1
  <2>10. CASE /\ x.text = "list" /\ ~(x.dotted /\ x.args # <<>>)
              /\ ~(~x.dotted /\ x.args # <<>> /\ ns[x.args[1]].text = "quote")
    <3>1. Writing(ns, W, n) = <<"(">> \o e \o <<")">>
      BY <2>6, <2>10
    <3> QED
      BY <1>1, <2>4, <3>1
  <2> QED
    BY <2>7, <2>8, <2>9, <2>10
<1> QED
  BY <1>2, <1>3

\* What is written of a node depends on the node and on the texts of its arguments.
LEMMA WritingSame ==
  ASSUME NEW ns, NEW ms, NEW n, NEW W, NEW U,
         n # 0 => /\ ms[n] = ns[n] /\ ns[n].args \in Seq(Nat)
                  /\ ns[n].args # <<>> => ms[ns[n].args[1]].text = ns[ns[n].args[1]].text
                  /\ Agree(W, U, ns[n].args)
  PROVE  Writing(ns, W, n) = Writing(ms, U, n)
<1>1. CASE n = 0
  BY <1>1 DEF Writing, Garbage
<1>2. CASE n # 0
  <2> DEFINE x == ns[n]
  <2>1. /\ Each(W, x.args) = Each(U, x.args)
        /\ x.args # <<>> => /\ Each(W, Front(x.args)) = Each(U, Front(x.args))
                            /\ W[Last(x.args)] = U[Last(x.args)]
                            /\ Each(W, Tail(x.args)) = Each(U, Tail(x.args))
    BY <1>2, AgreeParts
  <2> QED
    BY <1>2, <2>1 DEF Writing, Garbage
<1> QED
  BY <1>1, <1>2

-----------------------------------------------------------------------------

\* The texts of the last m nodes are known.
Solved(ns, W, m) ==
  /\ W \in [0..Len(ns) -> Seq(Glyph)]
  /\ W[0] = <<"garbage">>
  /\ \A n \in (Len(ns) - m + 1)..Len(ns) : W[n] = Writing(ns, W, n)

\* One more text, that of node x, from those of younger nodes.
LEMMA SolveOne ==
  ASSUME NEW ns, Acyclic(ns), NEW x \in 1..Len(ns), NEW W, Solved(ns, W, Len(ns) - x)
  PROVE  \E U : Solved(ns, U, Len(ns) - x + 1)
<1> DEFINE L == Len(ns)
           U == [W EXCEPT ![x] = Writing(ns, W, x)]
<1>1. L \in Nat
  BY DEF Acyclic
<1>2. /\ W \in [0..L -> Seq(Glyph)] /\ W[0] = <<"garbage">>
      /\ \A n \in (x + 1)..L : W[n] = Writing(ns, W, n)
  BY <1>1 DEF Solved
<1>3. Writing(ns, W, x) \in Seq(Glyph)
  <2>1. \A k \in 1..Len(ns[x].args) : ns[x].args[k] \in 0..L
    BY <1>1, ArgsFacts
  <2>2. Spelt(W, ns[x].args, Glyph)
    BY <1>2, <2>1 DEF Spelt
  <2> QED
    BY <1>1, <2>2, WritingIn
<1>4. /\ U \in [0..L -> Seq(Glyph)] /\ U[0] = <<"garbage">>
      /\ U[x] = Writing(ns, W, x) /\ \A n \in 0..L : n # x => U[n] = W[n]
  BY <1>1, <1>2, <1>3
<1> HIDE DEF U
<1>5. ASSUME NEW n \in x..L PROVE Writing(ns, W, n) = Writing(ns, U, n)
  <2>1. /\ ns[n].args \in Seq(Nat)
        /\ \A k \in 1..Len(ns[n].args) : ns[n].args[k] \in {0} \cup ((n + 1)..L)
    BY <1>1, ArgsFacts
  <2>2. \A k \in 1..Len(ns[n].args) : ns[n].args[k] \in 0..L /\ ns[n].args[k] # x
    BY <1>1, <2>1
  <2>3. Agree(W, U, ns[n].args)
    BY <1>4, <2>2 DEF Agree
  <2> QED
    BY <2>1, <2>3, WritingSame
<1>6. ASSUME NEW n \in x..L PROVE U[n] = Writing(ns, U, n)
  <2>1. CASE n = x
    BY <1>1, <1>4, <1>5, <2>1
  <2>2. CASE n # x
    <3>1. n \in (x + 1)..L /\ n \in 0..L
      BY <1>1, <2>2
    <3> QED
      BY <1>2, <1>4, <1>5, <2>2, <3>1
  <2> QED
    BY <2>1, <2>2
<1>7. L - (L - x + 1) + 1 = x
  BY <1>1
<1> QED
  BY <1>4, <1>6, <1>7 DEF Solved

\* The recursion of Written has a solution, and Texts is one.
LEMMA TextsFacts ==
  ASSUME NEW ns, Acyclic(ns)
  PROVE  /\ Texts(ns) \in [0..Len(ns) -> Seq(Glyph)]
         /\ Texts(ns)[0] = <<"garbage">>
         /\ \A n \in 0..Len(ns) : Texts(ns)[n] = Writing(ns, Texts(ns), n)
<1> DEFINE L == Len(ns)
           P == {m \in Nat : m <= L => \E U : Solved(ns, U, m)}
<1>1. L \in Nat
  BY DEF Acyclic
<1> HIDE DEF P
<1>2. ASSUME NEW m \in Nat, \A n \in 0..(m - 1) : n \in P
      PROVE  m \in P
  <2> SUFFICES ASSUME m <= L PROVE \E U : Solved(ns, U, m)
    BY DEF P
  <2>1. CASE m = 0
    <3> DEFINE U == [n \in 0..L |-> <<"garbage">>]
    <3>1. U \in [0..L -> Seq(Glyph)] /\ U[0] = <<"garbage">>
      <4>1. <<"garbage">> \in Seq(Glyph)
        BY DEF Glyph
      <4> QED
        BY <1>1, <4>1
    <3> HIDE DEF U
    <3>2. (L - m + 1)..L = {}
      BY <1>1, <2>1
    <3> QED
      BY <3>1, <3>2 DEF Solved
  <2>2. CASE m # 0
    <3> DEFINE x == L - m + 1
    <3>1. x \in 1..L /\ L - x = m - 1 /\ L - x + 1 = m
      BY <1>1, <2>2
    <3>2. m - 1 \in P
      BY <1>2, <2>2
    <3>3. PICK W : Solved(ns, W, m - 1)
      BY <1>1, <2>2, <3>2 DEF P
    <3> HIDE DEF x
    <3>4. Solved(ns, W, L - x)
      BY <3>1, <3>3
    <3>5. \E U : Solved(ns, U, L - x + 1)
      BY <3>1, <3>4, SolveOne
    <3> QED
      BY <3>1, <3>5
  <2> QED
    BY <2>1, <2>2
<1>3. L \in P
  BY <1>1, <1>2, NatSetInduction
<1>4. PICK U : Solved(ns, U, L)
  BY <1>1, <1>3 DEF P
<1>5. ASSUME NEW n \in 0..L PROVE U[n] = Writing(ns, U, n)
  <2>1. CASE n = 0
    BY <1>4, <2>1 DEF Solved, Writing, Garbage
  <2>2. CASE n # 0
    <3>1. n \in (L - L + 1)..L
      BY <1>1, <2>2
    <3> QED
      BY <1>4, <3>1 DEF Solved
  <2> QED
    BY <2>1, <2>2
<1>6. U = [m \in 0..L |-> Writing(ns, U, m)]
  BY <1>4, <1>5 DEF Solved
<1>7. Texts(ns) = CHOOSE W : Solves(W, ns)
  BY DEF Texts, Solves
<1>8. Solves(Texts(ns), ns)
  BY <1>6, <1>7, Zenon DEF Solves
<1> DEFINE T == Texts(ns)
<1>9. T = [m \in 0..L |-> T[m]] /\ \A n \in 0..L : T[n] = Writing(ns, T, n)
  BY <1>8 DEF Solves
<1> HIDE DEF T
<1>12. T[0] = <<"garbage">>
  <2>1. 0 \in 0..L
    BY <1>1
  <2>2. Writing(ns, T, 0) = <<"garbage">>
    BY DEF Writing, Garbage
  <2> QED
    BY <1>9, <2>1, <2>2
<1> DEFINE Q == {m \in Nat : m <= L => T[L - m] \in Seq(Glyph)}
<1> HIDE DEF Q
<1>10. ASSUME NEW m \in Nat, \A n \in 0..(m - 1) : n \in Q
       PROVE  m \in Q
  <2> SUFFICES ASSUME m <= L PROVE T[L - m] \in Seq(Glyph)
    BY DEF Q
  <2> DEFINE x == L - m
  <2>1. x \in 0..L
    BY <1>1
  <2>2. ASSUME NEW k \in (x + 1)..L PROVE T[k] \in Seq(Glyph)
    <3>1. L - k \in 0..(m - 1) /\ L - (L - k) = k /\ L - k <= L
      BY <1>1
    <3>2. L - k \in Q
      BY <1>10, <3>1
    <3> QED
      BY <3>1, <3>2 DEF Q
  <2>4. x # 0 => Spelt(T, ns[x].args, Glyph)
    <3> SUFFICES ASSUME x # 0 PROVE Spelt(T, ns[x].args, Glyph)
      OBVIOUS
    <3>0. x \in 1..L
      BY <2>1
    <3> HIDE DEF x
    <3>1. \A k \in 1..Len(ns[x].args) : ns[x].args[k] \in {0} \cup ((x + 1)..L)
      BY <3>0, ArgsFacts
    <3>2. T[0] \in Seq(Glyph)
      BY <1>12 DEF Glyph
    <3> QED
      BY <2>2, <3>1, <3>2 DEF Spelt
  <2> HIDE DEF x
  <2>5. Writing(ns, T, x) \in Seq(Glyph)
    BY <2>1, <2>4, WritingIn
  <2>6. T[x] \in Seq(Glyph)
    BY <1>9, <2>1, <2>5
  <2> QED
    BY <2>6 DEF x
<1>11. ASSUME NEW n \in 0..L PROVE T[n] \in Seq(Glyph)
  <2>1. \A m \in Nat : m \in Q
    BY <1>10, NatSetInduction
  <2>2. L - n \in Nat /\ L - n <= L /\ L - (L - n) = n
    BY <1>1
  <2> QED
    BY <2>1, <2>2 DEF Q
<1> QED
  BY <1>9, <1>11, <1>12 DEF T

\* No node has one of the nodes O among its arguments.
Unshared(ns, O) == \A n \in 1..Len(ns) : \A k \in 1..Len(ns[n].args) : ns[n].args[k] \notin O

\* From ns to ms, only node x has changed, and not its text; there may be new ones.
Grown(ns, ms, x) ==
  /\ Len(ns) <= Len(ms)
  /\ \A n \in 1..Len(ns) : ms[n].text = ns[n].text /\ (n # x => ms[n] = ns[n])

\* The text of a node changes only with the node and with those below it.
LEMMA TextsStable ==
  ASSUME NEW ns, Acyclic(ns), NEW ms, Acyclic(ms), NEW x, x # 0, Grown(ns, ms, x),
         Unshared(ns, {x})
  PROVE  \A n \in 0..Len(ns) : n # x => Texts(ms)[n] = Texts(ns)[n]
<1> DEFINE L == Len(ns)
           W == Texts(ns)
           U == Texts(ms)
           P == {m \in Nat : m <= L /\ L - m # x => U[L - m] = W[L - m]}
<1>1. L \in Nat /\ Len(ms) \in Nat /\ L <= Len(ms)
  BY DEF Acyclic, Grown
<1>2. /\ W[0] = <<"garbage">> /\ U[0] = <<"garbage">>
      /\ \A n \in 0..L : W[n] = Writing(ns, W, n)
      /\ \A n \in 0..Len(ms) : U[n] = Writing(ms, U, n)
  BY TextsFacts
<1> HIDE DEF P, W, U
<1>3. ASSUME NEW m \in Nat, \A n \in 0..(m - 1) : n \in P
      PROVE  m \in P
  <2> SUFFICES ASSUME m <= L, L - m # x PROVE U[L - m] = W[L - m]
    BY DEF P
  <2> DEFINE n == L - m
  <2>1. n \in 0..L /\ n # x
    BY <1>1
  <2>2. ASSUME NEW k \in (n + 1)..L, k # x PROVE U[k] = W[k]
    <3>1. L - k \in 0..(m - 1) /\ L - (L - k) = k /\ L - k <= L
      BY <1>1
    <3>2. L - k \in P
      BY <1>3, <3>1
    <3> QED
      BY <2>2, <3>1, <3>2 DEF P
  <2> HIDE DEF n
  <2>3. ASSUME n # 0
        PROVE  /\ ms[n] = ns[n] /\ ns[n].args \in Seq(Nat)
               /\ ns[n].args # <<>> => ms[ns[n].args[1]].text = ns[ns[n].args[1]].text
               /\ Agree(W, U, ns[n].args)
    <3>1. n \in 1..L
      BY <2>1, <2>3
    <3>2. /\ ns[n].args \in Seq(Nat)
          /\ \A k \in 1..Len(ns[n].args) : ns[n].args[k] \in {0} \cup ((n + 1)..L)
          /\ ns[n].args # <<>> => ns[n].args[1] \in (n + 1)..L
      BY <3>1, ArgsFacts
    <3>3. ms[n] = ns[n]
      BY <2>1, <3>1 DEF Grown
    <3>4. \A k \in 1..Len(ns[n].args) : ns[n].args[k] # x
      BY <3>1 DEF Unshared
    <3>5. Agree(W, U, ns[n].args)
      BY <1>2, <2>2, <3>2, <3>4 DEF Agree
    <3>6. ns[n].args # <<>> => ns[n].args[1] \in 1..L
      BY <3>1, <3>2
    <3>7. ns[n].args # <<>> => ms[ns[n].args[1]].text = ns[ns[n].args[1]].text
      BY <3>6 DEF Grown
    <3> QED
      BY <3>2, <3>3, <3>5, <3>7
  <2>4. Writing(ns, W, n) = Writing(ms, U, n)
    BY <2>3, WritingSame
  <2>5. U[n] = W[n]
    BY <1>1, <1>2, <2>1, <2>4
  <2> QED
    BY <2>5 DEF n
<1>4. \A m \in Nat : m \in P
  BY <1>3, NatSetInduction
<1>5. ASSUME NEW n \in 0..L, n # x PROVE U[n] = W[n]
  <2>1. L - n \in Nat /\ L - n <= L /\ L - (L - n) = n
    BY <1>1
  <2> QED
    BY <1>4, <1>5, <2>1 DEF P
<1> QED
  BY <1>5 DEF U, W

-----------------------------------------------------------------------------

(***************************************************************************)
(* The open lists: what the stacks of the activations hold.  A list is        *)
(* younger than the lists around it, in the same activation or before it.     *)
(***************************************************************************)
Elems(s) == {s[j] : j \in 1..Len(s)}

Open(cs) == UNION {Elems(cs[i].stk) : i \in 1..Len(cs)}

Before(X, Y) == \A x \in X : \A y \in Y : x < y

Increasing(s) == \A i, j \in 1..Len(s) : i < j => s[i] < s[j]

Ordered(cs) ==
  /\ \A i \in 1..Len(cs) : Increasing(cs[i].stk)
  /\ \A i, j \in 1..Len(cs) : i < j => Before(Elems(cs[i].stk), Elems(cs[j].stk))

\* An open list that only takes arguments.
Plain(ns, x) == ns[x].text = "list" /\ ~ns[x].dotted /\ ~Quotes(ns, ns[x].args)

PlainAll(ns, s) == \A j \in 1..Len(s) : Plain(ns, s[j])

\* The innermost list of an activation that waits for another one.
Half(ns, x, why) ==
  /\ ns[x].text = "list"
  /\ \/ why = "quote" /\ ~ns[x].dotted /\ Len(ns[x].args) = 1 /\ Quotes(ns, ns[x].args)
     \/ why = "dot" /\ ns[x].dotted

Waits(ns, c) == c.stk # <<>> /\ PlainAll(ns, Front(c.stk)) /\ Half(ns, Last(c.stk), c.wait)

AllWait(ns, cs) == \A i \in 1..Len(cs) : Waits(ns, cs[i])

Runs(ns, c) == c.wait = "none" /\ PlainAll(ns, c.stk)

Shape ==
  /\ Acyclic(nodes)
  /\ Ordered(calls)
  /\ Open(calls) \subseteq 1..Len(nodes)
  /\ Unshared(nodes, Open(calls))
  /\ \A k \in 1..Len(forms) : forms[k].node \in (0..Len(nodes)) \ Open(calls)
  /\ pc = "parse" => calls # <<>> /\ AllWait(nodes, Front(calls)) /\ Runs(nodes, Last(calls))
  /\ pc = "return" => /\ AllWait(nodes, calls)
                      /\ IF ret = Garbage THEN pos = Len(input) ELSE Before(Open(calls), {ret})
  /\ pc \in {"main", "exit"} => calls = <<>>

-----------------------------------------------------------------------------

\* Sequences of open lists, by their last element.
LEMMA ElemsFacts ==
  /\ Elems(<<>>) = {} /\ Increasing(<<>>)
  /\ \A s \in Seq(Nat \ {0}), x \in Nat \ {0} :
       /\ Elems(Append(s, x)) = Elems(s) \cup {x}
       /\ Increasing(Append(s, x)) <=> Increasing(s) /\ Before(Elems(s), {x})
<1>1. Elems(<<>>) = {} /\ Increasing(<<>>)
  BY DEF Elems, Increasing
<1>2. ASSUME NEW s \in Seq(Nat \ {0}), NEW x \in Nat \ {0}
      PROVE  /\ Elems(Append(s, x)) = Elems(s) \cup {x}
             /\ Increasing(Append(s, x)) <=> Increasing(s) /\ Before(Elems(s), {x})
  <2> DEFINE t == Append(s, x)
  <2>1. /\ Len(t) = Len(s) + 1 /\ Len(s) \in Nat /\ t[Len(s) + 1] = x
        /\ \A j \in 1..Len(s) : t[j] = s[j]
    BY AppendProperties
  <2> HIDE DEF t
  <2>2. Elems(t) = Elems(s) \cup {x}
    BY <2>1 DEF Elems
  <2>3. ASSUME Increasing(t) PROVE Increasing(s) /\ Before(Elems(s), {x})
    <3>1. Increasing(s)
      BY <2>1, <2>3 DEF Increasing
    <3>2. ASSUME NEW j \in 1..Len(s) PROVE s[j] < x
      <4>1. j \in 1..Len(t) /\ Len(s) + 1 \in 1..Len(t) /\ j < Len(s) + 1
        BY <2>1
      <4>2. t[j] < t[Len(s) + 1]
        BY <2>3, <4>1 DEF Increasing
      <4> QED
        BY <2>1, <4>2
    <3> QED
      BY <3>1, <3>2 DEF Before, Elems
  <2>4. ASSUME Increasing(s), Before(Elems(s), {x}) PROVE Increasing(t)
    <3> SUFFICES ASSUME NEW i \in 1..Len(t), NEW j \in 1..Len(t), i < j PROVE t[i] < t[j]
      BY DEF Increasing
    <3>1. i \in 1..Len(s)
      BY <2>1
    <3>2. CASE j = Len(s) + 1
      <4>1. s[i] \in Elems(s)
        BY <3>1 DEF Elems
      <4> QED
        BY <2>1, <2>4, <3>1, <3>2, <4>1 DEF Before
    <3>3. CASE j # Len(s) + 1
      <4>1. j \in 1..Len(s)
        BY <2>1, <3>3
      <4> QED
        BY <2>1, <2>4, <3>1, <4>1 DEF Increasing
    <3> QED
      BY <3>2, <3>3
  <2> QED
    BY <2>2, <2>3, <2>4 DEF t
<1> QED
  BY <1>1, <1>2

\* Activations, by the last of them.
LEMMA OpenFacts ==
  /\ Open(<<>>) = {} /\ Ordered(<<>>) /\ \A ns : AllWait(ns, <<>>)
  /\ \A cs \in Seq(Call), c \in Call :
       /\ Open(Append(cs, c)) = Open(cs) \cup Elems(c.stk)
       /\ Ordered(Append(cs, c)) <=>
            Ordered(cs) /\ Increasing(c.stk) /\ Before(Open(cs), Elems(c.stk))
       /\ \A ns : AllWait(ns, Append(cs, c)) <=> AllWait(ns, cs) /\ Waits(ns, c)
<1>1. Open(<<>>) = {} /\ Ordered(<<>>) /\ \A ns : AllWait(ns, <<>>)
  BY DEF Open, Ordered, AllWait
<1>2. ASSUME NEW cs \in Seq(Call), NEW c \in Call
      PROVE  /\ Open(Append(cs, c)) = Open(cs) \cup Elems(c.stk)
             /\ Ordered(Append(cs, c)) <=>
                  Ordered(cs) /\ Increasing(c.stk) /\ Before(Open(cs), Elems(c.stk))
             /\ \A ns : AllWait(ns, Append(cs, c)) <=> AllWait(ns, cs) /\ Waits(ns, c)
  <2> DEFINE t == Append(cs, c)
             L == Len(cs)
  <2>1. /\ Len(t) = L + 1 /\ L \in Nat /\ t[L + 1] = c
        /\ \A j \in 1..L : t[j] = cs[j]
    BY AppendProperties
  <2> HIDE DEF t, L
  <2>2. 1..Len(t) = (1..L) \cup {L + 1}
    BY <2>1
  <2>3. ASSUME NEW y
        PROVE  y \in Open(t) <=> y \in Open(cs) \/ y \in Elems(c.stk)
    <3>1. y \in Open(t) <=> \E i \in 1..Len(t) : y \in Elems(t[i].stk)
      BY DEF Open
    <3>2. y \in Open(cs) <=> \E i \in 1..L : y \in Elems(cs[i].stk)
      BY DEF Open, L
    <3> QED
      BY <2>1, <2>2, <3>1, <3>2
  <2>4. Open(t) = Open(cs) \cup Elems(c.stk)
    BY <2>3
  <2>5. (\A i \in 1..Len(t) : Increasing(t[i].stk))
          <=> (\A i \in 1..L : Increasing(cs[i].stk)) /\ Increasing(c.stk)
    BY <2>1, <2>2
  <2>6. ASSUME Ordered(t)
        PROVE  Ordered(cs) /\ Increasing(c.stk) /\ Before(Open(cs), Elems(c.stk))
    <3>1. ASSUME NEW i \in 1..L, NEW j \in 1..L, i < j
          PROVE  Before(Elems(cs[i].stk), Elems(cs[j].stk))
      <4>1. i \in 1..Len(t) /\ j \in 1..Len(t) /\ t[i] = cs[i] /\ t[j] = cs[j]
        BY <2>1, <2>2
      <4>2. Before(Elems(t[i].stk), Elems(t[j].stk))
        BY <2>6, <3>1, <4>1 DEF Ordered
      <4> QED
        BY <4>1, <4>2
    <3>2. Ordered(cs) /\ Increasing(c.stk)
      BY <2>5, <2>6, <3>1 DEF Ordered, L
    <3>3. ASSUME NEW i \in 1..L PROVE Before(Elems(cs[i].stk), Elems(c.stk))
      <4>1. i \in 1..Len(t) /\ L + 1 \in 1..Len(t) /\ i < L + 1 /\ t[i] = cs[i] /\ t[L + 1] = c
        BY <2>1, <2>2
      <4>2. Before(Elems(t[i].stk), Elems(t[L + 1].stk))
        BY <2>6, <4>1 DEF Ordered
      <4> QED
        BY <4>1, <4>2
    <3>4. Before(Open(cs), Elems(c.stk))
      BY <3>3 DEF Before, Open, L
    <3> QED
      BY <3>2, <3>4
  <2>7. ASSUME Ordered(cs), Increasing(c.stk), Before(Open(cs), Elems(c.stk))
        PROVE  Ordered(t)
    <3>1. ASSUME NEW i \in 1..Len(t), NEW j \in 1..Len(t), i < j
          PROVE  Before(Elems(t[i].stk), Elems(t[j].stk))
      <4>1. i \in 1..L /\ t[i] = cs[i]
        BY <2>1, <3>1
      <4>2. CASE j = L + 1
        <5>1. t[j] = c
          BY <2>1, <4>2
        <5>2. Elems(cs[i].stk) \subseteq Open(cs)
          BY <4>1 DEF Open, L
        <5> QED
          BY <2>7, <4>1, <5>1, <5>2 DEF Before
      <4>3. CASE j # L + 1
        <5>1. j \in 1..L /\ t[j] = cs[j]
          BY <2>1, <4>3
        <5>2. Before(Elems(cs[i].stk), Elems(cs[j].stk))
          BY <2>7, <3>1, <4>1, <5>1 DEF Ordered, L
        <5> QED
          BY <4>1, <5>1, <5>2
      <4> QED
        BY <4>2, <4>3
    <3>2. \A i \in 1..Len(t) : Increasing(t[i].stk)
      BY <2>5, <2>7 DEF Ordered, L
    <3> QED
      BY <3>1, <3>2 DEF Ordered
  <2>8. ASSUME NEW ns PROVE AllWait(ns, t) <=> AllWait(ns, cs) /\ Waits(ns, c)
    <3>1. (\A i \in 1..Len(t) : Waits(ns, t[i])) <=> (\A i \in 1..L : Waits(ns, cs[i])) /\ Waits(ns, c)
      BY <2>1, <2>2
    <3> QED
      BY <3>1 DEF AllWait, L
  <2> QED
    BY <2>4, <2>6, <2>7, <2>8 DEF t
<1> QED
  BY <1>1, <1>2

-----------------------------------------------------------------------------

\* One more argument, and what it leaves alone.
LEMMA AddFacts ==
  ASSUME NEW ns, Acyclic(ns), NEW x \in 1..Len(ns), NEW a,
         a \in (x + 1)..Len(ns) \/ (a = 0 /\ ns[x].args # <<>>)
  PROVE  LET ms == addArgument(ns, x, a)
         IN  /\ Acyclic(ms) /\ Len(ms) = Len(ns) /\ Grown(ns, ms, x)
             /\ ms[x].text = ns[x].text /\ ms[x].dotted = ns[x].dotted
             /\ ms[x].args = Append(ns[x].args, a)
             /\ \A O : Unshared(ns, O) /\ a \notin O => Unshared(ms, O)
<1> DEFINE ms == addArgument(ns, x, a)
           bs == Append(ns[x].args, a)
<1>1. Len(ns) \in Nat /\ ns \in Seq(Node)
  BY DEF Acyclic
<1>2. ns[x] \in Node /\ ns[x].args \in Seq(Nat)
  BY ArgsFacts
<1>3. a \in Nat
  BY <1>1
<1>4. /\ Len(bs) = Len(ns[x].args) + 1 /\ bs \in Seq(Nat) /\ bs[Len(ns[x].args) + 1] = a
      /\ \A k \in 1..Len(ns[x].args) : bs[k] = ns[x].args[k]
  BY <1>2, <1>3, AppendProperties
<1> HIDE DEF bs
<1> DEFINE y == [ns[x] EXCEPT !.args = bs]
<1>5. y.text = ns[x].text /\ y.dotted = ns[x].dotted /\ y.args = bs /\ y \in Node
  BY <1>2, <1>4 DEF Node
<1>6. ms = [ns EXCEPT ![x] = y]
  BY DEF addArgument, bs
<1> HIDE DEF y, ms
<1>7. /\ ms \in Seq(Node) /\ Len(ms) = Len(ns) /\ ms[x] = y
      /\ \A n \in 1..Len(ns) : n # x => ms[n] = ns[n]
  BY <1>1, <1>5, <1>6, ExceptSeq
<1>8. ASSUME NEW n \in 1..Len(ms), NEW k \in 1..Len(ms[n].args)
      PROVE  /\ \/ ms[n].args[k] = Garbage /\ k # 1
                \/ ms[n].args[k] \in (n + 1)..Len(ms)
             /\ \/ n = x /\ ms[n].args[k] = a
                \/ k \in 1..Len(ns[n].args) /\ ms[n].args[k] = ns[n].args[k]
  <2>0. n \in 1..Len(ns)
    BY <1>7
  <2>1. CASE n # x
    <3>1. ms[n] = ns[n]
      BY <1>7, <2>0, <2>1
    <3> QED
      BY <1>7, <2>0, <3>1 DEF Acyclic
  <2>2. CASE n = x /\ k = Len(ns[x].args) + 1
    <3>1. ms[n].args[k] = a
      BY <1>4, <1>5, <1>7, <2>2
    <3>2. a = 0 => k # 1
      BY <1>1, <1>2, <2>2
    <3> QED
      BY <1>7, <2>2, <3>1, <3>2 DEF Garbage
  <2>3. CASE n = x /\ k # Len(ns[x].args) + 1
    <3>1. k \in 1..Len(ns[x].args)
      BY <1>2, <1>4, <1>5, <1>7, <2>3
    <3>2. ms[n].args[k] = ns[x].args[k]
      BY <1>4, <1>5, <1>7, <2>3, <3>1
    <3> QED
      BY <1>7, <2>3, <3>1, <3>2 DEF Acyclic
  <2> QED
    BY <2>1, <2>2, <2>3
<1>9. Acyclic(ms)
  BY <1>7, <1>8 DEF Acyclic
<1>10. Grown(ns, ms, x)
  BY <1>1, <1>5, <1>7 DEF Grown
<1>11. ASSUME NEW O, Unshared(ns, O), a \notin O PROVE Unshared(ms, O)
  BY <1>7, <1>8, <1>11 DEF Unshared
<1> QED
  BY <1>5, <1>7, <1>9, <1>10, <1>11 DEF ms, bs

\* A new node without arguments.
LEMMA NewFacts ==
  ASSUME NEW ns, Acyclic(ns), NEW t \in Atom \cup {"quote", "list"}
  PROVE  LET ms == Append(ns, NewNode(t, <<>>))
         IN  /\ Acyclic(ms) /\ Len(ms) = Len(ns) + 1 /\ Len(ns) \in Nat
             /\ ms[Len(ns) + 1] = NewNode(t, <<>>)
             /\ \A n \in 1..Len(ns) : ms[n] = ns[n]
             /\ \A x : Grown(ns, ms, x)
             /\ \A O : Unshared(ns, O) => Unshared(ms, O)
<1> DEFINE y == NewNode(t, <<>>)
           ms == Append(ns, y)
<1>1. Len(ns) \in Nat /\ ns \in Seq(Node)
  BY DEF Acyclic
<1>2. y \in Node /\ y.args = <<>>
  BY DEF Node, NewNode
<1> HIDE DEF y
<1>3. /\ ms \in Seq(Node) /\ Len(ms) = Len(ns) + 1 /\ ms[Len(ns) + 1] = y
      /\ \A n \in 1..Len(ns) : ms[n] = ns[n]
  BY <1>1, <1>2, AppendProperties
<1> HIDE DEF ms
<1>4. ASSUME NEW n \in 1..Len(ms), NEW k \in 1..Len(ms[n].args)
      PROVE  n \in 1..Len(ns) /\ k \in 1..Len(ns[n].args) /\ ms[n].args[k] = ns[n].args[k]
  <2>1. n # Len(ns) + 1
    BY <1>2, <1>3
  <2>2. n \in 1..Len(ns)
    BY <1>1, <1>3, <2>1
  <2> QED
    BY <1>3, <2>2
<1>5. Acyclic(ms)
  <2> SUFFICES ASSUME NEW n \in 1..Len(ms), NEW k \in 1..Len(ms[n].args)
               PROVE  (ms[n].args[k] = Garbage /\ k # 1) \/ ms[n].args[k] \in (n + 1)..Len(ms)
    BY <1>3 DEF Acyclic
  <2>1. n \in 1..Len(ns) /\ k \in 1..Len(ns[n].args) /\ ms[n].args[k] = ns[n].args[k]
    BY <1>4
  <2>2. (ns[n].args[k] = Garbage /\ k # 1) \/ ns[n].args[k] \in (n + 1)..Len(ns)
    BY <2>1 DEF Acyclic
  <2> QED
    BY <1>1, <1>3, <2>1, <2>2
<1>6. ASSUME NEW x PROVE Grown(ns, ms, x)
  BY <1>1, <1>3 DEF Grown
<1>7. ASSUME NEW O, Unshared(ns, O) PROVE Unshared(ms, O)
  BY <1>4, <1>7 DEF Unshared
<1> QED
  BY <1>1, <1>3, <1>5, <1>6, <1>7 DEF ms, y

\* The two nodes of a quote.
LEMMA QuoteFacts ==
  ASSUME NEW ns, Acyclic(ns)
  PROVE  LET l  == Len(ns) + 1
             ms == ns \o <<NewNode("list", <<l + 1>>), NewNode("quote", <<>>)>>
         IN  /\ Acyclic(ms) /\ Len(ms) = Len(ns) + 2 /\ Len(ns) \in Nat
             /\ ms[l] = NewNode("list", <<l + 1>>) /\ ms[l + 1] = NewNode("quote", <<>>)
             /\ \A n \in 1..Len(ns) : ms[n] = ns[n]
             /\ \A x : Grown(ns, ms, x)
             /\ \A O : Unshared(ns, O) /\ l + 1 \notin O => Unshared(ms, O)
<1> DEFINE l == Len(ns) + 1
           y == NewNode("list", <<l + 1>>)
           z == NewNode("quote", <<>>)
           ms == ns \o <<y, z>>
<1>1. Len(ns) \in Nat /\ ns \in Seq(Node)
  BY DEF Acyclic
<1>2. y \in Node /\ z \in Node /\ Len(y.args) = 1 /\ y.args[1] = l + 1 /\ Len(z.args) = 0
  BY <1>1 DEF Node, NewNode
<1> HIDE DEF y, z
<1>3. /\ ms \in Seq(Node) /\ Len(ms) = Len(ns) + 2 /\ ms[Len(ns) + 1] = y /\ ms[Len(ns) + 2] = z
      /\ \A n \in 1..Len(ns) : ms[n] = ns[n]
  BY <1>1, <1>2
<1> HIDE DEF ms
<1>4. ASSUME NEW n \in 1..Len(ms), NEW k \in 1..Len(ms[n].args)
      PROVE  \/ n \in 1..Len(ns) /\ k \in 1..Len(ns[n].args) /\ ms[n].args[k] = ns[n].args[k]
             \/ n = l /\ ms[n].args[k] = l + 1
  <2>1. n # Len(ns) + 2
    BY <1>2, <1>3
  <2>2. CASE n = l
    BY <1>2, <1>3, <2>2
  <2>3. CASE n # l
    <3>1. n \in 1..Len(ns)
      BY <1>1, <1>3, <2>1, <2>3
    <3> QED
      BY <1>3, <3>1
  <2> QED
    BY <2>2, <2>3
<1>5. Acyclic(ms)
  <2> SUFFICES ASSUME NEW n \in 1..Len(ms), NEW k \in 1..Len(ms[n].args)
               PROVE  (ms[n].args[k] = Garbage /\ k # 1) \/ ms[n].args[k] \in (n + 1)..Len(ms)
    BY <1>3 DEF Acyclic
  <2>1. CASE n \in 1..Len(ns) /\ k \in 1..Len(ns[n].args) /\ ms[n].args[k] = ns[n].args[k]
    <3>1. (ns[n].args[k] = Garbage /\ k # 1) \/ ns[n].args[k] \in (n + 1)..Len(ns)
      BY <2>1 DEF Acyclic
    <3> QED
      BY <1>1, <1>3, <2>1, <3>1
  <2>2. CASE n = l /\ ms[n].args[k] = l + 1
    BY <1>1, <1>3, <2>2
  <2> QED
    BY <1>4, <2>1, <2>2
<1>6. ASSUME NEW x PROVE Grown(ns, ms, x)
  BY <1>1, <1>3 DEF Grown
<1>7. ASSUME NEW O, Unshared(ns, O), l + 1 \notin O PROVE Unshared(ms, O)
  BY <1>4, <1>7 DEF Unshared
<1> QED
  BY <1>1, <1>3, <1>5, <1>6, <1>7 DEF ms, y, z

\* A list that becomes dotted.
LEMMA DotFacts ==
  ASSUME NEW ns, Acyclic(ns), NEW x \in 1..Len(ns)
  PROVE  LET ms == [ns EXCEPT ![x].dotted = TRUE]
         IN  /\ Acyclic(ms) /\ Len(ms) = Len(ns) /\ Grown(ns, ms, x)
             /\ ms[x].text = ns[x].text /\ ms[x].dotted /\ ms[x].args = ns[x].args
             /\ \A O : Unshared(ns, O) => Unshared(ms, O)
<1> DEFINE ms == [ns EXCEPT ![x].dotted = TRUE]
<1>1. Len(ns) \in Nat /\ ns \in Seq(Node)
  BY DEF Acyclic
<1>2. ns[x] \in Node
  BY ArgsFacts
<1> DEFINE y == [ns[x] EXCEPT !.dotted = TRUE]
<1>3. y.text = ns[x].text /\ y.dotted /\ y.args = ns[x].args /\ y \in Node
  BY <1>2 DEF Node
<1>4. ms = [ns EXCEPT ![x] = y]
  OBVIOUS
<1> HIDE DEF y, ms
<1>5. /\ ms \in Seq(Node) /\ Len(ms) = Len(ns) /\ ms[x] = y
      /\ \A n \in 1..Len(ns) : n # x => ms[n] = ns[n]
  BY <1>1, <1>3, <1>4, ExceptSeq
<1>6. \A n \in 1..Len(ns) : ms[n].args = ns[n].args /\ ms[n].text = ns[n].text
  BY <1>3, <1>5
<1>7. Acyclic(ms)
  BY <1>5, <1>6 DEF Acyclic
<1>8. Grown(ns, ms, x)
  BY <1>1, <1>5, <1>6 DEF Grown
<1>9. ASSUME NEW O, Unshared(ns, O) PROVE Unshared(ms, O)
  BY <1>5, <1>6, <1>9 DEF Unshared
<1> QED
  BY <1>3, <1>5, <1>7, <1>8, <1>9 DEF ms

\* What an open list takes stays what it was while another node changes.
LEMMA PlainStable ==
  ASSUME NEW ns, Acyclic(ns), NEW ms, NEW x, Grown(ns, ms, x), NEW y \in 1..Len(ns), y # x
  PROVE  /\ Plain(ms, y) <=> Plain(ns, y)
         /\ \A why : Half(ms, y, why) <=> Half(ns, y, why)
<1>1. ms[y] = ns[y]
  BY DEF Grown
<1>2. ns[y].args # <<>> => ns[y].args[1] \in 1..Len(ns)
  <2>1. ns[y].args # <<>> => ns[y].args[1] \in (y + 1)..Len(ns)
    BY ArgsFacts
  <2> QED
    BY <2>1
<1>3. Quotes(ms, ms[y].args) <=> Quotes(ns, ns[y].args)
  BY <1>1, <1>2 DEF Quotes, Grown
<1> QED
  BY <1>1, <1>3 DEF Plain, Half

\* Lists of a stack other than the node that grows only take arguments still.
LEMMA PlainAllStable ==
  ASSUME NEW ns, Acyclic(ns), NEW ms, NEW x, Grown(ns, ms, x),
         NEW s, Elems(s) \subseteq (1..Len(ns)) \ {x}, PlainAll(ns, s)
  PROVE  PlainAll(ms, s)
<1> SUFFICES ASSUME NEW j \in 1..Len(s) PROVE Plain(ms, s[j])
  BY DEF PlainAll
<1>1. s[j] \in 1..Len(ns) /\ s[j] # x
  BY DEF Elems
<1>2. Plain(ns, s[j])
  BY DEF PlainAll
<1> QED
  BY <1>1, <1>2, PlainStable

\* Activations whose lists do not hold the node that grows wait as before.
LEMMA AllWaitStable ==
  ASSUME NEW ns, Acyclic(ns), NEW ms, NEW x, Grown(ns, ms, x),
         NEW cs \in Seq(Call), Open(cs) \subseteq (1..Len(ns)) \ {x}, AllWait(ns, cs)
  PROVE  AllWait(ms, cs)
<1> SUFFICES ASSUME NEW i \in 1..Len(cs) PROVE Waits(ms, cs[i])
  BY DEF AllWait
<1> DEFINE s == cs[i].stk
<1>1. Waits(ns, cs[i])
  BY DEF AllWait
<1>2. Elems(s) \subseteq (1..Len(ns)) \ {x}
  BY DEF Open
<1>3. s \in Seq(Nat \ {0})
  <2>1. cs[i] \in Call
    OBVIOUS
  <2> QED
    BY <2>1 DEF Call
<1> HIDE DEF s
<1>4. s # <<>>
  BY <1>1 DEF Waits, s
<1>5. /\ Len(s) \in Nat \ {0} /\ Len(Front(s)) = Len(s) - 1
      /\ \A k \in 1..(Len(s) - 1) : Front(s)[k] = s[k]
      /\ Last(s) = s[Len(s)]
  <2>1. /\ Len(s) \in Nat \ {0}
        /\ Front(s) \in Seq(Nat \ {0}) /\ Len(Front(s)) = Len(s) - 1
        /\ \A k \in 1..(Len(s) - 1) : Front(s)[k] = s[k]
        /\ Last(s) \in Nat \ {0} /\ Last(s) = s[Len(s)]
        /\ s = Append(Front(s), Last(s))
    BY <1>3, <1>4, FrontLast, ZenonT(60)
  <2> QED
    BY <2>1
<1>6. Elems(Front(s)) \subseteq Elems(s)
  BY <1>5 DEF Elems
<1>7. PlainAll(ms, Front(s))
  <2>1. PlainAll(ns, Front(s)) /\ Elems(Front(s)) \subseteq (1..Len(ns)) \ {x}
    BY <1>1, <1>2, <1>6 DEF Waits, s
  <2> QED
    BY <2>1, PlainAllStable
<1>8. Last(s) \in Elems(s)
  BY <1>5 DEF Elems
<1>9. Half(ns, Last(s), cs[i].wait) /\ Last(s) \in 1..Len(ns) /\ Last(s) # x
  BY <1>1, <1>2, <1>8 DEF Waits, s
<1>10. Half(ms, Last(s), cs[i].wait)
  BY <1>9, PlainStable
<1> QED
  BY <1>4, <1>7, <1>10 DEF Waits, s

-----------------------------------------------------------------------------

\* The token that is peeked at.
LEMMA PeekFacts ==
  ASSUME TypeOK
  PROVE  /\ Len(input) \in Nat /\ input \in Seq(Tokens)
         /\ Peek = "EOF" <=> pos = Len(input)
         /\ Peek # "EOF" => /\ pos + 1 \in 1..Len(input) /\ Peek = input[pos + 1]
                            /\ Peek \in Tokens
<1>1. input \in Seq(Tokens)
  BY ParserAssumption DEF TypeOK
<1>2. Len(input) \in Nat /\ pos \in 0..Len(input)
  BY <1>1 DEF TypeOK
<1>3. "EOF" \notin Tokens
  BY ParserAssumption DEF Tokens
<1>4. pos < Len(input) => pos + 1 \in 1..Len(input) /\ input[pos + 1] \in Tokens
  BY <1>1, <1>2
<1> QED
  BY <1>1, <1>2, <1>3, <1>4 DEF Peek

\* The running activation, and what replacing it or its stack makes of calls.
LEMMA CallsFacts ==
  ASSUME TypeOK, calls # <<>>
  PROVE  LET b == Front(calls)
             c == Last(calls)
         IN  /\ b \in Seq(Call) /\ c \in Call /\ calls = Append(b, c)
             /\ Stk = c.stk /\ Stk \in Seq(Nat \ {0})
             /\ \A s \in Seq(Nat \ {0}) :
                  /\ setStk(s) = Append(b, [stk |-> s, wait |-> "none"])
                  /\ [stk |-> s, wait |-> "none"] \in Call
             /\ \A s \in Seq(Nat \ {0}), why \in {"quote", "dot"} :
                  /\ Nested(s, why) = Append(Append(b, [stk |-> s, wait |-> why]),
                                             [stk |-> <<>>, wait |-> "none"])
                  /\ [stk |-> s, wait |-> why] \in Call
             /\ [stk |-> <<>>, wait |-> "none"] \in Call
<1> DEFINE b == Front(calls)
           c == Last(calls)
           L == Len(calls)
<1>0. calls \in Seq(Call)
  BY DEF TypeOK
<1>1. /\ L \in Nat \ {0} /\ b \in Seq(Call) /\ Len(b) = L - 1
      /\ \A k \in 1..(L - 1) : b[k] = calls[k]
      /\ c \in Call /\ c = calls[L] /\ calls = Append(b, c)
  BY <1>0, FrontLast
<1>2. Stk = c.stk /\ c.stk \in Seq(Nat \ {0})
  BY <1>1 DEF Stk, Call
<1> HIDE DEF b, c
<1>3. ASSUME NEW d \in Call, NEW t, t = [calls EXCEPT ![L] = d] PROVE t = Append(b, d)
  <2>1. L \in 1..Len(calls)
    BY <1>1
  <2>2. /\ t \in Seq(Call) /\ Len(t) = L
        /\ \A j \in 1..L : t[j] = IF j = L THEN d ELSE calls[j]
    BY <1>0, <1>3, <2>1, ExceptSeq
  <2>3. Append(b, d) \in Seq(Call) /\ Len(Append(b, d)) = L
        /\ \A j \in 1..L : Append(b, d)[j] = IF j = L THEN d ELSE calls[j]
    BY <1>1
  <2>4. \A j \in 1..Len(t) : t[j] = Append(b, d)[j]
    BY <2>2, <2>3
  <2> QED
    BY <2>2, <2>3, <2>4, SeqEqual
<1>4. ASSUME NEW s \in Seq(Nat \ {0})
      PROVE  /\ setStk(s) = Append(b, [stk |-> s, wait |-> "none"])
             /\ [stk |-> s, wait |-> "none"] \in Call
  <2> DEFINE d == [stk |-> s, wait |-> "none"]
  <2>1. d \in Call
    BY DEF Call
  <2>2. L \in 1..L
    BY <1>1
  <2>3. setStk(s) = [calls EXCEPT ![L] = d]
    <3>1. c \in [stk : Seq(Nat \ {0}), wait : {"none", "quote", "dot"}]
      BY <1>1 DEF Call
    <3>2. [[c EXCEPT !.stk = s] EXCEPT !.wait = "none"] = d
      <4> DEFINE e == [[c EXCEPT !.stk = s] EXCEPT !.wait = "none"]
      <4>1. /\ e \in [stk : Seq(Nat \ {0}), wait : {"none", "quote", "dot"}]
            /\ e.stk = s /\ e.wait = "none"
        BY <3>1
      <4> HIDE DEF e
      <4>2. e = [stk |-> e.stk, wait |-> e.wait]
        BY <4>1
      <4>3. e = d
        BY <4>1, <4>2
      <4> QED
        BY <4>3 DEF e
    <3>3. setStk(s) = [calls EXCEPT ![L] = [[calls[L] EXCEPT !.stk = s] EXCEPT !.wait = "none"]]
      BY <1>0, <2>2 DEF setStk
    <3> QED
      BY <1>1, <3>2, <3>3
  <2> HIDE DEF d
  <2> QED
    BY <1>3, <2>1, <2>3 DEF d
<1>5. ASSUME NEW s \in Seq(Nat \ {0}), NEW why \in {"quote", "dot"}
      PROVE  /\ Nested(s, why) = Append(Append(b, [stk |-> s, wait |-> why]),
                                        [stk |-> <<>>, wait |-> "none"])
             /\ [stk |-> s, wait |-> why] \in Call
  <2> DEFINE d == [stk |-> s, wait |-> why]
  <2>1. d \in Call
    BY DEF Call
  <2>2. [calls EXCEPT ![L] = d] = Append(b, d)
    <3> HIDE DEF d, L
    <3> QED
      BY <1>3, <2>1
  <2> QED
    BY <2>1, <2>2 DEF Nested
<1>6. [stk |-> <<>>, wait |-> "none"] \in Call
  BY DEF Call
<1> QED
  BY <1>1, <1>2, <1>4, <1>5, <1>6 DEF b, c

\* Front and Last undo Append.
LEMMA FrontOfAppend ==
  ASSUME NEW S, NEW s \in Seq(S), NEW x \in S
  PROVE  Front(Append(s, x)) = s
<1> DEFINE t == Append(s, x)
           f == Front(t)
<1>1. /\ Len(t) = Len(s) + 1 /\ Len(s) \in Nat /\ t \in Seq(S) /\ t # <<>>
      /\ \A j \in 1..Len(s) : t[j] = s[j]
  BY AppendProperties
<1> HIDE DEF t
<1>2. /\ f \in Seq(S) /\ Len(f) = Len(t) - 1
      /\ \A k \in 1..(Len(t) - 1) : f[k] = t[k]
  BY <1>1, FrontLast
<1> HIDE DEF f
<1>3. Len(f) = Len(s) /\ \A j \in 1..Len(f) : f[j] = s[j]
  BY <1>1, <1>2
<1>4. f = s
  BY <1>2, <1>3, SeqEqual
<1> QED
  BY <1>4 DEF f, t

\* Last undoes Append.
LEMMA LastOfAppend ==
  ASSUME NEW S, NEW s \in Seq(S), NEW x \in S
  PROVE  Last(Append(s, x)) = x /\ Append(s, x) # <<>>
<1> DEFINE t == Append(s, x)
<1>1. Len(t) = Len(s) + 1 /\ Len(s) \in Nat /\ t[Len(s) + 1] = x
  BY AppendProperties
<1> HIDE DEF t
<1>2. t # <<>>
  BY <1>1
<1> QED
  BY <1>1, <1>2 DEF t, Last

\* The innermost open list.
LEMMA TopFacts ==
  ASSUME TypeOK, Shape, calls # <<>>, Stk # <<>>
  PROVE  LET b == Front(calls)
             r == Front(Stk)
             x == Last(Stk)
         IN  /\ r \in Seq(Nat \ {0}) /\ x \in 1..Len(nodes) /\ Stk = Append(r, x)
             /\ Open(calls) = Open(b) \cup Elems(r) \cup {x}
             /\ Before(Open(b) \cup Elems(r), {x})
             /\ Ordered(b) /\ Increasing(r) /\ Before(Open(b), Elems(r))
             /\ Len(Stk) \in Nat \ {0} /\ Len(r) = Len(Stk) - 1
<1> DEFINE b == Front(calls)
           c == Last(calls)
           s == Stk
           r == Front(s)
           x == Last(s)
<1>1. b \in Seq(Call) /\ c \in Call /\ calls = Append(b, c) /\ s = c.stk /\ s \in Seq(Nat \ {0})
  BY CallsFacts
<1>2. Open(calls) = Open(b) \cup Elems(s) /\ Ordered(b) /\ Increasing(s) /\ Before(Open(b), Elems(s))
  <2>1. Open(calls) = Open(b) \cup Elems(c.stk)
        /\ (Ordered(calls) <=>
              Ordered(b) /\ Increasing(c.stk) /\ Before(Open(b), Elems(c.stk)))
    <3> HIDE DEF b, c
    <3> QED
      BY <1>1, OpenFacts
  <2> QED
    BY <1>1, <2>1 DEF Shape
<1> HIDE DEF s, b, c
<1>3. s # <<>>
  BY DEF s
<1>4. r \in Seq(Nat \ {0}) /\ x \in Nat \ {0} /\ s = Append(r, x)
      /\ Len(s) \in Nat \ {0} /\ Len(r) = Len(s) - 1
  BY <1>1, <1>3, FrontLast
<1> HIDE DEF r, x
<1>5. Elems(s) = Elems(r) \cup {x} /\ (Increasing(s) <=> Increasing(r) /\ Before(Elems(r), {x}))
  BY <1>4, ElemsFacts
<1>6. Before(Open(b) \cup Elems(r), {x})
  BY <1>2, <1>5 DEF Before
<1>7. Before(Open(b), Elems(r))
  BY <1>2, <1>5 DEF Before
<1>8. x \in 1..Len(nodes)
  BY <1>2, <1>5 DEF Shape
<1> QED
  BY <1>2, <1>4, <1>5, <1>6, <1>7, <1>8 DEF b, r, x, s

\* An open list that takes a list or an atom only takes arguments still.
LEMMA PlainAdd ==
  ASSUME NEW ns, Acyclic(ns), NEW x \in 1..Len(ns), NEW a \in (x + 1)..Len(ns),
         Plain(ns, x), ns[a].text # "quote"
  PROVE  Plain(addArgument(ns, x, a), x)
<1> DEFINE ms == addArgument(ns, x, a)
<1>1. /\ ms[x].text = ns[x].text /\ ms[x].dotted = ns[x].dotted
      /\ ms[x].args = Append(ns[x].args, a) /\ Grown(ns, ms, x)
  BY AddFacts
<1> HIDE DEF ms
<1>2. ns[x].args \in Seq(Nat) /\ Len(ns) \in Nat
      /\ (ns[x].args # <<>> => ns[x].args[1] \in (x + 1)..Len(ns))
  BY ArgsFacts
<1>3. ms[x].args[1] \in 1..Len(ns) /\ ns[ms[x].args[1]].text # "quote"
  <2>1. CASE ns[x].args = <<>>
    <3>1. ms[x].args[1] = a
      BY <1>1, <2>1
    <3> QED
      BY <1>2, <3>1
  <2>2. CASE ns[x].args # <<>>
    <3>1. ms[x].args[1] = ns[x].args[1]
      <4>1. Len(ns[x].args) \in Nat /\ 1 \in 1..Len(ns[x].args)
        BY <1>2, <2>2
      <4>2. a \in Nat
        BY <1>2
      <4> QED
        BY <1>1, <1>2, <4>1, <4>2, AppendProperties
    <3>2. ns[ns[x].args[1]].text # "quote"
      BY <2>2 DEF Plain, Quotes
    <3> QED
      BY <1>2, <2>2, <3>1, <3>2
  <2> QED
    BY <2>1, <2>2
<1>4. ms[ms[x].args[1]].text # "quote"
  BY <1>1, <1>3 DEF Grown
<1> QED
  BY <1>1, <1>4 DEF Plain, Quotes, ms

\* Stacks whose lists only take arguments, by the last list.
LEMMA PlainAppend ==
  ASSUME NEW ns, NEW s \in Seq(Nat \ {0}), NEW x \in Nat \ {0}
  PROVE  PlainAll(ns, Append(s, x)) <=> PlainAll(ns, s) /\ Plain(ns, x)
<1> DEFINE t == Append(s, x)
<1>1. /\ Len(t) = Len(s) + 1 /\ Len(s) \in Nat /\ t[Len(s) + 1] = x
      /\ \A j \in 1..Len(s) : t[j] = s[j]
  BY AppendProperties
<1> HIDE DEF t
<1>2. 1..Len(t) = (1..Len(s)) \cup {Len(s) + 1}
  BY <1>1
<1>3. (\A j \in 1..Len(t) : Plain(ns, t[j])) <=> (\A j \in 1..Len(s) : Plain(ns, s[j])) /\ Plain(ns, x)
  BY <1>1, <1>2
<1> QED
  BY <1>3 DEF PlainAll, t

-----------------------------------------------------------------------------

\* The part of the state that Shape is about.
ShapeTypes ==
  /\ pc \in {"main", "parse", "return", "endless", "exit", "error", "crash", "fault"}
  /\ nodes \in Seq(Node)
  /\ calls \in Seq(Call)
  /\ ret \in 0..Len(nodes)

\* Fewer open lists.
LEMMA UnsharedSubset ==
  ASSUME NEW ns, NEW O, Unshared(ns, O), NEW Q, Q \subseteq O
  PROVE  Unshared(ns, Q)
  BY DEF Unshared

(***************************************************************************)
(* REDUCE_STK, when the innermost open list x has become complete in ns.     *)
(***************************************************************************)
LEMMA ReduceShape ==
  ASSUME TypeOK, Shape, calls # <<>>, Stk # <<>>,
         NEW ns, Acyclic(ns), Len(ns) = Len(nodes), Grown(nodes, ns, Last(Stk)),
         Unshared(ns, Open(calls)), nodes[Last(Stk)].text = "list",
         AllWait(nodes, Front(calls)), PlainAll(nodes, Front(Stk)),
         REDUCE_STK(ns), UNCHANGED <<input, forms>>
  PROVE  ShapeTypes' /\ Shape'
<1> DEFINE b == Front(calls)
           r == Front(Stk)
           x == Last(Stk)
<1>1. b \in Seq(Call) /\ \A s \in Seq(Nat \ {0}) :
        /\ setStk(s) = Append(b, [stk |-> s, wait |-> "none"])
        /\ [stk |-> s, wait |-> "none"] \in Call
  BY CallsFacts
<1>2. /\ r \in Seq(Nat \ {0}) /\ x \in 1..Len(nodes) /\ Stk = Append(r, x)
      /\ Open(calls) = Open(b) \cup Elems(r) \cup {x}
      /\ Before(Open(b) \cup Elems(r), {x})
      /\ Ordered(b) /\ Increasing(r) /\ Before(Open(b), Elems(r))
      /\ Len(Stk) \in Nat \ {0} /\ Len(r) = Len(Stk) - 1
  BY TopFacts
<1>3. /\ AllWait(nodes, b) /\ PlainAll(nodes, r) /\ Grown(nodes, ns, x)
      /\ nodes[x].text = "list"
  OBVIOUS
<1>4. /\ \/ /\ Len(Stk) = 1 /\ pc' = "return" /\ ret' = x /\ calls' = b /\ nodes' = ns
         \/ /\ Len(Stk) > 1 /\ nodes' = addArgument(ns, Last(r), x)
            /\ calls' = setStk(r) /\ pc' = "parse" /\ UNCHANGED ret
      /\ forms' = forms
  BY DEF REDUCE_STK, Return
<1> HIDE DEF b, r, x
<1>5. Acyclic(nodes) /\ Len(nodes) \in Nat /\ nodes \in Seq(Node) /\ ret \in 0..Len(nodes)
  BY DEF Shape, TypeOK
<1>6. Open(b) \cup Elems(r) \subseteq (1..Len(nodes)) \ {x}
  <2>1. Open(calls) \subseteq 1..Len(nodes)
    BY DEF Shape
  <2>2. x \notin Open(b) \cup Elems(r)
    BY <1>2 DEF Before
  <2> QED
    BY <1>2, <2>1, <2>2
<1>7. AllWait(ns, b) /\ PlainAll(ns, r)
  BY <1>1, <1>3, <1>5, <1>6, AllWaitStable, PlainAllStable
<1>8. \A k \in 1..Len(forms) : forms[k].node \in (0..Len(nodes)) \ Open(calls)
  BY DEF Shape
<1>9. ns \in Seq(Node)
  BY DEF Acyclic
<1>10. CASE Len(Stk) = 1
  <2>1. pc' = "return" /\ ret' = x /\ calls' = b /\ nodes' = ns /\ forms' = forms
    BY <1>4, <1>10
  <2>2. Open(b) \subseteq Open(calls) /\ Open(b) \subseteq 1..Len(ns)
    BY <1>2, <1>6
  <2>3. Unshared(ns, Open(b))
    BY <2>2, UnsharedSubset
  <2>4. x # Garbage /\ Before(Open(b), {x})
    BY <1>2 DEF Garbage, Before
  <2>5. ShapeTypes'
    BY <1>1, <1>2, <1>9, <2>1 DEF ShapeTypes
  <2>6. Shape'
    BY <1>2, <1>7, <1>8, <2>1, <2>2, <2>3, <2>4 DEF Shape
  <2> QED
    BY <2>5, <2>6
<1>11. CASE Len(Stk) > 1
  <2> DEFINE q == Front(r)
             y == Last(r)
             d == [stk |-> r, wait |-> "none"]
             ms == addArgument(ns, y, x)
  <2>1. nodes' = ms /\ calls' = setStk(r) /\ pc' = "parse" /\ ret' = ret /\ forms' = forms
    <3>1. Len(Stk) # 1
      BY <1>2, <1>11
    <3> QED
      BY <1>4, <3>1, Zenon
  <2>2. calls' = Append(b, d) /\ d \in Call
    BY <1>1, <1>2, <2>1
  <2>3. r # <<>>
    BY <1>2, <1>11
  <2>4. q \in Seq(Nat \ {0}) /\ y \in Nat \ {0} /\ r = Append(q, y)
    BY <1>2, <2>3, FrontLast
  <2> HIDE DEF q, y
  <2>5. Elems(r) = Elems(q) \cup {y} /\ Before(Elems(q), {y})
    BY <1>2, <2>4, ElemsFacts
  <2>6. y \in 1..Len(ns) /\ x \in (y + 1)..Len(ns) /\ y \notin Open(b) /\ y \notin Elems(q)
    <3>1. y \in Elems(r)
      BY <2>5
    <3>2. y \in 1..Len(ns) /\ y < x
      BY <1>2, <1>6, <3>1 DEF Before
    <3>3. y \notin Open(b)
      BY <1>2, <2>4, <3>1 DEF Before
    <3>4. y \notin Elems(q)
      BY <2>4, <2>5 DEF Before
    <3> QED
      BY <1>2, <1>5, <3>2, <3>3, <3>4
  <2>7. /\ Acyclic(ms) /\ Len(ms) = Len(ns) /\ Grown(ns, ms, y)
        /\ \A O : Unshared(ns, O) /\ x \notin O => Unshared(ms, O)
    BY <2>6, AddFacts
  <2>8. PlainAll(ms, r)
    <3>1. PlainAll(ns, q) /\ Plain(ns, y)
      BY <1>7, <2>4, PlainAppend
    <3>2. PlainAll(ms, q)
      <4>1. Elems(q) \subseteq (1..Len(ns)) \ {y}
        BY <1>6, <2>5, <2>6
      <4> HIDE DEF ms
      <4> QED
        BY <2>7, <3>1, <4>1, PlainAllStable
    <3>3. ns[x].text # "quote"
      BY <1>2, <1>3 DEF Grown
    <3>4. Plain(ms, y)
      BY <2>6, <3>1, <3>3, PlainAdd
    <3> HIDE DEF ms
    <3> QED
      BY <2>4, <3>2, <3>4, PlainAppend
  <2> HIDE DEF ms
  <2>9. AllWait(ms, b)
    <3>1. Open(b) \subseteq (1..Len(ns)) \ {y}
      BY <1>6, <2>6
    <3> QED
      BY <1>1, <1>7, <2>7, <3>1, AllWaitStable
  <2>10. Open(calls') = Open(b) \cup Elems(r) /\ Ordered(calls')
    <3>1. d.stk = r
      OBVIOUS
    <3> HIDE DEF d
    <3> QED
      BY <1>1, <1>2, <2>2, <3>1, OpenFacts
  <2>11. Unshared(ms, Open(calls'))
    <3>1. Open(calls') \subseteq Open(calls) /\ x \notin Open(calls')
      BY <1>2, <1>6, <2>10
    <3> QED
      BY <2>7, <3>1, UnsharedSubset
  <2>12. calls' # <<>> /\ Front(calls') = b /\ Last(calls') = d /\ calls' \in Seq(Call)
    BY <1>1, <2>2, FrontOfAppend, LastOfAppend
  <2>13. Runs(ms, d)
    BY <2>8 DEF Runs
  <2>14. ShapeTypes'
    BY <1>5, <2>1, <2>7, <2>12 DEF ShapeTypes, Acyclic
  <2>15. Open(calls') \subseteq 1..Len(ms)
    BY <1>6, <2>7, <2>10
  <2>16. \A k \in 1..Len(forms) : forms[k].node \in (0..Len(ms)) \ Open(calls')
    BY <1>2, <1>8, <2>7, <2>10
  <2>17. Shape'
    BY <2>1, <2>7, <2>9, <2>10, <2>11, <2>12, <2>13, <2>15, <2>16 DEF Shape
  <2> QED
    BY <2>14, <2>17
<1> QED
  BY <1>2, <1>10, <1>11

-----------------------------------------------------------------------------

\* A running or waiting activation, and the node on top of its stack.
LEMMA ParseFacts ==
  ASSUME TypeOK, Shape, pc = "parse"
  PROVE  LET b == Front(calls)
         IN  /\ calls # <<>> /\ b \in Seq(Call) /\ Stk \in Seq(Nat \ {0})
             /\ AllWait(nodes, b) /\ PlainAll(nodes, Stk)
             /\ calls = Append(b, [stk |-> Stk, wait |-> "none"])
             /\ Ordered(b) /\ Increasing(Stk) /\ Before(Open(b), Elems(Stk))
             /\ Open(calls) = Open(b) \cup Elems(Stk)
             /\ Open(calls) \subseteq 1..Len(nodes)
<1> DEFINE b == Front(calls)
           c == Last(calls)
<1>1. calls # <<>> /\ AllWait(nodes, b) /\ c.wait = "none" /\ PlainAll(nodes, c.stk)
  BY DEF Shape, Runs
<1>2. b \in Seq(Call) /\ c \in Call /\ calls = Append(b, c) /\ Stk = c.stk /\ Stk \in Seq(Nat \ {0})
  BY <1>1, CallsFacts
<1>3. c = [stk |-> Stk, wait |-> "none"]
  BY <1>1, <1>2 DEF Call
<1> HIDE DEF b, c
<1>4. Open(calls) = Open(b) \cup Elems(c.stk)
      /\ (Ordered(calls) <=> Ordered(b) /\ Increasing(c.stk) /\ Before(Open(b), Elems(c.stk)))
  BY <1>2, OpenFacts
<1>5. Ordered(calls) /\ Open(calls) \subseteq 1..Len(nodes)
  BY DEF Shape
<1> QED
  BY <1>1, <1>2, <1>3, <1>4, <1>5 DEF b

\* An activation to which another one returns, and the list that waits on its stack.
LEMMA WaitFacts ==
  ASSUME TypeOK, Shape, pc = "return", calls # <<>>
  PROVE  LET b == Front(calls)
         IN  /\ b \in Seq(Call) /\ Stk \in Seq(Nat \ {0}) /\ Stk # <<>>
             /\ AllWait(nodes, b) /\ PlainAll(nodes, Front(Stk))
             /\ Half(nodes, Last(Stk), Last(calls).wait)
<1> DEFINE b == Front(calls)
           c == Last(calls)
<1>1. b \in Seq(Call) /\ c \in Call /\ calls = Append(b, c) /\ Stk = c.stk /\ Stk \in Seq(Nat \ {0})
  BY CallsFacts
<1>2. AllWait(nodes, calls)
  BY DEF Shape
<1> HIDE DEF b, c
<1>3. AllWait(nodes, b) /\ Waits(nodes, c)
  BY <1>1, <1>2, OpenFacts
<1> QED
  BY <1>1, <1>3 DEF Waits, b, c

\* Each action, first those of an activation that runs.
LEMMA ShapeDatum ==
  ASSUME TypeOK, Shape, Datum
  PROVE  ShapeTypes' /\ Shape'
<1> DEFINE b == Front(calls)
           n == Len(nodes) + 1
           ns == Append(nodes, NewNode(Peek, <<>>))
<1>1. pc = "parse" /\ Peek \in Atom /\ forms' = forms
      /\ \/ Stk = <<>> /\ Return(n) /\ nodes' = ns
         \/ Stk # <<>> /\ nodes' = addArgument(ns, Last(Stk), n) /\ UNCHANGED <<pc, calls, ret>>
  BY DEF Datum
<1>2. /\ calls # <<>> /\ b \in Seq(Call) /\ Stk \in Seq(Nat \ {0})
      /\ AllWait(nodes, b) /\ PlainAll(nodes, Stk)
      /\ calls = Append(b, [stk |-> Stk, wait |-> "none"])
      /\ Ordered(b) /\ Increasing(Stk) /\ Before(Open(b), Elems(Stk))
      /\ Open(calls) = Open(b) \cup Elems(Stk)
      /\ Open(calls) \subseteq 1..Len(nodes)
  BY <1>1, ParseFacts
<1>3. Acyclic(nodes) /\ nodes \in Seq(Node) /\ ret \in 0..Len(nodes) /\ Unshared(nodes, Open(calls))
      /\ \A k \in 1..Len(forms) : forms[k].node \in (0..Len(nodes)) \ Open(calls)
  BY DEF Shape, TypeOK
<1>4. /\ Acyclic(ns) /\ Len(ns) = n /\ Len(nodes) \in Nat
      /\ ns[n] = NewNode(Peek, <<>>)
      /\ \A k \in 1..Len(nodes) : ns[k] = nodes[k]
      /\ \A x : Grown(nodes, ns, x)
      /\ \A O : Unshared(nodes, O) => Unshared(ns, O)
  BY <1>1, <1>3, NewFacts
<1>5. Garbage \notin Open(calls) /\ n \notin Open(calls) /\ Before(Open(calls), {n})
  BY <1>2, <1>4 DEF Garbage, Before
<1>6. ns[n].text # "quote"
  BY <1>1, <1>4, ParserAssumption DEF NewNode
<1> HIDE DEF ns, n, b
<1>7. n \in Nat \ {0} /\ n = Len(nodes) + 1
  BY <1>4 DEF n
<1>8. CASE Stk = <<>> /\ Return(n) /\ nodes' = ns
  <2>1. Open(b) = Open(calls) /\ calls' = b /\ pc' = "return" /\ ret' = n
    BY <1>2, <1>8, ElemsFacts DEF Return, b
  <2>2. AllWait(ns, b)
    <3>1. Open(b) \subseteq (1..Len(nodes)) \ {0}
      BY <1>2
    <3> QED
      BY <1>2, <1>3, <1>4, <3>1, AllWaitStable
  <2>3. ShapeTypes'
    BY <1>2, <1>4, <1>7, <1>8, <2>1 DEF ShapeTypes, Acyclic
  <2>4. Shape'
    BY <1>1, <1>2, <1>3, <1>4, <1>5, <1>7, <1>8, <2>1, <2>2 DEF Shape, Garbage
  <2> QED
    BY <2>3, <2>4
<1>9. CASE Stk # <<>> /\ nodes' = addArgument(ns, Last(Stk), n) /\ UNCHANGED <<pc, calls, ret>>
  <2> DEFINE r == Front(Stk)
             x == Last(Stk)
             ms == addArgument(ns, x, n)
  <2>1. /\ r \in Seq(Nat \ {0}) /\ x \in 1..Len(nodes) /\ Stk = Append(r, x)
        /\ Before(Open(b) \cup Elems(r), {x}) /\ Open(calls) = Open(b) \cup Elems(r) \cup {x}
    BY <1>2, <1>9, TopFacts DEF b
  <2> HIDE DEF r, x
  <2>2. x \in 1..Len(ns) /\ n \in (x + 1)..Len(ns) /\ x \notin Open(b) /\ x \notin Elems(r) /\ x \in Nat \ {0}
    BY <1>4, <1>7, <2>1 DEF Before
  <2>3. /\ Acyclic(ms) /\ Len(ms) = Len(ns) /\ Grown(ns, ms, x)
        /\ \A O : Unshared(ns, O) /\ n \notin O => Unshared(ms, O)
    BY <1>4, <2>2, AddFacts
  <2>4. PlainAll(nodes, r) /\ Plain(nodes, x)
    BY <1>2, <2>1, <2>2, PlainAppend
  <2>5. Plain(ns, x) /\ PlainAll(ns, r) /\ AllWait(ns, b)
    <3>1. Grown(nodes, ns, 0)
      BY <1>4
    <3>2. Open(b) \subseteq (1..Len(nodes)) \ {0} /\ Elems(r) \subseteq (1..Len(nodes)) \ {0}
      <4>1. Open(b) \cup Elems(r) \subseteq 1..Len(nodes)
        BY <1>2, <2>1
      <4>2. 0 \notin 1..Len(nodes)
        BY <1>4
      <4> QED
        BY <4>1, <4>2
    <3>3. Plain(ns, x)
      BY <1>3, <2>1, <2>2, <2>4, <3>1, PlainStable
    <3>4. PlainAll(ns, r)
      BY <1>3, <2>4, <3>1, <3>2, PlainAllStable
    <3>5. AllWait(ns, b)
      BY <1>2, <1>3, <3>1, <3>2, AllWaitStable
    <3> QED
      BY <3>3, <3>4, <3>5
  <2>6. Plain(ms, x)
    BY <1>4, <1>6, <2>2, <2>5, PlainAdd
  <2> HIDE DEF ms
  <2>7. PlainAll(ms, r) /\ AllWait(ms, b)
    <3>1. Open(b) \subseteq (1..Len(ns)) \ {x} /\ Elems(r) \subseteq (1..Len(ns)) \ {x}
      <4>1. Open(b) \cup Elems(r) \subseteq 1..Len(nodes)
        BY <1>2, <2>1
      <4>2. 1..Len(nodes) \subseteq 1..Len(ns)
        BY <1>4, <1>7
      <4> QED
        BY <2>2, <4>1, <4>2
    <3>2. PlainAll(ms, r)
      BY <1>4, <2>3, <2>5, <3>1, PlainAllStable
    <3>3. AllWait(ms, b)
      BY <1>2, <1>4, <2>3, <2>5, <3>1, AllWaitStable
    <3> QED
      BY <3>2, <3>3
  <2>8. PlainAll(ms, Stk)
    BY <2>1, <2>2, <2>6, <2>7, PlainAppend
  <2>9. nodes' = ms /\ pc' = pc /\ calls' = calls /\ ret' = ret
    BY <1>9 DEF ms, x
  <2>10. Front(calls') = b /\ Last(calls').wait = "none" /\ Last(calls').stk = Stk
    <3>1. Last(calls).stk = Stk /\ Last(calls).wait = "none"
      BY <1>1 DEF Shape, Runs, Stk
    <3> QED
      BY <2>9, <3>1 DEF b
  <2>11. Runs(ms, Last(calls'))
    BY <2>8, <2>10 DEF Runs
  <2>12. ShapeTypes'
    BY <1>3, <1>4, <1>7, <2>3, <2>9 DEF ShapeTypes, Acyclic, TypeOK
  <2>13. Unshared(ms, Open(calls))
    BY <1>3, <1>4, <1>5, <2>3
  <2>14. /\ Acyclic(nodes') /\ Ordered(calls') /\ Open(calls') \subseteq 1..Len(nodes')
         /\ Unshared(nodes', Open(calls'))
    BY <1>2, <1>4, <1>7, <2>3, <2>9, <2>13 DEF Shape
  <2>15. \A k \in 1..Len(forms') : forms'[k].node \in (0..Len(nodes')) \ Open(calls')
    BY <1>1, <1>3, <1>4, <1>7, <2>3, <2>9
  <2>16. Shape'
    BY <1>1, <1>2, <2>7, <2>9, <2>10, <2>11, <2>14, <2>15 DEF Shape
  <2> QED
    BY <2>12, <2>16
<1> QED
  BY <1>1, <1>8, <1>9 DEF ns, n

-----------------------------------------------------------------------------

\* An opening parenthesis puts a new list on the stack.
LEMMA ShapeOpenList ==
  ASSUME TypeOK, Shape, OpenList
  PROVE  ShapeTypes' /\ Shape'
<1> DEFINE b == Front(calls)
           n == Len(nodes) + 1
           ns == Append(nodes, NewNode("list", <<>>))
           s == Append(Stk, n)
           d == [stk |-> s, wait |-> "none"]
<1>1. pc = "parse" /\ pc' = pc /\ ret' = ret /\ forms' = forms /\ nodes' = ns /\ calls' = setStk(s)
  BY DEF OpenList
<1>2. /\ calls # <<>> /\ b \in Seq(Call) /\ Stk \in Seq(Nat \ {0})
      /\ AllWait(nodes, b) /\ PlainAll(nodes, Stk)
      /\ Ordered(b) /\ Increasing(Stk) /\ Before(Open(b), Elems(Stk))
      /\ Open(calls) = Open(b) \cup Elems(Stk)
      /\ Open(calls) \subseteq 1..Len(nodes)
  BY <1>1, ParseFacts
<1>3. Acyclic(nodes) /\ ret \in 0..Len(nodes) /\ Unshared(nodes, Open(calls))
      /\ \A k \in 1..Len(forms) : forms[k].node \in (0..Len(nodes)) \ Open(calls)
  BY DEF Shape, TypeOK
<1>4. /\ Acyclic(ns) /\ Len(ns) = n /\ Len(nodes) \in Nat
      /\ ns[n] = NewNode("list", <<>>)
      /\ \A k \in 1..Len(nodes) : ns[k] = nodes[k]
      /\ \A x : Grown(nodes, ns, x)
      /\ \A O : Unshared(nodes, O) => Unshared(ns, O)
  BY <1>3, NewFacts
<1> HIDE DEF ns
<1>5. n \in Nat \ {0}
  BY <1>4
<1>6. s \in Seq(Nat \ {0})
  BY <1>2, <1>5
<1>7. calls' = Append(b, d) /\ d \in Call
  BY <1>1, <1>2, <1>6, CallsFacts
<1>8. Open(b) \subseteq (1..Len(nodes)) \ {0} /\ Elems(Stk) \subseteq (1..Len(nodes)) \ {0}
  <2>1. Open(b) \cup Elems(Stk) \subseteq 1..Len(nodes) /\ 0 \notin 1..Len(nodes)
    BY <1>2, <1>4
  <2> QED
    BY <2>1
<1>9. Elems(s) = Elems(Stk) \cup {n} /\ Increasing(s) /\ Before(Open(b), Elems(s))
  <2>1. Elems(s) = Elems(Stk) \cup {n} /\ (Increasing(s) <=> Increasing(Stk) /\ Before(Elems(Stk), {n}))
    BY <1>2, <1>5, ElemsFacts
  <2>2. Before(Elems(Stk), {n}) /\ Before(Open(b), {n})
    BY <1>4, <1>8 DEF Before
  <2> QED
    BY <1>2, <2>1, <2>2 DEF Before
<1>10. PlainAll(ns, s) /\ AllWait(ns, b)
  <2>1. Grown(nodes, ns, 0)
    BY <1>4
  <2>2. PlainAll(ns, Stk)
    BY <1>2, <1>3, <1>8, <2>1, PlainAllStable
  <2>3. AllWait(ns, b)
    BY <1>2, <1>3, <1>8, <2>1, AllWaitStable
  <2>4. Plain(ns, n)
    BY <1>4 DEF Plain, NewNode, Quotes
  <2>5. PlainAll(ns, s)
    BY <1>2, <1>5, <2>2, <2>4, PlainAppend
  <2> QED
    BY <2>3, <2>5
<1>11. d.stk = s /\ d.wait = "none"
  OBVIOUS
<1> HIDE DEF d, s
<1>12. Open(calls') = Open(b) \cup Elems(s) /\ Ordered(calls')
  BY <1>2, <1>7, <1>9, <1>11, OpenFacts
<1>13. calls' # <<>> /\ Front(calls') = b /\ Last(calls') = d /\ calls' \in Seq(Call)
  BY <1>2, <1>7, FrontOfAppend, LastOfAppend
<1>14. Open(calls') = Open(calls) \cup {n} /\ Open(calls') \subseteq 1..Len(ns)
  BY <1>2, <1>4, <1>9, <1>12
<1>15. Unshared(ns, Open(calls'))
  <2> SUFFICES ASSUME NEW y \in 1..Len(ns), NEW k \in 1..Len(ns[y].args), ns[y].args[k] = n PROVE FALSE
    BY <1>3, <1>4, <1>14 DEF Unshared
  <2>1. y \in 1..Len(nodes)
    BY <1>4 DEF NewNode
  <2>2. k \in 1..Len(nodes[y].args) /\ nodes[y].args[k] = n
    BY <1>4, <2>1
  <2>3. nodes[y].args[k] = Garbage \/ nodes[y].args[k] \in (y + 1)..Len(nodes)
    BY <1>3, <2>1, <2>2 DEF Acyclic
  <2> QED
    BY <1>4, <2>1, <2>2, <2>3 DEF Garbage
<1>16. Runs(ns, d)
  BY <1>10, <1>11 DEF Runs
<1>17. ShapeTypes'
  BY <1>1, <1>3, <1>4, <1>13 DEF ShapeTypes, Acyclic
<1>18. \A k \in 1..Len(forms') : forms'[k].node \in (0..Len(nodes')) \ Open(calls')
  BY <1>1, <1>3, <1>4, <1>14
<1>19. Shape'
  BY <1>1, <1>4, <1>10, <1>12, <1>13, <1>14, <1>15, <1>16, <1>18 DEF Shape
<1> QED
  BY <1>17, <1>19

\* A closing parenthesis completes the innermost list.
LEMMA ShapeCloseList ==
  ASSUME TypeOK, Shape, CloseList
  PROVE  ShapeTypes' /\ Shape'
<1>1. pc = "parse" /\ Stk # <<>> /\ REDUCE_STK(nodes) /\ UNCHANGED <<input, forms>>
  BY DEF CloseList
<1>2. /\ calls # <<>> /\ Stk \in Seq(Nat \ {0})
      /\ AllWait(nodes, Front(calls)) /\ PlainAll(nodes, Stk)
  BY <1>1, ParseFacts
<1>3. Front(Stk) \in Seq(Nat \ {0}) /\ Last(Stk) \in Nat \ {0} /\ Stk = Append(Front(Stk), Last(Stk))
  BY <1>1, <1>2, FrontLast
<1>4. PlainAll(nodes, Front(Stk)) /\ Plain(nodes, Last(Stk))
  BY <1>2, <1>3, PlainAppend, Zenon
<1>5. Acyclic(nodes) /\ Grown(nodes, nodes, Last(Stk)) /\ Unshared(nodes, Open(calls))
  BY DEF Shape, Grown, Acyclic
<1>6. nodes[Last(Stk)].text = "list"
  BY <1>4 DEF Plain
<1> QED
  BY <1>1, <1>2, <1>4, <1>5, <1>6, ReduceShape

\* A quote starts an activation under a list of its own.
LEMMA ShapeQuote ==
  ASSUME TypeOK, Shape, Quote
  PROVE  ShapeTypes' /\ Shape'
<1> DEFINE b == Front(calls)
           l == Len(nodes) + 1
           ns == nodes \o <<NewNode("list", <<l + 1>>), NewNode("quote", <<>>)>>
           s == Append(Stk, l)
           d == [stk |-> s, wait |-> "quote"]
           e == [stk |-> <<>>, wait |-> "none"]
<1>1. /\ pc = "parse" /\ pc' = pc /\ ret' = ret /\ forms' = forms
      /\ nodes' = ns /\ calls' = Nested(s, "quote")
  BY DEF Quote
<1>2. /\ calls # <<>> /\ b \in Seq(Call) /\ Stk \in Seq(Nat \ {0})
      /\ AllWait(nodes, b) /\ PlainAll(nodes, Stk)
      /\ Ordered(b) /\ Increasing(Stk) /\ Before(Open(b), Elems(Stk))
      /\ Open(calls) = Open(b) \cup Elems(Stk)
      /\ Open(calls) \subseteq 1..Len(nodes)
  BY <1>1, ParseFacts
<1>3. Acyclic(nodes) /\ ret \in 0..Len(nodes) /\ Unshared(nodes, Open(calls))
      /\ \A k \in 1..Len(forms) : forms[k].node \in (0..Len(nodes)) \ Open(calls)
  BY DEF Shape, TypeOK
<1>4. /\ Acyclic(ns) /\ Len(ns) = Len(nodes) + 2 /\ Len(nodes) \in Nat
      /\ ns[l] = NewNode("list", <<l + 1>>) /\ ns[l + 1] = NewNode("quote", <<>>)
      /\ \A k \in 1..Len(nodes) : ns[k] = nodes[k]
      /\ \A x : Grown(nodes, ns, x)
      /\ \A O : Unshared(nodes, O) /\ l + 1 \notin O => Unshared(ns, O)
  BY <1>3, QuoteFacts
<1> HIDE DEF ns
<1>5. l \in Nat \ {0}
  BY <1>4
<1>6. s \in Seq(Nat \ {0})
  BY <1>2, <1>5
<1>7. calls' = Append(Append(b, d), e) /\ d \in Call /\ e \in Call
  BY <1>1, <1>2, <1>6, CallsFacts
<1>8. Open(b) \subseteq (1..Len(nodes)) \ {0} /\ Elems(Stk) \subseteq (1..Len(nodes)) \ {0}
  <2>1. Open(b) \cup Elems(Stk) \subseteq 1..Len(nodes) /\ 0 \notin 1..Len(nodes)
    BY <1>2, <1>4
  <2> QED
    BY <2>1
<1>9. Elems(s) = Elems(Stk) \cup {l} /\ Increasing(s) /\ Before(Open(b), Elems(s))
  <2>1. Elems(s) = Elems(Stk) \cup {l} /\ (Increasing(s) <=> Increasing(Stk) /\ Before(Elems(Stk), {l}))
    BY <1>2, <1>5, ElemsFacts
  <2>2. Before(Elems(Stk), {l}) /\ Before(Open(b), {l})
    BY <1>4, <1>8 DEF Before
  <2> QED
    BY <1>2, <2>1, <2>2 DEF Before
<1>10. d.stk = s /\ d.wait = "quote" /\ e.stk = <<>> /\ e.wait = "none"
  OBVIOUS
<1>11. Waits(ns, d) /\ AllWait(ns, b)
  <2>1. Grown(nodes, ns, 0)
    BY <1>4
  <2>2. PlainAll(ns, Stk)
    BY <1>2, <1>3, <1>8, <2>1, PlainAllStable
  <2>3. AllWait(ns, b)
    BY <1>2, <1>3, <1>8, <2>1, AllWaitStable
  <2>4. Front(s) = Stk /\ Last(s) = l /\ s # <<>>
    BY <1>2, <1>5, FrontOfAppend, LastOfAppend
  <2>5. Half(ns, l, "quote")
    <3>1. ns[l].text = "list" /\ ns[l].dotted = FALSE /\ ns[l].args = <<l + 1>> /\ ns[l + 1].text = "quote"
      BY <1>4 DEF NewNode
    <3>2. Len(<<l + 1>>) = 1 /\ <<l + 1>>[1] = l + 1 /\ <<l + 1>> # <<>>
      OBVIOUS
    <3> QED
      BY <3>1, <3>2 DEF Half, Quotes
  <2> HIDE DEF d, s
  <2> QED
    BY <1>10, <2>2, <2>3, <2>4, <2>5 DEF Waits
<1> HIDE DEF d, e, s
<1>12. Open(calls') = Open(b) \cup Elems(s) /\ Ordered(calls') /\ AllWait(ns, Append(b, d))
  <2>1. Append(b, d) \in Seq(Call)
    BY <1>2, <1>7
  <2>2. /\ Open(Append(b, d)) = Open(b) \cup Elems(s) /\ Ordered(Append(b, d))
        /\ AllWait(ns, Append(b, d))
    BY <1>2, <1>7, <1>9, <1>10, <1>11, OpenFacts
  <2>3. Elems(e.stk) = {} /\ Increasing(e.stk) /\ Before(Open(Append(b, d)), Elems(e.stk))
    BY <1>10, ElemsFacts DEF Before
  <2>4. /\ Open(calls') = Open(Append(b, d)) \cup Elems(e.stk)
        /\ Ordered(calls')
    BY <1>7, <2>1, <2>2, <2>3, OpenFacts
  <2> QED
    BY <2>2, <2>3, <2>4
<1>13. calls' # <<>> /\ Front(calls') = Append(b, d) /\ Last(calls') = e /\ calls' \in Seq(Call)
  <2> DEFINE w == Append(b, d)
  <2>1. w \in Seq(Call) /\ calls' = Append(w, e)
    BY <1>2, <1>7
  <2> HIDE DEF w
  <2>2. calls' \in Seq(Call)
    BY <1>7, <2>1
  <2>3. calls' # <<>> /\ Front(calls') = w /\ Last(calls') = e
    BY <1>7, <2>1, FrontOfAppend, LastOfAppend
  <2> QED
    BY <2>2, <2>3 DEF w
<1>14. Open(calls') = Open(calls) \cup {l} /\ Open(calls') \subseteq 1..Len(ns) /\ l + 1 \notin Open(calls')
  BY <1>2, <1>4, <1>9, <1>12
<1>15. Unshared(ns, Open(calls'))
  <2>1. Unshared(nodes, Open(calls'))
    <3> SUFFICES ASSUME NEW y \in 1..Len(nodes), NEW k \in 1..Len(nodes[y].args), nodes[y].args[k] = l PROVE FALSE
      BY <1>3, <1>14 DEF Unshared
    <3>1. nodes[y].args[k] = Garbage \/ nodes[y].args[k] \in (y + 1)..Len(nodes)
      BY <1>3 DEF Acyclic
    <3> QED
      BY <1>4, <3>1 DEF Garbage
  <2> QED
    BY <1>4, <1>14, <2>1
<1>16. Runs(ns, e)
  BY <1>10 DEF Runs, PlainAll
<1>17. ShapeTypes'
  BY <1>1, <1>3, <1>4, <1>13 DEF ShapeTypes, Acyclic
<1>18. \A k \in 1..Len(forms') : forms'[k].node \in (0..Len(nodes')) \ Open(calls')
  BY <1>1, <1>3, <1>4, <1>14
<1>19. Shape'
  BY <1>1, <1>4, <1>12, <1>13, <1>14, <1>15, <1>16, <1>18 DEF Shape
<1> QED
  BY <1>17, <1>19

\* A dot starts an activation under the innermost list.
LEMMA ShapeDot ==
  ASSUME TypeOK, Shape, Dot
  PROVE  ShapeTypes' /\ Shape'
<1> DEFINE b == Front(calls)
           r == Front(Stk)
           x == Last(Stk)
           ns == [nodes EXCEPT ![x].dotted = TRUE]
           d == [stk |-> Stk, wait |-> "dot"]
           e == [stk |-> <<>>, wait |-> "none"]
<1>1. /\ pc = "parse" /\ pc' = pc /\ ret' = ret /\ forms' = forms /\ Stk # <<>>
      /\ nodes' = ns /\ calls' = Nested(Stk, "dot")
  BY DEF Dot
<1>2. /\ calls # <<>> /\ b \in Seq(Call) /\ Stk \in Seq(Nat \ {0})
      /\ AllWait(nodes, b) /\ PlainAll(nodes, Stk)
      /\ Ordered(b) /\ Increasing(Stk) /\ Before(Open(b), Elems(Stk))
      /\ Open(calls) = Open(b) \cup Elems(Stk)
      /\ Open(calls) \subseteq 1..Len(nodes)
  BY <1>1, ParseFacts
<1>3. Acyclic(nodes) /\ ret \in 0..Len(nodes) /\ Unshared(nodes, Open(calls))
      /\ \A k \in 1..Len(forms) : forms[k].node \in (0..Len(nodes)) \ Open(calls)
  BY DEF Shape, TypeOK
<1>4. /\ r \in Seq(Nat \ {0}) /\ x \in 1..Len(nodes) /\ Stk = Append(r, x)
      /\ Before(Open(b) \cup Elems(r), {x}) /\ Open(calls) = Open(b) \cup Elems(r) \cup {x}
  BY <1>1, <1>2, TopFacts
<1> HIDE DEF r, x
<1>5. /\ Acyclic(ns) /\ Len(ns) = Len(nodes) /\ Grown(nodes, ns, x)
      /\ ns[x].text = nodes[x].text /\ ns[x].dotted /\ ns[x].args = nodes[x].args
      /\ \A O : Unshared(nodes, O) => Unshared(ns, O)
  BY <1>3, <1>4, DotFacts
<1> HIDE DEF ns
<1>6. PlainAll(nodes, r) /\ Plain(nodes, x)
  <2>1. x \in Nat \ {0}
    BY <1>4
  <2> QED
    BY <1>2, <1>4, <2>1, PlainAppend
<1>7. Open(b) \subseteq (1..Len(nodes)) \ {x} /\ Elems(r) \subseteq (1..Len(nodes)) \ {x}
  <2>1. Open(b) \cup Elems(r) \subseteq 1..Len(nodes)
    BY <1>2, <1>4
  <2>2. x \notin Open(b) \cup Elems(r)
    BY <1>4 DEF Before
  <2> QED
    BY <2>1, <2>2
<1>8. calls' = Append(Append(b, d), e) /\ d \in Call /\ e \in Call
  BY <1>1, <1>2, CallsFacts
<1>9. d.stk = Stk /\ d.wait = "dot" /\ e.stk = <<>> /\ e.wait = "none"
  OBVIOUS
<1> HIDE DEF d, e
<1>10. Waits(ns, d) /\ AllWait(ns, b)
  <2>1. PlainAll(ns, r)
    BY <1>3, <1>5, <1>6, <1>7, PlainAllStable
  <2>2. AllWait(ns, b)
    BY <1>2, <1>3, <1>5, <1>7, AllWaitStable
  <2>3. Half(ns, x, "dot")
    BY <1>5, <1>6 DEF Half, Plain
  <2> QED
    BY <1>1, <1>9, <2>1, <2>2, <2>3 DEF Waits, r, x
<1>11. Open(calls') = Open(calls) /\ Ordered(calls') /\ AllWait(ns, Append(b, d))
  <2>1. Append(b, d) \in Seq(Call)
    BY <1>2, <1>8
  <2>2. /\ Open(Append(b, d)) = Open(b) \cup Elems(Stk) /\ Ordered(Append(b, d))
        /\ AllWait(ns, Append(b, d))
    BY <1>2, <1>8, <1>9, <1>10, OpenFacts
  <2>3. Elems(e.stk) = {} /\ Increasing(e.stk) /\ Before(Open(Append(b, d)), Elems(e.stk))
    BY <1>9, ElemsFacts DEF Before
  <2>4. /\ Open(calls') = Open(Append(b, d)) \cup Elems(e.stk)
        /\ Ordered(calls')
    BY <1>8, <2>1, <2>2, <2>3, OpenFacts
  <2> QED
    BY <1>2, <2>2, <2>3, <2>4
<1>12. calls' # <<>> /\ Front(calls') = Append(b, d) /\ Last(calls') = e /\ calls' \in Seq(Call)
  <2> DEFINE w == Append(b, d)
  <2>1. w \in Seq(Call) /\ calls' = Append(w, e)
    BY <1>2, <1>8
  <2> HIDE DEF w
  <2>2. calls' \in Seq(Call)
    BY <1>8, <2>1
  <2>3. calls' # <<>> /\ Front(calls') = w /\ Last(calls') = e
    BY <1>8, <2>1, FrontOfAppend, LastOfAppend
  <2> QED
    BY <2>2, <2>3 DEF w
<1>13. Runs(ns, e)
  BY <1>9 DEF Runs, PlainAll
<1>14. ShapeTypes'
  BY <1>1, <1>3, <1>5, <1>12 DEF ShapeTypes, Acyclic
<1>15. Shape'
  BY <1>1, <1>2, <1>3, <1>5, <1>11, <1>12, <1>13 DEF Shape
<1> QED
  BY <1>14, <1>15

-----------------------------------------------------------------------------

(***************************************************************************)
(* The innermost list takes what the activation that just ended returned, and *)
(* is complete.                                                             *)
(***************************************************************************)
LEMMA ShapeReduceRet ==
  ASSUME TypeOK, Shape, pc = "return", calls # <<>>,
         ret = Garbage => nodes[Last(Stk)].args # <<>>,
         REDUCE_STK(addArgument(nodes, Last(Stk), ret)), UNCHANGED <<input, forms>>
  PROVE  ShapeTypes' /\ Shape'
<1> DEFINE x == Last(Stk)
           ns == addArgument(nodes, x, ret)
<1>1. /\ AllWait(nodes, Front(calls)) /\ PlainAll(nodes, Front(Stk))
      /\ Half(nodes, x, Last(calls).wait) /\ Stk # <<>>
  BY WaitFacts
<1>2. x \in 1..Len(nodes) /\ x \in Open(calls)
  BY <1>1, TopFacts
<1>3. /\ Acyclic(nodes) /\ ret \in 0..Len(nodes) /\ Len(nodes) \in Nat
      /\ Unshared(nodes, Open(calls)) /\ Open(calls) \subseteq 1..Len(nodes)
      /\ ret # Garbage => Before(Open(calls), {ret})
  BY DEF Shape, TypeOK
<1>4. ret \in (x + 1)..Len(nodes) \/ (ret = 0 /\ nodes[x].args # <<>>)
  BY <1>2, <1>3 DEF Garbage, Before
<1>5. ret \notin Open(calls)
  BY <1>3 DEF Garbage, Before
<1> HIDE DEF x
<1>6. /\ Acyclic(ns) /\ Len(ns) = Len(nodes) /\ Grown(nodes, ns, x)
      /\ \A O : Unshared(nodes, O) /\ ret \notin O => Unshared(ns, O)
  BY <1>2, <1>3, <1>4, AddFacts
<1>7. nodes[x].text = "list"
  BY <1>1 DEF Half
<1>8. Unshared(ns, Open(calls))
  BY <1>3, <1>5, <1>6
<1>9. REDUCE_STK(ns) /\ UNCHANGED <<input, forms>>
  BY DEF x
<1> HIDE DEF ns
<1> QED
  BY <1>1, <1>6, <1>7, <1>8, <1>9, ReduceShape DEF x

\* The list behind a quote or a dot is completed when the activation returns.
LEMMA ShapeAfter ==
  ASSUME TypeOK, Shape, AfterQuote \/ AfterDot
  PROVE  ShapeTypes' /\ Shape'
<1>1. CASE AfterQuote
  <2>1. pc = "return" /\ calls # <<>> /\ Last(calls).wait = "quote"
        /\ REDUCE_STK(addArgument(nodes, Last(Stk), ret)) /\ UNCHANGED <<input, forms>>
    BY <1>1 DEF AfterQuote
  <2>2. Half(nodes, Last(Stk), "quote")
    BY <2>1, WaitFacts
  <2>3. nodes[Last(Stk)].args # <<>>
    BY <2>2 DEF Half, Quotes
  <2> QED
    BY <2>1, <2>3, ShapeReduceRet
<1>2. CASE AfterDot
  <2>1. pc = "return" /\ calls # <<>> /\ Peek = ")"
        /\ REDUCE_STK(addArgument(nodes, Last(Stk), ret)) /\ UNCHANGED <<input, forms>>
    BY <1>2 DEF AfterDot, Matching
  <2>2. ret # Garbage
    <3>1. Peek # "EOF" => pos + 1 \in 1..Len(input)
      BY PeekFacts
    <3>2. pos # Len(input)
      BY <2>1, PeekFacts
    <3> QED
      BY <2>1, <3>2 DEF Shape
  <2> QED
    BY <2>1, <2>2, ShapeReduceRet
<1> QED
  BY <1>1, <1>2

\* The end of the input, and main()'s loop.
LEMMA ShapeMain ==
  ASSUME TypeOK, Shape, EndOfInput \/ MainLoop \/ Take
  PROVE  ShapeTypes' /\ Shape'
<1>0. /\ nodes \in Seq(Node) /\ calls \in Seq(Call) /\ ret \in 0..Len(nodes) /\ Len(nodes) \in Nat
      /\ forms \in Seq(Form)
  BY DEF TypeOK
<1>1. CASE EndOfInput
  <2>1. pc = "parse" /\ Peek = "EOF" /\ UNCHANGED <<input, pos, nodes, forms>>
        /\ (Return(Garbage) \/ (pc' = "crash" /\ UNCHANGED <<calls, ret>>))
    BY <1>1 DEF EndOfInput
  <2>2. CASE Return(Garbage)
    <3> DEFINE b == Front(calls)
    <3>1. /\ b \in Seq(Call) /\ AllWait(nodes, b) /\ Ordered(b)
          /\ Open(calls) = Open(b) \cup Elems(Stk) /\ Open(calls) \subseteq 1..Len(nodes)
      BY <2>1, ParseFacts
    <3>2. pc' = "return" /\ ret' = Garbage /\ calls' = b
      BY <2>2 DEF Return
    <3> HIDE DEF b
    <3>3. ShapeTypes'
      BY <1>0, <2>1, <3>1, <3>2 DEF ShapeTypes, Garbage
    <3>4. Open(b) \subseteq Open(calls)
      BY <3>1
    <3>5. Unshared(nodes, Open(b))
      BY <3>4, UnsharedSubset DEF Shape
    <3>6. pos = Len(input)
      BY <2>1, PeekFacts
    <3>7. Shape'
      BY <2>1, <3>1, <3>2, <3>4, <3>5, <3>6 DEF Shape
    <3> QED
      BY <3>3, <3>7
  <2>3. CASE pc' = "crash" /\ UNCHANGED <<calls, ret>>
    BY <1>0, <2>1, <2>3 DEF ShapeTypes, Shape
  <2> QED
    BY <2>1, <2>2, <2>3
<1>2. CASE MainLoop
  <2>1. pc = "main" /\ UNCHANGED <<input, pos, nodes, ret, forms>>
        /\ pc' = (IF Peek = "EOF" THEN "exit" ELSE "parse")
        /\ calls' = IF Peek = "EOF" THEN <<>> ELSE <<[stk |-> <<>>, wait |-> "none"]>>
    BY <1>2 DEF MainLoop
  <2>2. calls = <<>>
    BY <2>1 DEF Shape
  <2>3. CASE Peek = "EOF"
    BY <1>0, <2>1, <2>2, <2>3 DEF ShapeTypes, Shape
  <2>4. CASE Peek # "EOF"
    <3> DEFINE e == [stk |-> <<>>, wait |-> "none"]
    <3>1. e \in Call /\ e.stk = <<>> /\ e.wait = "none"
      BY DEF Call
    <3>2. calls' = Append(<<>>, e) /\ pc' = "parse"
      BY <2>1, <2>4
    <3> HIDE DEF e
    <3>3. <<>> \in Seq(Call)
      OBVIOUS
    <3>4. Front(calls') = <<>> /\ Last(calls') = e /\ calls' # <<>> /\ calls' \in Seq(Call)
      <4> DEFINE z == <<>>
      <4>1. z \in Seq(Call) /\ calls' = Append(z, e) /\ calls' \in Seq(Call)
        BY <3>1, <3>2
      <4> HIDE DEF z
      <4>2. Front(calls') = z /\ Last(calls') = e /\ calls' # <<>>
        BY <3>1, <4>1, FrontOfAppend, LastOfAppend
      <4> QED
        BY <4>1, <4>2 DEF z
    <3>5. Open(calls') = {} /\ Ordered(calls')
      <4>1. Elems(e.stk) = {} /\ Increasing(e.stk) /\ Open(<<>>) = {} /\ Ordered(<<>>)
            /\ Before(Open(<<>>), Elems(e.stk))
        BY <3>1, ElemsFacts, OpenFacts DEF Before
      <4> QED
        BY <3>1, <3>2, <3>3, <4>1, OpenFacts
    <3>6. AllWait(nodes, <<>>) /\ Runs(nodes, e)
      BY <3>1, OpenFacts DEF Runs, PlainAll
    <3>7. Open(calls) = {}
      BY <2>2, OpenFacts
    <3>8. ShapeTypes'
      BY <1>0, <2>1, <3>2, <3>4 DEF ShapeTypes
    <3>9. Shape'
      BY <2>1, <3>2, <3>4, <3>5, <3>6, <3>7 DEF Shape
    <3> QED
      BY <3>8, <3>9
  <2> QED
    BY <2>3, <2>4
<1>3. CASE Take
  <2>1. /\ pc' = "main" /\ calls = <<>> /\ UNCHANGED <<input, pos, nodes, calls, ret>>
        /\ forms' = Append(forms, [node |-> ret, end |-> pos])
    BY <1>3 DEF Take
  <2>2. Open(calls) = {}
    BY <2>1, OpenFacts
  <2>3. \A k \in 1..Len(forms') : forms'[k].node \in (0..Len(nodes)) \ Open(calls)
    <3> DEFINE f == [node |-> ret, end |-> pos]
    <3>1. f.node = ret /\ forms' = Append(forms, f)
      BY <2>1
    <3> HIDE DEF f
    <3>2. Len(forms') = Len(forms) + 1 /\ Len(forms) \in Nat /\ forms'[Len(forms) + 1] = f
          /\ \A k \in 1..Len(forms) : forms'[k] = forms[k]
      BY <1>0, <3>1
    <3>3. \A k \in 1..Len(forms) : forms[k].node \in 0..Len(nodes)
      BY DEF Shape
    <3> SUFFICES ASSUME NEW k \in 1..Len(forms') PROVE forms'[k].node \in 0..Len(nodes)
      BY <2>2
    <3>4. k = Len(forms) + 1 \/ k \in 1..Len(forms)
      BY <3>2
    <3> QED
      BY <1>0, <3>1, <3>2, <3>3, <3>4
  <2> QED
    BY <1>0, <2>1, <2>3 DEF ShapeTypes, Shape
<1> QED
  BY <1>1, <1>2, <1>3

\* Every step keeps the shape.
LEMMA ShapeStep ==
  ASSUME TypeOK, Shape, Next
  PROVE  ShapeTypes' /\ Shape'
<1>1. CASE LexerError \/ Endless \/ Unexpected \/ Mismatch
  <2>1. pc' \in {"error", "endless"} /\ UNCHANGED <<input, nodes, calls, ret, forms>>
    BY <1>1 DEF LexerError, Endless, Unexpected, Mismatch, Throws
  <2> QED
    BY <2>1 DEF ShapeTypes, Shape, TypeOK
<1> QED
  BY <1>1, ShapeDatum, ShapeOpenList, ShapeCloseList, ShapeQuote, ShapeDot, ShapeAfter,
     ShapeMain DEF Next

\* Where the lexer and the parser are in the input.
LEMMA PosStep ==
  ASSUME TypeOK, Next
  PROVE  /\ input' = input /\ pos' \in 0..Len(input) /\ fetched' \in {pos', pos' + 1}
         /\ forms' \in Seq(Form)
<1>1. /\ Len(input) \in Nat /\ pos \in 0..Len(input) /\ fetched \in {pos, pos + 1}
      /\ forms \in Seq(Form) /\ ret \in Nat
  BY PeekFacts DEF TypeOK
<1>2. input' = input
  BY DEF Next, Datum, OpenList, CloseList, Quote, Dot, AfterQuote, AfterDot, LexerError,
         Endless, Unexpected, Mismatch, EndOfInput, MainLoop, Take, Throws
<1>3. forms' \in Seq(Form)
  <2>1. CASE Take
    <3>1. [node |-> ret, end |-> pos] \in Form
      BY <1>1 DEF Form
    <3> QED
      BY <1>1, <2>1, <3>1 DEF Take
  <2>2. CASE ~Take
    <3>1. forms' = forms
      BY <2>2 DEF Next, Datum, OpenList, CloseList, Quote, Dot, AfterQuote, AfterDot,
                  LexerError, Endless, Unexpected, Mismatch, EndOfInput, MainLoop, Throws
    <3> QED
      BY <1>1, <3>1
  <2> QED
    BY <2>1, <2>2
<1>4. Peek # "EOF" /\ Consume => pos' \in 0..Len(input) /\ fetched' \in {pos', pos' + 1}
  <2>1. Peek # "EOF" => pos # Len(input)
    BY PeekFacts
  <2> QED
    BY <1>1, <2>1 DEF Consume
<1>5. Atom \cap {"EOF"} = {}
  BY ParserAssumption
<1>6. \/ Peek # "EOF" /\ Consume
      \/ UNCHANGED pos /\ (Fill \/ UNCHANGED fetched)
  BY <1>5 DEF Next, Datum, OpenList, CloseList, Quote, Dot, AfterQuote, AfterDot, LexerError,
         Endless, Unexpected, Mismatch, EndOfInput, MainLoop, Take
<1> QED
  BY <1>1, <1>2, <1>3, <1>4, <1>6 DEF Fill

(***************************************************************************)
(* The variables keep their types, and the stacks and the nodes their shape.  *)
(***************************************************************************)
LEMMA ShapeInv == Spec => [](TypeOK /\ Shape)
<1>1. Init => TypeOK /\ Shape
  <2> SUFFICES ASSUME Init PROVE TypeOK /\ Shape
    OBVIOUS
  <2>1. input \in Seq(Tokens) /\ Len(input) \in Nat
    BY ParserAssumption DEF Init
  <2>2. Open(calls) = {} /\ Ordered(calls)
    BY OpenFacts DEF Init
  <2>3. Acyclic(nodes) /\ Unshared(nodes, {})
    BY DEF Acyclic, Unshared, Init
  <2>4. Shape
    BY <2>2, <2>3 DEF Shape, Init
  <2> QED
    BY <2>1, <2>4 DEF TypeOK, Init, Garbage
<1>2. TypeOK /\ Shape /\ [Next]_vars => (TypeOK /\ Shape)'
  <2> SUFFICES ASSUME TypeOK, Shape, [Next]_vars PROVE (TypeOK /\ Shape)'
    OBVIOUS
  <2>1. CASE Next
    <3>1. ShapeTypes' /\ Shape'
      BY <2>1, ShapeStep
    <3>2. /\ input' = input /\ pos' \in 0..Len(input) /\ fetched' \in {pos', pos' + 1}
          /\ forms' \in Seq(Form)
      BY <2>1, PosStep
    <3> QED
      BY <3>1, <3>2 DEF ShapeTypes, TypeOK
  <2>2. CASE UNCHANGED vars
    BY <2>2 DEF vars, TypeOK, Shape
  <2> QED
    BY <2>1, <2>2
<1> QED
  BY <1>1, <1>2, PTL DEF Spec

-----------------------------------------------------------------------------

\* What is written of an open list so far.
Opening(ns, x) ==
  IF x = Garbage THEN <<>>
  ELSE IF ns[x].dotted THEN <<"(">> \o Each(Texts(ns), ns[x].args) \o <<".">>
  ELSE IF Quotes(ns, ns[x].args) THEN <<"'">> \o Each(Texts(ns), Tail(ns[x].args))
  ELSE <<"(">> \o Each(Texts(ns), ns[x].args)

Spine(O) == {0} \cup O

Top(O, x) == x \in Spine(O) /\ \A z \in Spine(O) : z <= x

Adjacent(O, x, y) ==
  /\ x \in Spine(O) /\ y \in Spine(O) /\ x < y
  /\ \A z \in Spine(O) : z <= x \/ y <= z

Places == 1..(Len(input) + 1)

(***************************************************************************)
(* The openings of the lists O, from the outermost on, are the tokens from    *)
(* at[0] to the one before tip: that of x starts at token at[x].             *)
(***************************************************************************)
Chain(ns, O, at, tip) ==
  /\ at \in [Spine(O) -> Places] /\ tip \in Places
  /\ \A x, y : Adjacent(O, x, y) =>
       at[x] <= at[y] /\ Opening(ns, x) = SubSeq(input, at[x], at[y] - 1)
  /\ \A x : Top(O, x) =>
       at[x] <= tip /\ Opening(ns, x) = SubSeq(input, at[x], tip - 1)

\* The nodes X have the same openings.
SameOpening(ns, ms, X) == \A z \in X : Opening(ms, z) = Opening(ns, z)

\* Consecutive parts of the input.
LEMMA Join ==
  ASSUME input \in Seq(Tokens), NEW i \in Places, NEW j \in Places, NEW k \in Places,
         i <= j, j <= k
  PROVE  SubSeq(input, i, j - 1) \o SubSeq(input, j, k - 1) = SubSeq(input, i, k - 1)
<1>1. Len(input) \in Nat
  OBVIOUS
<1>2. /\ i \in 1..(Len(input) + 1) /\ j - 1 \in (i - 1)..Len(input)
      /\ k - 1 \in (j - 1)..Len(input) /\ (j - 1) + 1 = j
  BY <1>1 DEF Places
<1> DEFINE m == j - 1
           n == k - 1
<1> HIDE DEF m, n
<1>3. m \in (i - 1)..Len(input) /\ n \in m..Len(input) /\ m + 1 = j
  BY <1>2 DEF m, n
<1>4. SubSeq(input, i, m) \o SubSeq(input, m + 1, n) = SubSeq(input, i, n)
  BY <1>2, <1>3, ConcatAdjacentSubSeq DEF Places
<1> QED
  BY <1>3, <1>4 DEF m, n

\* One token, and no token.
LEMMA JoinOne ==
  ASSUME input \in Seq(Tokens), NEW i \in Places
  PROVE  /\ SubSeq(input, i, i - 1) = <<>>
         /\ i <= Len(input) => SubSeq(input, i, i) = <<input[i]>>
<1>1. Len(input) \in Nat /\ i \in Int /\ i - 1 \in Int /\ i - 1 < i
  BY DEF Places
<1>2. SubSeq(input, i, i - 1) = <<>>
  BY <1>1, SubSeqEmpty
<1>3. ASSUME i <= Len(input) PROVE SubSeq(input, i, i) = <<input[i]>>
  <2>1. i \in 1..Len(input) /\ i \in i..Len(input)
    BY <1>1, <1>3 DEF Places
  <2>2. SubSeq(input, i, i) = SubSeq(input, i, i - 1) \o <<input[i]>>
    BY <2>1, SubSeqRecursiveSecond
  <2>3. <<input[i]>> \in Seq(Tokens)
    BY <2>1
  <2> QED
    BY <1>2, <2>2, <2>3, ConcatEmptySeq
<1> QED
  BY <1>2, <1>3

\* A list is opened at the tip.
LEMMA ChainPush ==
  ASSUME Len(input) \in Nat, NEW ns, NEW ms, NEW O, O \subseteq Nat \ {0}, NEW at, NEW tip, Chain(ns, O, at, tip),
         NEW y \in Nat \ {0}, Before(O, {y}), NEW k \in Places, tip <= k,
         SameOpening(ns, ms, Spine(O)),
         Opening(ms, y) = SubSeq(input, tip, k - 1)
  PROVE  \E au : au[0] = at[0] /\ Chain(ms, O \cup {y}, au, k)
<1> DEFINE Q == O \cup {y}
           au == [x \in Spine(Q) |-> IF x = y THEN tip ELSE at[x]]
<1>0. \A z \in Spine(O) : Opening(ms, z) = Opening(ns, z)
  BY DEF SameOpening
<1>1. at \in [Spine(O) -> Places] /\ tip \in Places /\ tip \in Nat
  BY DEF Chain, Places
<1>2. y \notin Spine(O) /\ Spine(Q) = Spine(O) \cup {y} /\ Spine(O) \subseteq Nat
      /\ \A z \in Spine(O) : z < y
  BY DEF Spine, Before
<1>3. au \in [Spine(Q) -> Places] /\ au[y] = tip /\ \A z \in Spine(O) : au[z] = at[z]
  BY <1>1, <1>2
<1> HIDE DEF au, Q
<1>4. au[0] = at[0]
  BY <1>3 DEF Spine
<1>5. ASSUME NEW x, NEW z, Adjacent(Q, x, z)
      PROVE  au[x] <= au[z] /\ Opening(ms, x) = SubSeq(input, au[x], au[z] - 1)
  <2>1. x \in Spine(O)
    BY <1>2, <1>5 DEF Adjacent
  <2>2. CASE z = y
    <3>1. Top(O, x)
      BY <1>2, <1>5, <2>1, <2>2 DEF Adjacent, Top
    <3>2. at[x] <= tip /\ Opening(ns, x) = SubSeq(input, at[x], tip - 1)
      BY <3>1 DEF Chain
    <3> QED
      BY <1>0, <1>3, <2>1, <2>2, <3>2
  <2>3. CASE z # y
    <3>1. z \in Spine(O)
      BY <1>2, <1>5, <2>3 DEF Adjacent
    <3>2. Adjacent(O, x, z)
      BY <1>2, <1>5, <2>1, <3>1 DEF Adjacent
    <3>3. at[x] <= at[z] /\ Opening(ns, x) = SubSeq(input, at[x], at[z] - 1)
      BY <3>2 DEF Chain
    <3> QED
      BY <1>0, <1>3, <2>1, <3>1, <3>3
  <2> QED
    BY <2>2, <2>3
<1>6. ASSUME NEW x, Top(Q, x)
      PROVE  au[x] <= k /\ Opening(ms, x) = SubSeq(input, au[x], k - 1)
  <2>1. x = y
    <3>1. y <= x /\ x \in Spine(Q)
      BY <1>2, <1>6 DEF Top
    <3>2. x \in Spine(O) => x < y /\ x \in Nat
      BY <1>2
    <3> QED
      BY <1>2, <3>1, <3>2
  <2> QED
    BY <1>3, <2>1
<1>7. Chain(ms, Q, au, k)
  BY <1>3, <1>5, <1>6 DEF Chain
<1> QED
  BY <1>4, <1>7 DEF Q

\* More is written of the innermost list.
LEMMA ChainGrow ==
  ASSUME input \in Seq(Tokens), NEW ns, NEW ms, NEW O, O \subseteq Nat \ {0}, NEW at, NEW tip, Chain(ns, O, at, tip),
         NEW x, Top(O, x), NEW k \in Places, tip <= k,
         SameOpening(ns, ms, Spine(O) \ {x}),
         Opening(ms, x) = Opening(ns, x) \o SubSeq(input, tip, k - 1)
  PROVE  Chain(ms, O, at, k)
<1>0. \A z \in Spine(O) : z # x => Opening(ms, z) = Opening(ns, z)
  BY DEF SameOpening
<1>1. at \in [Spine(O) -> Places] /\ tip \in Places /\ x \in Spine(O) /\ Spine(O) \subseteq Nat
      /\ tip \in Nat /\ k \in Nat /\ at[x] \in Places /\ at[x] \in Nat
  BY DEF Chain, Top, Places, Spine
<1>2. ASSUME NEW w, NEW z, Adjacent(O, w, z)
      PROVE  at[w] <= at[z] /\ Opening(ms, w) = SubSeq(input, at[w], at[z] - 1)
  <2>1. w # x /\ w \in Spine(O)
    BY <1>1, <1>2 DEF Adjacent, Top
  <2>2. at[w] <= at[z] /\ Opening(ns, w) = SubSeq(input, at[w], at[z] - 1)
    BY <1>2 DEF Chain
  <2> QED
    BY <1>0, <2>1, <2>2
<1>3. ASSUME NEW w, Top(O, w)
      PROVE  at[w] <= k /\ Opening(ms, w) = SubSeq(input, at[w], k - 1)
  <2>1. w = x
    BY <1>1, <1>3 DEF Top
  <2>2. at[x] <= tip /\ Opening(ns, x) = SubSeq(input, at[x], tip - 1)
    BY DEF Chain
  <2>3. SubSeq(input, at[x], tip - 1) \o SubSeq(input, tip, k - 1) = SubSeq(input, at[x], k - 1)
    BY <1>1, <2>2, Join
  <2>4. Opening(ms, w) = SubSeq(input, at[w], k - 1)
    BY <2>1, <2>2, <2>3, Zenon
  <2>5. at[w] <= k
    BY <1>1, <2>1, <2>2
  <2> QED
    BY <2>4, <2>5
<1> QED
  BY <1>1, <1>2, <1>3 DEF Chain

\* The innermost list is taken away: the tip is where it started.
LEMMA ChainPop ==
  ASSUME NEW ns, NEW ms, NEW O, O \subseteq Nat \ {0}, NEW at, NEW tip, Chain(ns, O, at, tip),
         NEW x \in O, Top(O, x),
         SameOpening(ns, ms, Spine(O) \ {x})
  PROVE  /\ \E au : au[0] = at[0] /\ Chain(ms, O \ {x}, au, at[x])
         /\ at[x] \in Places /\ tip \in Places /\ at[x] <= tip
         /\ Opening(ns, x) = SubSeq(input, at[x], tip - 1)
<1>0. \A z \in Spine(O) : z # x => Opening(ms, z) = Opening(ns, z)
  BY DEF SameOpening
<1> DEFINE Q == O \ {x}
           au == [z \in Spine(Q) |-> at[z]]
<1>1. at \in [Spine(O) -> Places] /\ tip \in Places /\ at[x] \in Places
  BY DEF Chain, Spine
<1>2. Spine(O) = Spine(Q) \cup {x} /\ x \notin Spine(Q) /\ Spine(O) \subseteq Nat
      /\ \A z \in Spine(Q) : z < x
  BY DEF Spine, Top
<1>3. au \in [Spine(Q) -> Places] /\ \A z \in Spine(Q) : au[z] = at[z]
  BY <1>1, <1>2
<1> HIDE DEF au, Q
<1>4. au[0] = at[0]
  BY <1>3 DEF Spine
<1>6. at[x] <= tip /\ Opening(ns, x) = SubSeq(input, at[x], tip - 1)
  BY DEF Chain
<1>7. ASSUME NEW w, NEW z, Adjacent(Q, w, z)
      PROVE  au[w] <= au[z] /\ Opening(ms, w) = SubSeq(input, au[w], au[z] - 1)
  <2>1. w \in Spine(Q) /\ z \in Spine(Q) /\ z <= x /\ w # x
    BY <1>2, <1>7 DEF Adjacent
  <2>2. Adjacent(O, w, z)
    BY <1>2, <1>7, <2>1 DEF Adjacent
  <2>3. at[w] <= at[z] /\ Opening(ns, w) = SubSeq(input, at[w], at[z] - 1)
    BY <2>2 DEF Chain
  <2> QED
    BY <1>0, <1>2, <1>3, <2>1, <2>3
<1>8. ASSUME NEW w, Top(Q, w)
      PROVE  au[w] <= at[x] /\ Opening(ms, w) = SubSeq(input, au[w], at[x] - 1)
  <2>1. w \in Spine(Q) /\ w # x
    BY <1>2, <1>8 DEF Top
  <2>2. Adjacent(O, w, x)
    BY <1>2, <1>8, <2>1 DEF Adjacent, Top
  <2>3. at[w] <= at[x] /\ Opening(ns, w) = SubSeq(input, at[w], at[x] - 1)
    BY <2>2 DEF Chain
  <2> QED
    BY <1>0, <1>2, <1>3, <2>1, <2>3
<1>9. Chain(ms, Q, au, at[x])
  BY <1>1, <1>3, <1>7, <1>8 DEF Chain
<1> QED
  BY <1>1, <1>4, <1>6, <1>9 DEF Q

-----------------------------------------------------------------------------

\* The texts of the arguments of a node.
LEMMA ArgTexts ==
  ASSUME NEW ns, Acyclic(ns), NEW x \in 1..Len(ns)
  PROVE  /\ Spelt(Texts(ns), ns[x].args, Glyph)
         /\ Each(Texts(ns), ns[x].args) \in Seq(Glyph)
<1>1. Texts(ns) \in [0..Len(ns) -> Seq(Glyph)]
  BY TextsFacts
<1>2. ns[x].args \in Seq(Nat) /\ Len(ns) \in Nat
      /\ \A k \in 1..Len(ns[x].args) : ns[x].args[k] \in {0} \cup ((x + 1)..Len(ns))
  BY ArgsFacts
<1>3. \A k \in 1..Len(ns[x].args) : ns[x].args[k] \in 0..Len(ns)
  <2> DEFINE r == ns[x].args
  <2> SUFFICES ASSUME NEW k \in 1..Len(r) PROVE r[k] \in 0..Len(ns)
    OBVIOUS
  <2>1. r[k] \in {0} \cup ((x + 1)..Len(ns))
    BY <1>2
  <2> HIDE DEF r
  <2> QED
    BY <1>2, <2>1
<1>4. Spelt(Texts(ns), ns[x].args, Glyph)
  BY <1>1, <1>3 DEF Spelt
<1> QED
  BY <1>2, <1>4, EachIn

\* They do not change with the node.
LEMMA ArgsSame ==
  ASSUME NEW ns, Acyclic(ns), NEW ms, Acyclic(ms), NEW x, x # 0, Grown(ns, ms, x),
         Unshared(ns, {x}), NEW z \in 1..Len(ns)
  PROVE  Agree(Texts(ms), Texts(ns), ns[z].args)
<1>1. \A n \in 0..Len(ns) : n # x => Texts(ms)[n] = Texts(ns)[n]
  BY TextsStable
<1>2. Len(ns) \in Nat
      /\ \A k \in 1..Len(ns[z].args) : ns[z].args[k] \in {0} \cup ((z + 1)..Len(ns))
  BY ArgsFacts
<1> SUFFICES ASSUME NEW k \in 1..Len(ns[z].args)
             PROVE  Texts(ms)[ns[z].args[k]] = Texts(ns)[ns[z].args[k]]
  BY DEF Agree
<1>3. ns[z].args[k] \in 0..Len(ns)
  BY <1>2
<1>4. ns[z].args[k] # x
  BY DEF Unshared
<1> QED
  BY <1>1, <1>3, <1>4

\* What is written of another list stays.
LEMMA OpeningStable ==
  ASSUME NEW ns, Acyclic(ns), NEW ms, Acyclic(ms), NEW x, x # 0, Grown(ns, ms, x),
         Unshared(ns, {x}), NEW z \in 0..Len(ns), z # x
  PROVE  Opening(ms, z) = Opening(ns, z)
<1>1. CASE z = 0
  BY <1>1 DEF Opening, Garbage
<1>2. CASE z # 0
  <2>0. Len(ns) \in Nat
    BY DEF Acyclic
  <2>1. z \in 1..Len(ns)
    BY <1>2, <2>0
  <2>2. ns[z].args \in Seq(Nat) /\ (ns[z].args # <<>> => ns[z].args[1] \in (z + 1)..Len(ns))
    BY <2>1, ArgsFacts
  <2>3. ms[z] = ns[z]
    BY <2>1 DEF Grown
  <2>4. Agree(Texts(ms), Texts(ns), ns[z].args)
    BY <2>1, ArgsSame
  <2>5. ns[z].args # <<>> => ms[ns[z].args[1]].text = ns[ns[z].args[1]].text
    <3>1. ns[z].args # <<>> => ns[z].args[1] \in 1..Len(ns)
      BY <2>0, <2>1, <2>2
    <3> QED
      BY <3>1 DEF Grown
  <2>6. Quotes(ms, ms[z].args) <=> Quotes(ns, ns[z].args)
    BY <2>3, <2>5 DEF Quotes
  <2>7. /\ Each(Texts(ms), ns[z].args) = Each(Texts(ns), ns[z].args)
        /\ ns[z].args # <<>> => Each(Texts(ms), Tail(ns[z].args)) = Each(Texts(ns), Tail(ns[z].args))
    BY <2>2, <2>4, AgreeParts
  <2>8. Quotes(ns, ns[z].args) => ns[z].args # <<>>
    BY DEF Quotes
  <2> QED
    BY <2>3, <2>6, <2>7, <2>8, Zenon DEF Opening
<1> QED
  BY <1>1, <1>2

\* A list that only takes arguments, open and complete.
LEMMA PlainOpening ==
  ASSUME NEW ns, Acyclic(ns), NEW x \in 1..Len(ns), Plain(ns, x)
  PROVE  /\ Opening(ns, x) = <<"(">> \o Each(Texts(ns), ns[x].args)
         /\ Opening(ns, x) \in Seq(Glyph)
         /\ Texts(ns)[x] = Opening(ns, x) \o <<")">>
<1>0. Len(ns) \in Nat /\ x # Garbage
  BY DEF Acyclic, Garbage
<1>1. /\ ns[x].text = "list" /\ ~ns[x].dotted
      /\ ~(ns[x].args # <<>> /\ ns[ns[x].args[1]].text = "quote")
  BY DEF Plain, Quotes
<1>2. Opening(ns, x) = <<"(">> \o Each(Texts(ns), ns[x].args)
  BY <1>0, <1>1, Zenon DEF Opening, Quotes
<1>3. Each(Texts(ns), ns[x].args) \in Seq(Glyph) /\ <<"(">> \in Seq(Glyph)
  BY ArgTexts DEF Glyph, Tokens
<1>4. Opening(ns, x) \in Seq(Glyph)
  BY <1>2, <1>3, ConcatProperties
<1>5. Texts(ns)[x] = Writing(ns, Texts(ns), x)
  BY <1>0, TextsFacts
<1>6. Writing(ns, Texts(ns), x) = <<"(">> \o Each(Texts(ns), ns[x].args) \o <<")">>
  BY <1>0, <1>1 DEF Writing
<1> QED
  BY <1>2, <1>4, <1>5, <1>6, Zenon

\* One more argument.
LEMMA OpeningAdd ==
  ASSUME NEW ns, Acyclic(ns), NEW x \in 1..Len(ns), Plain(ns, x), Unshared(ns, {x}),
         NEW a \in (x + 1)..Len(ns), ns[a].text # "quote"
  PROVE  Opening(addArgument(ns, x, a), x) = Opening(ns, x) \o Texts(ns)[a]
<1> DEFINE ms == addArgument(ns, x, a)
<1>1. /\ Acyclic(ms) /\ Len(ms) = Len(ns) /\ Grown(ns, ms, x)
      /\ ms[x].args = Append(ns[x].args, a)
  BY AddFacts
<1>2. Plain(ms, x)
  BY PlainAdd
<1>3. Len(ns) \in Nat /\ ns[x].args \in Seq(Nat)
  BY ArgsFacts
<1> HIDE DEF ms
<1>4. Opening(ms, x) = <<"(">> \o Each(Texts(ms), ms[x].args)
  BY <1>1, <1>2, PlainOpening
<1>5. Opening(ns, x) = <<"(">> \o Each(Texts(ns), ns[x].args)
  BY PlainOpening
<1>6. Texts(ms)[a] = Texts(ns)[a] /\ Texts(ns)[a] \in Seq(Glyph)
  <2>1. a \in 0..Len(ns) /\ a # x /\ x # 0
    BY <1>3
  <2>2. Texts(ms)[a] = Texts(ns)[a]
    BY <1>1, <2>1, TextsStable
  <2>3. Texts(ns) \in [0..Len(ns) -> Seq(Glyph)]
    BY TextsFacts
  <2> QED
    BY <2>1, <2>2, <2>3
<1>7. /\ Spelt(Texts(ns), ns[x].args, Glyph) /\ Each(Texts(ns), ns[x].args) \in Seq(Glyph)
  BY ArgTexts
<1>8. Agree(Texts(ms), Texts(ns), ns[x].args)
  BY <1>1, <1>3, ArgsSame
<1>9. Each(Texts(ms), ns[x].args) = Each(Texts(ns), ns[x].args)
  BY <1>3, <1>8, AgreeParts
<1>10. Spelt(Texts(ms), ns[x].args, Glyph)
  BY <1>7, <1>8 DEF Spelt, Agree
<1>11. Each(Texts(ms), Append(ns[x].args, a)) = Each(Texts(ms), ns[x].args) \o Texts(ms)[a]
  <2>1. a \in Nat
    BY <1>3
  <2> QED
    BY <1>3, <1>6, <1>10, <2>1, EachFacts
<1> DEFINE e == Each(Texts(ns), ns[x].args)
           t == Texts(ns)[a]
<1>12. Opening(ms, x) = <<"(">> \o (e \o t)
  BY <1>1, <1>4, <1>6, <1>9, <1>11, Zenon
<1>13. <<"(">> \in Seq(Glyph)
  BY DEF Glyph, Tokens
<1>14. <<"(">> \o (e \o t) = (<<"(">> \o e) \o t
  <2> DEFINE o == <<"(">>
  <2>1. o \in Seq(Glyph) /\ e \in Seq(Glyph) /\ t \in Seq(Glyph)
    BY <1>6, <1>7, <1>13
  <2> HIDE DEF o, e, t
  <2>2. (o \o e) \o t = o \o (e \o t)
    BY <2>1, ConcatAssociative, SMTT(30)
  <2> QED
    BY <2>2 DEF o
<1> QED
  BY <1>5, <1>12, <1>14, Zenon DEF ms

\* Sequences of one and of two elements without the first.
LEMMA ShortTails ==
  /\ \A u \in Seq(Nat) : Len(u) = 1 => Tail(u) = <<>>
  /\ \A u \in Seq(Nat) : Len(u) = 2 => Tail(u) = <<u[2]>> /\ u # <<>>
<1>0. Len(<<>>) = 0
  OBVIOUS
<1>1. ASSUME NEW u \in Seq(Nat), Len(u) = 1 PROVE Tail(u) = <<>>
  <2>1. u # <<>>
    <3>1. u = <<>> => Len(u) = 0
      BY <1>0, Zenon
    <3>2. Len(u) # 0
      BY <1>1
    <3> QED
      BY <3>1, <3>2, Zenon
  <2>2. Tail(u) \in Seq(Nat) /\ Len(Tail(u)) = 0
    BY <1>1, <2>1, TailFacts
  <2> QED
    BY <2>2, EmptySeq
<1>2. ASSUME NEW u \in Seq(Nat), Len(u) = 2 PROVE Tail(u) = <<u[2]>> /\ u # <<>>
  <2>1. u # <<>>
    <3>1. u = <<>> => Len(u) = 0
      BY <1>0, Zenon
    <3>2. Len(u) # 0
      BY <1>2
    <3> QED
      BY <3>1, <3>2, Zenon
  <2>2. 2 \in 1..Len(u)
    BY <1>2
  <2> DEFINE v == Tail(u)
             w == <<u[2]>>
  <2>3. v \in Seq(Nat) /\ Len(v) = Len(u) - 1 /\ \A k \in 1..(Len(u) - 1) : v[k] = u[k + 1]
    BY <2>1, TailFacts
  <2>4. w \in Seq(Nat) /\ Len(w) = 1 /\ w[1] = u[2]
    BY <2>2
  <2> HIDE DEF v, w
  <2>5. Len(v) = 1 /\ v[1] = u[2]
    BY <1>2, <2>3
  <2>6. \A i \in 1..Len(v) : v[i] = w[i]
    BY <2>4, <2>5
  <2>7. v = w
    BY <2>3, <2>4, <2>5, <2>6, SeqEqual
  <2> QED
    BY <2>1, <2>7 DEF v, w
<1> QED
  BY <1>1, <1>2

\* 'datum, when the datum is there.
LEMMA QuoteText ==
  ASSUME NEW ns, Acyclic(ns), NEW x \in 1..Len(ns), Half(ns, x, "quote"), Unshared(ns, {x}),
         NEW a, a \in (x + 1)..Len(ns) \/ a = 0
  PROVE  Opening(ns, x) = <<"'">> /\ Texts(addArgument(ns, x, a))[x] = <<"'">> \o Texts(ns)[a]
<1> DEFINE ms == addArgument(ns, x, a)
           q == ns[x].args[1]
<1>1. /\ ns[x].text = "list" /\ ~ns[x].dotted /\ Len(ns[x].args) = 1
      /\ ns[x].args # <<>> /\ ns[q].text = "quote"
  BY DEF Half, Quotes
<1>2. Len(ns) \in Nat /\ ns[x].args \in Seq(Nat) /\ q \in (x + 1)..Len(ns) /\ x # Garbage /\ a \in Nat
  BY <1>1, ArgsFacts DEF Garbage
<1>3. /\ Acyclic(ms) /\ Len(ms) = Len(ns) /\ Grown(ns, ms, x) /\ ms[x].text = ns[x].text
      /\ ms[x].dotted = ns[x].dotted /\ ms[x].args = Append(ns[x].args, a)
  BY <1>1, AddFacts
<1> HIDE DEF ms
<1>4. ms[x].args \in Seq(Nat) /\ Len(ms[x].args) = 2 /\ ms[x].args[1] = q /\ ms[x].args[2] = a
  <2>1. ASSUME NEW u \in Seq(Nat), Len(u) = 1
        PROVE  /\ Append(u, a) \in Seq(Nat) /\ Len(Append(u, a)) = 2
               /\ Append(u, a)[1] = u[1] /\ Append(u, a)[2] = a
    <3>1. a \in Nat /\ 1 \in 1..Len(u)
      BY <1>2, <2>1
    <3> DEFINE v == Append(u, a)
    <3>2. v \in Seq(Nat) /\ Len(v) = Len(u) + 1 /\ v[1] = u[1] /\ v[Len(u) + 1] = a
      BY <3>1, AppendProperties
    <3> HIDE DEF v
    <3> QED
      BY <2>1, <3>2 DEF v
  <2> QED
    BY <1>1, <1>2, <1>3, <2>1
<1>5. Tail(ns[x].args) = <<>> /\ Tail(ms[x].args) = <<a>> /\ ms[x].args # <<>>
  <2> QED
    BY <1>1, <1>2, <1>4, ShortTails, Zenon
<1>6. ms[q].text = "quote"
  BY <1>1, <1>2, <1>3 DEF Grown
<1>7. Texts(ms)[a] = Texts(ns)[a] /\ Texts(ns)[a] \in Seq(Glyph)
  <2>1. a \in 0..Len(ns) /\ a # x /\ x # 0
    BY <1>2
  <2>2. Texts(ms)[a] = Texts(ns)[a]
    BY <1>3, <2>1, TextsStable
  <2>3. Texts(ns) \in [0..Len(ns) -> Seq(Glyph)]
    BY TextsFacts
  <2> QED
    BY <2>1, <2>2, <2>3
<1>8. /\ Each(Texts(ns), <<>>) = <<>> /\ Each(Texts(ms), <<>>) = <<>>
      /\ Each(Texts(ms), Append(<<>>, a)) = <<>> \o Texts(ms)[a]
  <2> DEFINE z == <<>>
  <2>1. z \in Seq(Nat) /\ Spelt(Texts(ns), z, Glyph) /\ Spelt(Texts(ms), z, Glyph)
    BY DEF Spelt
  <2> HIDE DEF z
  <2>2. Each(Texts(ns), <<>>) = <<>> /\ Each(Texts(ms), <<>>) = <<>>
    BY <2>1, EachFacts
  <2>3. Each(Texts(ms), Append(z, a)) = Each(Texts(ms), z) \o Texts(ms)[a]
    BY <1>2, <1>7, <2>1, EachFacts
  <2> QED
    BY <2>2, <2>3 DEF z
<1>9. Opening(ns, x) = <<"'">>
  <2>1. Opening(ns, x) = <<"'">> \o Each(Texts(ns), <<>>)
    BY <1>1, <1>2, <1>5, Zenon DEF Opening, Quotes
  <2>2. <<"'">> \in Seq(Glyph)
    BY DEF Glyph, Tokens
  <2> QED
    BY <1>8, <2>1, <2>2, ConcatEmptySeq
<1>10. Texts(ms)[x] = <<"'">> \o Each(Texts(ms), <<a>>)
  <2>1. Texts(ms)[x] = Writing(ms, Texts(ms), x)
    BY <1>2, <1>3, TextsFacts
  <2>2. ms[x].text = "list" /\ ~ms[x].dotted /\ ms[x].args # <<>> /\ ms[ms[x].args[1]].text = "quote"
    BY <1>1, <1>3, <1>4, <1>5, <1>6
  <2>3. Writing(ms, Texts(ms), x) = <<"'">> \o Each(Texts(ms), Tail(ms[x].args))
    BY <1>2, <2>2 DEF Writing
  <2> QED
    BY <1>5, <2>1, <2>3
<1>11. Append(<<>>, a) = <<a>> /\ <<>> \o Texts(ms)[a] = Texts(ms)[a]
  BY <1>7
<1> QED
  BY <1>7, <1>8, <1>9, <1>10, <1>11, Zenon DEF ms

\* A dotted list, when its last datum is there.
LEMMA DotText ==
  ASSUME NEW ns, Acyclic(ns), NEW x \in 1..Len(ns), Half(ns, x, "dot"), Unshared(ns, {x}),
         NEW a \in (x + 1)..Len(ns)
  PROVE  /\ Opening(ns, x) \in Seq(Glyph)
         /\ Texts(addArgument(ns, x, a))[x] = Opening(ns, x) \o Texts(ns)[a] \o <<")">>
<1> DEFINE ms == addArgument(ns, x, a)
           e == Each(Texts(ns), ns[x].args)
<1>1. ns[x].text = "list" /\ ns[x].dotted
  BY DEF Half
<1>2. Len(ns) \in Nat /\ ns[x].args \in Seq(Nat) /\ x # Garbage /\ a \in Nat
  BY ArgsFacts DEF Garbage
<1>3. /\ Acyclic(ms) /\ Len(ms) = Len(ns) /\ Grown(ns, ms, x) /\ ms[x].text = ns[x].text
      /\ ms[x].dotted = ns[x].dotted /\ ms[x].args = Append(ns[x].args, a)
  BY AddFacts
<1> HIDE DEF ms
<1>4. Front(ms[x].args) = ns[x].args /\ Last(ms[x].args) = a /\ ms[x].args # <<>>
  <2> DEFINE r == ns[x].args
  <2>1. r \in Seq(Nat) /\ a \in Nat
    BY <1>2
  <2> HIDE DEF r
  <2>2. Front(Append(r, a)) = r
    BY <2>1, FrontOfAppend, ZenonT(60)
  <2>3. Last(Append(r, a)) = a
    BY <2>1, LastOfAppend, ZenonT(60)
  <2>4. Append(r, a) # <<>>
    BY <2>1
  <2> QED
    BY <1>3, <2>2, <2>3, <2>4 DEF r
<1>5. Texts(ms)[a] = Texts(ns)[a]
  <2>1. a \in 0..Len(ns) /\ a # x /\ x # 0
    BY <1>2
  <2> QED
    BY <1>3, <2>1, TextsStable
<1>6. Each(Texts(ms), ns[x].args) = e
  <2>1. Agree(Texts(ms), Texts(ns), ns[x].args)
    BY <1>2, <1>3, ArgsSame
  <2> QED
    BY <1>2, <2>1, AgreeParts
<1>7. Opening(ns, x) = <<"(">> \o e \o <<".">>
  BY <1>1, <1>2, Zenon DEF Opening
<1>8. Opening(ns, x) \in Seq(Glyph)
  <2>1. e \in Seq(Glyph) /\ <<"(">> \in Seq(Glyph) /\ <<".">> \in Seq(Glyph)
    BY ArgTexts DEF Glyph, Tokens
  <2> HIDE DEF e
  <2> QED
    BY <1>7, <2>1
<1>9. Texts(ms)[x] = Writing(ms, Texts(ms), x)
  BY <1>2, <1>3, TextsFacts
<1>10. Writing(ms, Texts(ms), x) =
         <<"(">> \o Each(Texts(ms), Front(ms[x].args)) \o <<".">> \o Texts(ms)[Last(ms[x].args)]
           \o <<")">>
  BY <1>1, <1>2, <1>3, <1>4 DEF Writing
<1> QED
  BY <1>4, <1>5, <1>6, <1>7, <1>8, <1>9, <1>10, Zenon DEF ms

-----------------------------------------------------------------------------

(***************************************************************************)
(* The grammar, as a table over the parts of a token sequence.               *)
(***************************************************************************)
Cells(s) == {"datum", "data"} \X (1..(Len(s) + 1)) \X (0..Len(s))

DataRule(G, a, b) ==
  a > b \/ \E k \in a..b : G[<<"datum", a, k>>] /\ G[<<"data", k + 1, b>>]

DatumRule(s, G, a, b) ==
  \/ a = b /\ s[a] \in Atom
  \/ a < b /\ s[a] = "'" /\ G[<<"datum", a + 1, b>>]
  \/ /\ a < b /\ s[a] = "(" /\ s[b] = ")"
     /\ \/ G[<<"data", a + 1, b - 1>>]
        \/ \E k \in (a + 2)..(b - 2) :
             /\ s[k] = "."
             /\ G[<<"data", a + 1, k - 1>>] /\ G[<<"datum", k + 1, b - 1>>]

Rule(s, G, w, a, b) == IF w = "data" THEN DataRule(G, a, b) ELSE DatumRule(s, G, a, b)

\* The cells of parts of fewer than m tokens, and those of data with m - 1 in m's place.
Size(w, a, b) == IF b < a THEN 0 ELSE 2 * (b - a + 1) + (IF w = "data" THEN 1 ELSE 0)

IsGrammar(s, G) == G = [c \in Cells(s) |-> Rule(s, G, c[1], c[2], c[3])]

\* Cells up to size m obey the rules.
Ruled(s, G, m) ==
  \A w \in {"datum", "data"}, a \in 1..(Len(s) + 1), b \in 0..Len(s) :
    Size(w, a, b) <= m => (G[<<w, a, b>>] <=> Rule(s, G, w, a, b))

\* A rule reads smaller cells only.
LEMMA RuleSame ==
  ASSUME NEW s, Len(s) \in Nat, NEW G, NEW H,
         NEW w \in {"datum", "data"}, NEW a \in 1..(Len(s) + 1), NEW b \in 0..Len(s),
         \A v \in {"datum", "data"}, i \in 1..(Len(s) + 1), j \in 0..Len(s) :
           Size(v, i, j) < Size(w, a, b) => (G[<<v, i, j>>] <=> H[<<v, i, j>>])
  PROVE  Rule(s, G, w, a, b) <=> Rule(s, H, w, a, b)
<1>1. CASE w = "data"
  <2>1. ASSUME a <= b, NEW k \in a..b
        PROVE  /\ G[<<"datum", a, k>>] <=> H[<<"datum", a, k>>]
               /\ G[<<"data", k + 1, b>>] <=> H[<<"data", k + 1, b>>]
    <3>1. /\ k \in 0..Len(s) /\ Size("datum", a, k) < Size(w, a, b)
          /\ k + 1 \in 1..(Len(s) + 1) /\ Size("data", k + 1, b) < Size(w, a, b)
      BY <1>1, <2>1 DEF Size
    <3> QED
      BY <3>1
  <2>2. DataRule(G, a, b) <=> DataRule(H, a, b)
    <3>1. CASE a > b
      BY <3>1 DEF DataRule
    <3>2. CASE a <= b
      BY <2>1, <3>2, Zenon DEF DataRule
    <3> QED
      BY <3>1, <3>2
  <2> QED
    BY <1>1, <2>2 DEF Rule
<1>2. CASE w # "data"
  <2>1. ASSUME a < b
        PROVE  /\ G[<<"datum", a + 1, b>>] <=> H[<<"datum", a + 1, b>>]
               /\ G[<<"data", a + 1, b - 1>>] <=> H[<<"data", a + 1, b - 1>>]
    <3>1. /\ a + 1 \in 1..(Len(s) + 1) /\ b - 1 \in 0..Len(s)
          /\ Size("datum", a + 1, b) < Size(w, a, b)
          /\ Size("data", a + 1, b - 1) < Size(w, a, b)
      BY <1>2, <2>1 DEF Size
    <3> QED
      BY <2>1, <3>1
  <2>2. ASSUME NEW k \in (a + 2)..(b - 2)
        PROVE  /\ G[<<"data", a + 1, k - 1>>] <=> H[<<"data", a + 1, k - 1>>]
               /\ G[<<"datum", k + 1, b - 1>>] <=> H[<<"datum", k + 1, b - 1>>]
    <3>1. /\ a + 1 \in 1..(Len(s) + 1) /\ b - 1 \in 0..Len(s) /\ k - 1 \in 0..Len(s)
          /\ k + 1 \in 1..(Len(s) + 1)
          /\ Size("datum", k + 1, b - 1) < Size(w, a, b)
          /\ Size("data", a + 1, k - 1) < Size(w, a, b)
      BY <1>2 DEF Size
    <3> QED
      BY <3>1
  <2>3. DatumRule(s, G, a, b) <=> DatumRule(s, H, a, b)
    BY <2>1, <2>2, Zenon DEF DatumRule
  <2> QED
    BY <1>2, <2>3, Zenon DEF Rule
<1> QED
  BY <1>1, <1>2

\* One more size.
LEMMA RuledNext ==
  ASSUME NEW s, Len(s) \in Nat, NEW m \in Nat, NEW G, Ruled(s, G, m)
  PROVE  \E H : Ruled(s, H, m + 1)
<1> DEFINE H == [c \in Cells(s) |-> IF Size(c[1], c[2], c[3]) <= m THEN G[c]
                                    ELSE Rule(s, G, c[1], c[2], c[3])]
<1>1. ASSUME NEW w \in {"datum", "data"}, NEW a \in 1..(Len(s) + 1), NEW b \in 0..Len(s)
      PROVE  /\ Size(w, a, b) <= m => (H[<<w, a, b>>] <=> G[<<w, a, b>>])
             /\ ~(Size(w, a, b) <= m) => (H[<<w, a, b>>] <=> Rule(s, G, w, a, b))
             /\ Size(w, a, b) \in Nat
  <2> DEFINE c == <<w, a, b>>
  <2>1. c \in Cells(s) /\ c[1] = w /\ c[2] = a /\ c[3] = b
    BY DEF Cells
  <2> HIDE DEF c
  <2>2. H[c] = IF Size(w, a, b) <= m THEN G[c] ELSE Rule(s, G, w, a, b)
    BY <2>1
  <2>3. Size(w, a, b) \in Nat
    BY DEF Size
  <2> HIDE DEF H
  <2>4. /\ Size(w, a, b) <= m => (H[c] <=> G[c])
        /\ ~(Size(w, a, b) <= m) => (H[c] <=> Rule(s, G, w, a, b))
    BY <2>2, Zenon
  <2> QED
    BY <2>3, <2>4 DEF c
<1> HIDE DEF H
<1>2. ASSUME NEW w \in {"datum", "data"}, NEW a \in 1..(Len(s) + 1), NEW b \in 0..Len(s),
             Size(w, a, b) <= m + 1
      PROVE  H[<<w, a, b>>] <=> Rule(s, H, w, a, b)
  <2>1. ASSUME NEW v \in {"datum", "data"}, NEW i \in 1..(Len(s) + 1), NEW j \in 0..Len(s),
               Size(v, i, j) < Size(w, a, b)
        PROVE  G[<<v, i, j>>] <=> H[<<v, i, j>>]
    <3>0. Size(v, i, j) \in Nat /\ Size(w, a, b) \in Nat
      BY <1>1
    <3>1. Size(v, i, j) <= m
      BY <1>2, <2>1, <3>0
    <3> QED
      BY <1>1, <3>1
  <2>2. Rule(s, G, w, a, b) <=> Rule(s, H, w, a, b)
    BY <2>1, RuleSame
  <2> QED
    BY <1>1, <2>2 DEF Ruled
<1> QED
  BY <1>2 DEF Ruled

\* The recursion of the grammar has a solution, and GrammarOf is one.
LEMMA GrammarFacts ==
  ASSUME NEW s, Len(s) \in Nat, NEW a \in 1..(Len(s) + 1), NEW b \in 0..Len(s)
  PROVE  /\ GrammarOf(s)[<<"datum", a, b>>] <=> DatumRule(s, GrammarOf(s), a, b)
         /\ GrammarOf(s)[<<"data", a, b>>] <=> DataRule(GrammarOf(s), a, b)
<1> DEFINE P == {m \in Nat : \E G : Ruled(s, G, m)}
<1> HIDE DEF P
<1>1. 0 \in P
  <2> DEFINE G == [c \in Cells(s) |-> c[1] = "data"]
  <2>1. ASSUME NEW w \in {"datum", "data"}, NEW i \in 1..(Len(s) + 1), NEW j \in 0..Len(s)
        PROVE  G[<<w, i, j>>] <=> (w = "data")
    <3> DEFINE c == <<w, i, j>>
    <3>1. c \in Cells(s) /\ c[1] = w
      BY DEF Cells
    <3> HIDE DEF c
    <3>2. G[c] <=> (w = "data")
      BY <3>1
    <3> QED
      BY <3>2 DEF c
  <2> HIDE DEF G
  <2>2. ASSUME NEW w \in {"datum", "data"}, NEW i \in 1..(Len(s) + 1), NEW j \in 0..Len(s),
               Size(w, i, j) <= 0
        PROVE  Rule(s, G, w, i, j) <=> (w = "data")
    <3>1. i > j
      BY <2>2 DEF Size
    <3>2. ~(i = j) /\ ~(i < j)
      BY <3>1
    <3> QED
      BY <3>1, <3>2, Zenon DEF Rule, DataRule, DatumRule
  <2>3. Ruled(s, G, 0)
    BY <2>1, <2>2 DEF Ruled
  <2> QED
    BY <2>3 DEF P
<1>2. ASSUME NEW m \in P PROVE m + 1 \in P
  BY RuledNext DEF P
<1>3. \A m \in Nat : m \in P
  <2> SUFFICES ASSUME NEW m \in Nat, \A n \in 0..(m - 1) : n \in P PROVE m \in P
    BY NatSetInduction
  <2>1. CASE m = 0
    BY <1>1, <2>1
  <2>2. CASE m # 0
    <3>1. m - 1 \in 0..(m - 1) /\ (m - 1) + 1 = m
      BY <2>2
    <3>2. m - 1 \in P
      BY <3>1
    <3> QED
      BY <1>2, <3>1, <3>2
  <2> QED
    BY <2>1, <2>2
<1>4. PICK G : Ruled(s, G, 2 * Len(s) + 1)
  BY <1>3 DEF P
<1> DEFINE H == [c \in Cells(s) |-> Rule(s, G, c[1], c[2], c[3])]
<1>5. ASSUME NEW w \in {"datum", "data"}, NEW i \in 1..(Len(s) + 1), NEW j \in 0..Len(s)
      PROVE  H[<<w, i, j>>] <=> G[<<w, i, j>>]
  <2>1. Size(w, i, j) <= 2 * Len(s) + 1
    BY DEF Size
  <2>2. G[<<w, i, j>>] <=> Rule(s, G, w, i, j)
    BY <1>4, <2>1 DEF Ruled
  <2> DEFINE c == <<w, i, j>>
  <2>3. c \in Cells(s) /\ c[1] = w /\ c[2] = i /\ c[3] = j
    BY DEF Cells
  <2> HIDE DEF c
  <2>4. H[c] = Rule(s, G, w, i, j)
    BY <2>3
  <2> HIDE DEF H
  <2> QED
    BY <2>2, <2>4, Zenon DEF c
<1>6. H = [c \in Cells(s) |-> Rule(s, H, c[1], c[2], c[3])]
  <2>0. ASSUME NEW w \in {"datum", "data"}, NEW i \in 1..(Len(s) + 1), NEW j \in 0..Len(s)
        PROVE  Rule(s, G, w, i, j) <=> Rule(s, H, w, i, j)
    <3> HIDE DEF H
    <3>1. \A v \in {"datum", "data"}, k \in 1..(Len(s) + 1), l \in 0..Len(s) :
            G[<<v, k, l>>] <=> H[<<v, k, l>>]
      BY <1>5, Zenon
    <3> QED
      BY <3>1, RuleSame
  <2>1. ASSUME NEW c \in Cells(s) PROVE Rule(s, G, c[1], c[2], c[3]) = Rule(s, H, c[1], c[2], c[3])
    <3>1. /\ c[1] \in {"datum", "data"} /\ c[2] \in 1..(Len(s) + 1) /\ c[3] \in 0..Len(s)
      BY DEF Cells
    <3> HIDE DEF H
    <3>2. Rule(s, G, c[1], c[2], c[3]) <=> Rule(s, H, c[1], c[2], c[3])
      BY <2>0, <3>1, Zenon
    <3>3. \A i, j : Rule(s, i, c[1], c[2], j) \in BOOLEAN
      BY DEF Rule, DataRule, DatumRule
    <3> QED
      BY <3>2, <3>3
  <2> HIDE DEF H
  <2> QED
    BY <2>1 DEF H
<1>7. GrammarOf(s) = CHOOSE K : IsGrammar(s, K)
  BY DEF GrammarOf, IsGrammar, Cells, Rule, DataRule, DatumRule
<1> HIDE DEF H
<1>8. IsGrammar(s, GrammarOf(s))
  BY <1>6, <1>7, Zenon DEF IsGrammar
<1> DEFINE K == GrammarOf(s)
<1>9. ASSUME NEW w \in {"datum", "data"}
      PROVE  K[<<w, a, b>>] <=> Rule(s, K, w, a, b)
  <2> DEFINE c == <<w, a, b>>
  <2>1. c \in Cells(s) /\ c[1] = w /\ c[2] = a /\ c[3] = b
    BY DEF Cells
  <2> HIDE DEF c, K
  <2>2. K = [d \in Cells(s) |-> Rule(s, K, d[1], d[2], d[3])]
    BY <1>8 DEF IsGrammar, K
  <2>3. K[c] = Rule(s, K, w, a, b)
    BY <2>1, <2>2
  <2> QED
    BY <2>3, Zenon DEF c
<1> HIDE DEF K
<1>10. "datum" # "data"
  OBVIOUS
<1>11. K[<<"datum", a, b>>] <=> DatumRule(s, K, a, b)
  BY <1>9, <1>10, Zenon DEF Rule
<1>12. K[<<"data", a, b>>] <=> DataRule(K, a, b)
  BY <1>9, Zenon DEF Rule
<1> QED
  BY <1>11, <1>12 DEF K

-----------------------------------------------------------------------------

AreData(s, a, b) == GrammarOf(s)[<<"data", a, b>>]

\* What a list holds, between its parentheses.
Listed(s, a, b) ==
  \/ AreData(s, a, b)
  \/ \E k \in (a + 1)..(b - 1) : s[k] = "." /\ AreData(s, a, k - 1) /\ IsDatum(s, k + 1, b)

\* The rules of the grammar.
LEMMA Rules ==
  ASSUME NEW s, Len(s) \in Nat, NEW a \in 1..(Len(s) + 1), NEW b \in 0..Len(s)
  PROVE  /\ AreData(s, a, b) <=>
              a > b \/ \E k \in a..b : IsDatum(s, a, k) /\ AreData(s, k + 1, b)
         /\ IsDatum(s, a, b) <=>
              \/ a = b /\ s[a] \in Atom
              \/ a < b /\ s[a] = "'" /\ IsDatum(s, a + 1, b)
              \/ a < b /\ s[a] = "(" /\ s[b] = ")" /\ Listed(s, a + 1, b - 1)
<1>1. (a + 1) + 1 = a + 2 /\ (b - 1) - 1 = b - 2
  OBVIOUS
<1>2. AreData(s, a, b) <=> DataRule(GrammarOf(s), a, b)
  BY GrammarFacts DEF AreData
<1>3. IsDatum(s, a, b) <=> DatumRule(s, GrammarOf(s), a, b)
  BY GrammarFacts DEF IsDatum
<1>4. DataRule(GrammarOf(s), a, b) <=>
        a > b \/ \E k \in a..b : IsDatum(s, a, k) /\ AreData(s, k + 1, b)
  BY DEF DataRule, IsDatum, AreData
<1>5. Listed(s, a + 1, b - 1) <=>
        \/ GrammarOf(s)[<<"data", a + 1, b - 1>>]
        \/ \E k \in (a + 2)..(b - 2) :
             /\ s[k] = "."
             /\ GrammarOf(s)[<<"data", a + 1, k - 1>>] /\ GrammarOf(s)[<<"datum", k + 1, b - 1>>]
  BY <1>1, Zenon DEF Listed, IsDatum, AreData
<1>6. DatumRule(s, GrammarOf(s), a, b) <=>
        \/ a = b /\ s[a] \in Atom
        \/ a < b /\ s[a] = "'" /\ IsDatum(s, a + 1, b)
        \/ a < b /\ s[a] = "(" /\ s[b] = ")" /\ Listed(s, a + 1, b - 1)
  BY <1>5, Zenon DEF DatumRule, IsDatum
<1> QED
  BY <1>2, <1>3, <1>4, <1>6, Zenon

\* The tokens that a datum can start with.
Starters == Atom \cup {"(", "'"}

\* A datum has a token, the first one is a starter; data go no further than a token that is none.
LEMMA FirstToken ==
  ASSUME NEW s, Len(s) \in Nat, NEW a \in 1..(Len(s) + 1), NEW b \in 0..Len(s)
  PROVE  /\ IsDatum(s, a, b) => a <= b /\ s[a] \in Starters
         /\ AreData(s, a, b) /\ s[a] \notin Starters => a > b
<1>1. ASSUME NEW j \in 0..Len(s), IsDatum(s, a, j) PROVE a <= j /\ s[a] \in Starters
  <2>1. \/ a = j /\ s[a] \in Atom
        \/ a < j /\ s[a] = "'"
        \/ a < j /\ s[a] = "("
    BY <1>1, Rules
  <2> QED
    BY <2>1 DEF Starters
<1>2. ASSUME AreData(s, a, b), s[a] \notin Starters PROVE a > b
  <2>1. a > b \/ \E k \in a..b : IsDatum(s, a, k)
    BY <1>2, Rules
  <2>2. ASSUME NEW k \in a..b, IsDatum(s, a, k) PROVE FALSE
    <3>1. k \in 0..Len(s)
      OBVIOUS
    <3> QED
      BY <1>1, <1>2, <2>2, <3>1
  <2> QED
    BY <2>1, <2>2
<1> QED
  BY <1>1, <1>2

\* One more datum behind a row of data.
LEMMA DataAppend ==
  ASSUME NEW s, Len(s) \in Nat, NEW r \in 1..(Len(s) + 1), NEW b \in r..Len(s), IsDatum(s, r, b),
         NEW a \in 1..r, AreData(s, a, r - 1)
  PROVE  AreData(s, a, b)
<1> DEFINE P == {m \in Nat : \A i \in 1..r : r - i = m /\ AreData(s, i, r - 1) => AreData(s, i, b)}
<1> HIDE DEF P
<1>1. ASSUME NEW m \in Nat, \A n \in 0..(m - 1) : n \in P
      PROVE  m \in P
  <2> SUFFICES ASSUME NEW i \in 1..r, r - i = m, AreData(s, i, r - 1) PROVE AreData(s, i, b)
    BY DEF P
  <2>0. i \in 1..(Len(s) + 1) /\ b \in 0..Len(s) /\ r - 1 \in 0..Len(s) /\ b + 1 \in 1..(Len(s) + 1)
    OBVIOUS
  <2>1. i > r - 1 \/ \E k \in i..(r - 1) : IsDatum(s, i, k) /\ AreData(s, k + 1, r - 1)
    BY <2>0, Rules
  <2>2. CASE i > r - 1
    <3>1. i = r /\ b \in r..b /\ b + 1 > b
      BY <2>2
    <3>2. AreData(s, b + 1, b)
      BY <2>0, <3>1, Rules
    <3>3. \E k \in r..b : IsDatum(s, r, k) /\ AreData(s, k + 1, b)
      BY <3>1, <3>2
    <3> QED
      BY <2>0, <3>1, <3>3, Rules
  <2>3. CASE \E k \in i..(r - 1) : IsDatum(s, i, k) /\ AreData(s, k + 1, r - 1)
    <3>1. PICK k \in i..(r - 1) : IsDatum(s, i, k) /\ AreData(s, k + 1, r - 1)
      BY <2>3
    <3>2. k + 1 \in 1..r /\ r - (k + 1) \in 0..(m - 1) /\ k \in i..b
      OBVIOUS
    <3>3. r - (k + 1) \in P
      BY <1>1, <3>2
    <3>4. AreData(s, k + 1, b)
      BY <3>1, <3>2, <3>3 DEF P
    <3>5. \E l \in i..b : IsDatum(s, i, l) /\ AreData(s, l + 1, b)
      BY <3>1, <3>2, <3>4
    <3> QED
      BY <2>0, <3>5, Rules
  <2> QED
    BY <2>1, <2>2, <2>3
<1>2. r - a \in P
  BY <1>1, NatSetInduction
<1> QED
  BY <1>2 DEF P

-----------------------------------------------------------------------------

(***************************************************************************)
(* Texts that are parts of the input.  One that stands for a datum, wherever  *)
(* it is found, is one unless it has a lone dot behind a parenthesis, and no  *)
(* datum starts there and ends elsewhere.                                    *)
(***************************************************************************)
Stands(t) ==
  \A i \in Places, j \in 0..Len(input) : t = SubSeq(input, i, j) =>
    /\ i <= j /\ input[i] \in Starters
    /\ ~EmptyDotted(i, j) => IsDatum(input, i, j)
    /\ \A b \in i..Len(input) : IsDatum(input, i, b) => b = j

\* The same for data in a row: what follows them can only be more data.
InRow(t) ==
  \A i \in Places, j \in 0..Len(input) : i <= j + 1 /\ t = SubSeq(input, i, j) =>
    /\ ~EmptyDotted(i, j) => AreData(input, i, j)
    /\ \A q \in (i - 1)..(Len(input) - 1) :
         AreData(input, i, q) /\ input[q + 1] \notin Starters => j <= q /\ AreData(input, j + 1, q)

\* A part of the input.
LEMMA PartFacts ==
  ASSUME input \in Seq(Tokens), NEW i \in Places, NEW j \in 0..Len(input), i <= j + 1
  PROVE  /\ SubSeq(input, i, j) \in Seq(Tokens) /\ Len(SubSeq(input, i, j)) = j - i + 1
         /\ \A k \in 1..(j - i + 1) : SubSeq(input, i, j)[k] = input[i + k - 1]
<1>1. Len(input) \in Nat /\ i \in Int /\ j \in Int /\ (i <= j => j - i + 1 = j - i + 1)
      /\ (~(i <= j) => j - i + 1 = 0)
  BY DEF Places
<1>2. \A k \in i..j : input[k] \in Tokens
  BY DEF Places
<1> QED
  BY <1>1, <1>2, SubSeqProperties

\* The part of the input from token i to token j is u up to token r, and v from there on.
SplitsAt(u, v, i, j, r) ==
  /\ r \in Places /\ i <= r /\ r <= j + 1 /\ r = i + Len(u) /\ r - 1 \in 0..Len(input)
  /\ u = SubSeq(input, i, r - 1) /\ v = SubSeq(input, r, j)

\* A part of the input in two.
LEMMA Cut ==
  ASSUME input \in Seq(Tokens), NEW u \in Seq(Glyph), NEW v \in Seq(Glyph),
         NEW i \in Places, NEW j \in 0..Len(input), i <= j + 1, u \o v = SubSeq(input, i, j)
  PROVE  \E r : SplitsAt(u, v, i, j, r)
<1> DEFINE r == i + Len(u)
           w == SubSeq(input, i, j)
<1>1. Len(input) \in Nat /\ Len(u) \in Nat /\ Len(v) \in Nat /\ i \in Nat /\ 1 <= i /\ j \in Nat
      /\ j <= Len(input)
  BY DEF Places
<1>2. w \in Seq(Tokens) /\ Len(w) = j - i + 1 /\ \A k \in 1..(j - i + 1) : w[k] = input[i + k - 1]
  BY PartFacts
<1>3. Len(w) = Len(u) + Len(v)
      /\ \A k \in 1..(Len(u) + Len(v)) : w[k] = IF k <= Len(u) THEN u[k] ELSE v[k - Len(u)]
  <2> DEFINE z == u \o v
  <2>1. /\ Len(z) = Len(u) + Len(v)
        /\ \A k \in 1..(Len(u) + Len(v)) : z[k] = IF k <= Len(u) THEN u[k] ELSE v[k - Len(u)]
    BY ConcatProperties, ZenonT(60)
  <2>2. z = w
    OBVIOUS
  <2> HIDE DEF z, w
  <2> QED
    BY <2>1, <2>2
<1> HIDE DEF w
<1>4. r \in Places /\ i <= r /\ r <= j + 1 /\ r - 1 \in 0..Len(input) /\ r \in Nat
      /\ i <= (r - 1) + 1 /\ Len(u) = (r - 1) - i + 1 /\ Len(v) = j - r + 1
  BY <1>1, <1>2, <1>3 DEF Places
<1>5. r = i + Len(u)
  OBVIOUS
<1> HIDE DEF r
<1> DEFINE x == SubSeq(input, i, r - 1)
           y == SubSeq(input, r, j)
<1>6. x \in Seq(Tokens) /\ Len(x) = Len(u) /\ \A k \in 1..Len(u) : x[k] = input[i + k - 1]
  BY <1>4, PartFacts
<1>7. y \in Seq(Tokens) /\ Len(y) = Len(v) /\ \A k \in 1..Len(v) : y[k] = input[r + k - 1]
  BY <1>4, PartFacts
<1> HIDE DEF x, y
<1>8. Seq(Tokens) \subseteq Seq(Glyph)
  BY DEF Glyph
<1>9. u = x
  <2>1. \A k \in 1..Len(u) : u[k] = x[k]
    BY <1>1, <1>2, <1>3, <1>6
  <2> QED
    BY <1>6, <1>8, <2>1, SeqEqual
<1>10. v = y
  <2>1. ASSUME NEW k \in 1..Len(v) PROVE v[k] = y[k]
    <3> DEFINE m == Len(u)
               n == Len(v)
    <3>0. m \in Nat /\ n \in Nat /\ m + n = j - i + 1 /\ r = i + m /\ k \in 1..n
      BY <1>1, <1>2, <1>3, <1>5
    <3> HIDE DEF m, n
    <3>1. k + m \in 1..(m + n) /\ ~(k + m <= m) /\ (k + m) - m = k
          /\ i + (k + m) - 1 = r + k - 1 /\ k + m \in 1..(j - i + 1)
      BY <1>1, <3>0
    <3> USE DEF m, n
    <3>2. w[k + Len(u)] = v[k]
      BY <1>3, <3>1
    <3>3. w[k + Len(u)] = input[r + k - 1]
      BY <1>2, <3>1
    <3> QED
      BY <1>7, <3>2, <3>3
  <2> QED
    BY <1>7, <1>8, <2>1, SeqEqual
<1> QED
  BY <1>4, <1>5, <1>9, <1>10 DEF SplitsAt, x, y

-----------------------------------------------------------------------------

\* The part of the input from token i to token j is t and then v.
StartsWith(t, v, i, j) ==
  /\ i <= j /\ i + 1 \in Places /\ i + 1 <= j + 1
  /\ input[i] = t /\ v = SubSeq(input, i + 1, j)

\* It is u and then t.
EndsWith(u, t, i, j) ==
  /\ i <= j /\ j - 1 \in 0..Len(input) /\ i <= (j - 1) + 1
  /\ input[j] = t /\ u = SubSeq(input, i, j - 1)

\* A text that starts with t.
LEMMA CutFirst ==
  ASSUME input \in Seq(Tokens), NEW t \in Glyph, NEW v \in Seq(Glyph), NEW i \in Places,
         NEW j \in 0..Len(input), <<t>> \o v = SubSeq(input, i, j)
  PROVE  StartsWith(t, v, i, j)
<1> DEFINE u == <<t>>
           w == SubSeq(input, i, j)
<1>1. u \in Seq(Glyph) /\ Len(u) = 1 /\ u[1] = t
  BY DEF Glyph
<1> HIDE DEF u
<1>2. Len(input) \in Nat /\ i \in Int /\ j \in Int /\ Len(v) \in Nat
  BY DEF Places
<1>3. i <= j
  <2>1. Len(u \o v) # 0
    <3>1. Len(u \o v) = Len(u) + Len(v)
      BY <1>1, ConcatProperties, ZenonT(60)
    <3> QED
      BY <1>1, <1>2, <3>1
  <2>2. ASSUME j < i PROVE FALSE
    <3>1. w = <<>>
      BY <1>2, <2>2, SubSeqEmpty
    <3>2. Len(w) = 0
      BY <3>1
    <3> QED
      BY <2>1, <3>2, Zenon DEF u
  <2> QED
    BY <1>2, <2>2
<1>4. u \o v = SubSeq(input, i, j) /\ i <= j + 1
  BY <1>2, <1>3 DEF u
<1>5. PICK r : SplitsAt(u, v, i, j, r)
  BY <1>1, <1>4, Cut
<1>55. /\ r \in Places /\ r = i + Len(u) /\ u = SubSeq(input, i, r - 1)
       /\ v = SubSeq(input, r, j)
  BY <1>5 DEF SplitsAt
<1>6. r = i + 1 /\ r - 1 = i /\ i \in 1..Len(input)
  BY <1>1, <1>2, <1>3, <1>55 DEF Places
<1>7. u = SubSeq(input, i, i)
  BY <1>55, <1>6
<1>8. SubSeq(input, i, i) = <<input[i]>>
  BY <1>6, JoinOne
<1>9. u[1] = input[i]
  BY <1>7, <1>8
<1> QED
  BY <1>1, <1>2, <1>3, <1>55, <1>6, <1>9 DEF StartsWith

\* A text that ends with t.
LEMMA CutLast ==
  ASSUME input \in Seq(Tokens), NEW t \in Glyph, NEW u \in Seq(Glyph), NEW i \in Places,
         NEW j \in 0..Len(input), i <= j + 1, u \o <<t>> = SubSeq(input, i, j)
  PROVE  EndsWith(u, t, i, j)
<1> DEFINE v == <<t>>
<1>1. v \in Seq(Glyph) /\ Len(v) = 1 /\ v[1] = t
  BY DEF Glyph
<1>2. Len(input) \in Nat /\ i \in Int /\ j \in Int /\ 1 <= i
  BY DEF Places
<1>3. u \o v = SubSeq(input, i, j)
  OBVIOUS
<1> HIDE DEF v
<1>4. PICK r : SplitsAt(u, v, i, j, r)
  BY <1>1, <1>3, Cut
<1>45. /\ r \in Places /\ i <= r /\ r <= j + 1 /\ u = SubSeq(input, i, r - 1)
       /\ v = SubSeq(input, r, j)
  BY <1>4 DEF SplitsAt
<1>5. Len(v) = j - r + 1
  BY <1>45, PartFacts
<1>6. r = j /\ j \in Places /\ j <= Len(input) /\ i <= j
  BY <1>1, <1>2, <1>45, <1>5 DEF Places
<1>7. v = <<input[j]>>
  BY <1>45, <1>6, JoinOne
<1>8. v[1] = input[j]
  BY <1>7
<1> QED
  BY <1>1, <1>2, <1>45, <1>6, <1>8 DEF EndsWith

\* Less of the input has a lone dot only if more of it has.
LEMMA NoLoneDot ==
  ASSUME NEW i \in Int, NEW j \in Int, ~EmptyDotted(i, j), NEW a \in Int, NEW b \in Int,
         i <= a, b <= j
  PROVE  ~EmptyDotted(a, b)
<1>1. \A k \in a..(b - 1) : k \in i..(j - 1)
  OBVIOUS
<1> QED
  BY <1>1 DEF EmptyDotted

\* Atoms stand for themselves, and what is no token for nothing.
LEMMA AtomStands ==
  ASSUME input \in Seq(Tokens), NEW t, t \notin Tokens \/ t \in Atom
  PROVE  Stands(<<t>>)
<1> SUFFICES ASSUME NEW i \in Places, NEW j \in 0..Len(input), <<t>> = SubSeq(input, i, j)
             PROVE  /\ i <= j /\ input[i] \in Starters
                    /\ IsDatum(input, i, j)
                    /\ \A b \in i..Len(input) : IsDatum(input, i, b) => b = j
  BY DEF Stands
<1> DEFINE w == SubSeq(input, i, j)
<1>1. Len(input) \in Nat /\ i \in Int /\ j \in Int /\ 1 <= i /\ j <= Len(input)
  BY DEF Places
<1>2. Len(w) = 1 /\ w[1] = t
  <2>1. Len(<<t>>) = 1 /\ <<t>>[1] = t
    OBVIOUS
  <2> QED
    BY <2>1
<1>3. i <= j
  <2>1. ASSUME j < i PROVE FALSE
    <3>1. w = <<>>
      BY <1>1, <2>1, SubSeqEmpty
    <3>2. Len(w) = 0
      BY <3>1
    <3>3. 1 # 0
      OBVIOUS
    <3> QED
      BY <1>2, <3>2, <3>3, Zenon
  <2> QED
    BY <1>1, <2>1
<1>4. Len(w) = j - i + 1 /\ w[1] = input[i + 1 - 1]
  <2>1. i <= j + 1 /\ 1 \in 1..(j - i + 1)
    BY <1>1, <1>3
  <2> QED
    BY <2>1, PartFacts
<1> HIDE DEF w
<1>5. i = j /\ input[i] = t /\ i \in 1..Len(input)
  <2>1. i + 1 - 1 = i
    BY <1>1
  <2> QED
    BY <1>1, <1>2, <1>3, <1>4, <2>1
<1>6. t \in Atom
  <2>1. input[i] \in Tokens
    BY <1>5
  <2> QED
    BY <1>5, <2>1
<1>7. t # "'" /\ t # "("
  BY <1>6, ParserAssumption
<1>8. ASSUME NEW b \in i..Len(input)
      PROVE  IsDatum(input, i, b) <=> i = b
  <2>1. i \in 1..(Len(input) + 1) /\ b \in 0..Len(input)
    BY <1>1, <1>5
  <2> QED
    BY <1>5, <1>6, <1>7, <2>1, Rules
<1>9. j \in i..Len(input)
  BY <1>1, <1>5
<1> QED
  BY <1>5, <1>6, <1>8, <1>9 DEF Starters

\* 'datum.
LEMMA QuoteStands ==
  ASSUME input \in Seq(Tokens), NEW v \in Seq(Glyph), Stands(v)
  PROVE  Stands(<<"'">> \o v)
<1> SUFFICES ASSUME NEW i \in Places, NEW j \in 0..Len(input), <<"'">> \o v = SubSeq(input, i, j)
             PROVE  /\ i <= j /\ input[i] \in Starters
                    /\ ~EmptyDotted(i, j) => IsDatum(input, i, j)
                    /\ \A b \in i..Len(input) : IsDatum(input, i, b) => b = j
  BY DEF Stands
<1>1. Len(input) \in Nat /\ i \in Int /\ j \in Int /\ 1 <= i /\ "'" \in Glyph
  BY DEF Places, Glyph, Tokens
<1>2. i <= j /\ i + 1 \in Places /\ input[i] = "'" /\ v = SubSeq(input, i + 1, j)
  <2> DEFINE t == "'"
  <2>1. t \in Glyph /\ <<t>> \o v = SubSeq(input, i, j)
    BY <1>1
  <2> HIDE DEF t
  <2>2. i <= j /\ i + 1 \in Places /\ input[i] = t /\ v = SubSeq(input, i + 1, j)
    <3>1. StartsWith(t, v, i, j)
      BY <2>1, CutFirst
    <3> QED
      BY <1>1, <3>1 DEF StartsWith
  <2> QED
    BY <2>2 DEF t
<1> DEFINE k == i + 1
<1>3. k \in Places /\ v = SubSeq(input, k, j)
  BY <1>2
<1> HIDE DEF k
<1>4. /\ k <= j
      /\ ~EmptyDotted(k, j) => IsDatum(input, k, j)
      /\ \A b \in k..Len(input) : IsDatum(input, k, b) => b = j
  BY <1>3, Zenon DEF Stands
<1>5. k = i + 1 /\ k \in Int
  BY <1>1 DEF k
<1>6. input[i] \notin Atom /\ input[i] # "("
  BY <1>2, ParserAssumption
<1>7. ASSUME NEW b \in i..Len(input)
      PROVE  IsDatum(input, i, b) <=> i < b /\ IsDatum(input, k, b)
  <2>1. i \in 1..(Len(input) + 1) /\ b \in 0..Len(input)
    BY <1>1 DEF Places
  <2> QED
    BY <1>2, <1>5, <1>6, <2>1, Rules
<1>8. ~EmptyDotted(i, j) => IsDatum(input, i, j)
  <2>1. ~EmptyDotted(i, j) => ~EmptyDotted(k, j)
    BY <1>1, <1>5, NoLoneDot
  <2>2. j \in i..Len(input) /\ i < j
    BY <1>1, <1>2, <1>4, <1>5
  <2> QED
    BY <1>4, <1>7, <2>1, <2>2
<1>9. ASSUME NEW b \in i..Len(input), IsDatum(input, i, b) PROVE b = j
  <2>1. i < b /\ IsDatum(input, k, b)
    BY <1>7, <1>9
  <2>2. b \in k..Len(input)
    BY <1>1, <1>5, <2>1
  <2> QED
    BY <1>4, <2>1, <2>2
<1> QED
  BY <1>2, <1>8, <1>9 DEF Starters

-----------------------------------------------------------------------------

\* No data, and one more datum behind others.
LEMMA RowGrows ==
  ASSUME input \in Seq(Tokens)
  PROVE  /\ InRow(<<>>)
         /\ \A u \in Seq(Glyph), v \in Seq(Glyph) : InRow(u) /\ Stands(v) => InRow(u \o v)
<1>0. Len(input) \in Nat
  OBVIOUS
<1>1. InRow(<<>>)
  <2> SUFFICES ASSUME NEW i \in Places, NEW j \in 0..Len(input), i <= j + 1,
                      <<>> = SubSeq(input, i, j)
               PROVE  /\ AreData(input, i, j)
                      /\ \A q \in (i - 1)..(Len(input) - 1) :
                           AreData(input, i, q) => j <= q /\ AreData(input, j + 1, q)
    BY DEF InRow
  <2>1. Len(SubSeq(input, i, j)) = j - i + 1
    BY PartFacts
  <2>2. Len(SubSeq(input, i, j)) = 0
    <3>1. Len(<<>>) = 0
      OBVIOUS
    <3> QED
      BY <3>1, Zenon
  <2>3. j - i + 1 = 0
    BY <2>1, <2>2, Zenon
  <2>4. j + 1 = i /\ i > j /\ i \in 1..(Len(input) + 1) /\ i \in Int /\ j \in Int
    BY <1>0, <2>3 DEF Places
  <2>5. AreData(input, i, j)
    BY <1>0, <2>4, Rules
  <2>6. \A q \in (i - 1)..(Len(input) - 1) : j <= q
    BY <1>0, <2>4
  <2> QED
    BY <2>4, <2>5, <2>6
<1>2. ASSUME NEW u \in Seq(Glyph), NEW v \in Seq(Glyph), InRow(u), Stands(v)
      PROVE  InRow(u \o v)
  <2> SUFFICES ASSUME NEW i \in Places, NEW j \in 0..Len(input), i <= j + 1,
                      u \o v = SubSeq(input, i, j)
               PROVE  /\ ~EmptyDotted(i, j) => AreData(input, i, j)
                      /\ \A q \in (i - 1)..(Len(input) - 1) :
                           AreData(input, i, q) /\ input[q + 1] \notin Starters
                             => j <= q /\ AreData(input, j + 1, q)
    BY DEF InRow
  <2>1. PICK r : SplitsAt(u, v, i, j, r)
    <3>1. u \in Seq(Glyph) /\ v \in Seq(Glyph) /\ i <= j + 1 /\ u \o v = SubSeq(input, i, j)
      BY <1>2
    <3> QED
      BY <1>0, <3>1, Cut
  <2>15. /\ r \in Places /\ i <= r /\ r <= j + 1 /\ r - 1 \in 0..Len(input)
         /\ u = SubSeq(input, i, r - 1) /\ v = SubSeq(input, r, j)
    BY <2>1 DEF SplitsAt
  <2>2. /\ i \in Int /\ j \in Int /\ r \in 1..(Len(input) + 1) /\ i \in 1..r /\ (r - 1) + 1 = r
        /\ r - 1 \in Int /\ r \in Int
    BY <1>0, <2>15 DEF Places
  <2> DEFINE p == r - 1
  <2>3. p \in 0..Len(input) /\ i <= p + 1 /\ u = SubSeq(input, i, p) /\ p + 1 = r
    BY <2>15, <2>2
  <2> HIDE DEF p
  <2>4. /\ ~EmptyDotted(i, p) => AreData(input, i, p)
        /\ \A q \in (i - 1)..(Len(input) - 1) :
             AreData(input, i, q) /\ input[q + 1] \notin Starters
               => p <= q /\ AreData(input, p + 1, q)
    BY <1>2, <2>3, Zenon DEF InRow
  <2>5. /\ r <= j /\ input[r] \in Starters
        /\ ~EmptyDotted(r, j) => IsDatum(input, r, j)
        /\ \A b \in r..Len(input) : IsDatum(input, r, b) => b = j
    BY <1>2, <2>15, Zenon DEF Stands
  <2>6. ASSUME ~EmptyDotted(i, j) PROVE AreData(input, i, j)
    <3>1. ~EmptyDotted(i, p) /\ ~EmptyDotted(r, j)
      <4>1. i <= i /\ p <= j /\ i <= r /\ j <= j /\ p \in Int
        BY <2>15, <2>2 DEF p
      <4> QED
        BY <2>2, <2>6, <4>1, NoLoneDot
    <3>2. AreData(input, i, r - 1) /\ IsDatum(input, r, j)
      BY <2>4, <2>5, <3>1 DEF p
    <3>3. j \in r..Len(input)
      BY <1>0, <2>2, <2>5
    <3> QED
      BY <1>0, <2>2, <3>2, <3>3, DataAppend
  <2>7. ASSUME NEW q \in (i - 1)..(Len(input) - 1), AreData(input, i, q), input[q + 1] \notin Starters
        PROVE  j <= q /\ AreData(input, j + 1, q)
    <3>1. p <= q /\ AreData(input, r, q)
      BY <2>3, <2>4, <2>7
    <3>2. r # q + 1 /\ q \in Int /\ p \in Int
      BY <1>0, <2>2, <2>5, <2>7, <2>3
    <3>3. r <= q /\ q \in 0..Len(input)
      BY <1>0, <2>2, <2>3, <3>1, <3>2
    <3>4. \E k \in r..q : IsDatum(input, r, k) /\ AreData(input, k + 1, q)
      <4>1. ~(r > q)
        BY <2>2, <3>2, <3>3
      <4> QED
        BY <1>0, <2>2, <3>1, <3>3, <4>1, Rules
    <3>5. PICK k \in r..q : IsDatum(input, r, k) /\ AreData(input, k + 1, q)
      BY <3>4
    <3>6. k \in r..Len(input)
      BY <1>0, <2>2, <3>2, <3>3
    <3>7. k = j
      BY <2>5, <3>5, <3>6
    <3> QED
      BY <3>2, <3>5, <3>7
  <2> QED
    BY <2>6, <2>7
<1> QED
  BY <1>1, <1>2

\* Data that are nodes: what is written of them in a row.
LEMMA EachInRow ==
  ASSUME input \in Seq(Tokens), NEW W, NEW ids \in Seq(Nat), Spelt(W, ids, Glyph),
         \A k \in 1..Len(ids) : Stands(W[ids[k]])
  PROVE  InRow(Each(W, ids))
<1> DEFINE Good(s) == Spelt(W, s, Glyph) /\ \A k \in 1..Len(s) : Stands(W[s[k]])
           P == {m \in Nat : \A s \in Seq(Nat) : Len(s) = m /\ Good(s) => InRow(Each(W, s))}
<1> HIDE DEF P
<1>1. ASSUME NEW m \in Nat, \A n \in 0..(m - 1) : n \in P
      PROVE  m \in P
  <2> SUFFICES ASSUME NEW s \in Seq(Nat), Len(s) = m, Good(s) PROVE InRow(Each(W, s))
    BY DEF P
  <2>1. CASE s = <<>>
    <3>1. <<>> \in Seq(Nat) /\ Spelt(W, <<>>, Glyph)
      BY DEF Spelt
    <3>2. Each(W, <<>>) = <<>>
      BY <3>1, EachFacts
    <3> QED
      BY <2>1, <3>2, RowGrows
  <2>2. CASE s # <<>>
    <3> DEFINE f == Front(s)
               b == Last(s)
    <3>1. f \in Seq(Nat) /\ b \in Nat /\ s = Append(f, b) /\ Len(f) = Len(s) - 1 /\ Len(s) \in Nat \ {0}
      BY <2>2, FrontLast
    <3> HIDE DEF f, b
    <3>2. /\ \A k \in 1..Len(f) : k \in 1..Len(s) /\ s[k] = f[k]
          /\ Len(s) \in 1..Len(s) /\ s[Len(s)] = b
      BY <3>1
    <3>3. Good(f) /\ Stands(W[b]) /\ W[b] \in Seq(Glyph)
      BY <3>2 DEF Spelt
    <3>4. Len(f) \in 0..(m - 1) /\ Len(f) \in P
      BY <1>1, <3>1
    <3>5. InRow(Each(W, f))
      BY <3>1, <3>3, <3>4 DEF P
    <3>6. Each(W, s) = Each(W, f) \o W[b]
      BY <3>1, <3>3, EachFacts
    <3>7. Each(W, f) \in Seq(Glyph)
      BY <3>1, <3>3, EachIn
    <3> QED
      BY <3>3, <3>5, <3>6, <3>7, RowGrows
  <2> QED
    BY <2>1, <2>2
<1>2. Len(ids) \in P
  BY <1>1, NatSetInduction
<1> QED
  BY <1>2 DEF P

\* What is read behind data in a row, up to a token that starts nothing.
LEMMA RowEnds ==
  ASSUME input \in Seq(Tokens), NEW u, InRow(u), NEW i \in Places, NEW r \in i..Len(input),
         u = SubSeq(input, i, r - 1), input[r] \notin Starters,
         NEW q \in (i - 1)..(Len(input) - 1), AreData(input, i, q), input[q + 1] \notin Starters
  PROVE  q = r - 1
<1> DEFINE p == r - 1
<1>1. Len(input) \in Nat /\ i \in 1..(Len(input) + 1) /\ i \in Int /\ 1 <= i
  BY DEF Places
<1>2. p \in 0..Len(input) /\ i <= p + 1 /\ p + 1 = r /\ q \in 0..Len(input)
      /\ u = SubSeq(input, i, p) /\ r \in 1..(Len(input) + 1) /\ p \in Int /\ q \in Int
  BY <1>1
<1> HIDE DEF p
<1>3. p <= q /\ AreData(input, r, q)
  BY <1>2, Zenon DEF InRow
<1>4. r > q
  BY <1>1, <1>2, <1>3, FirstToken
<1> QED
  BY <1>2, <1>3, <1>4

-----------------------------------------------------------------------------

\* What a datum that starts with a parenthesis holds.
LEMMA ListInside ==
  ASSUME Len(input) \in Nat, NEW i \in Places, NEW b \in i..Len(input), input[i] = "("
  PROVE  IsDatum(input, i, b) <=> i < b /\ input[b] = ")" /\ Listed(input, i + 1, b - 1)
<1>1. i \in 1..(Len(input) + 1) /\ b \in 0..Len(input)
  BY DEF Places
<1>2. input[i] \notin Atom /\ input[i] # "'"
  BY ParserAssumption
<1> QED
  BY <1>1, <1>2, Rules

\* Closing parentheses and dots start nothing.
LEMMA NoStarters == ")" \notin Starters /\ "." \notin Starters
  BY ParserAssumption DEF Starters

\* A list, with or without data, stands as a datum.
LEMMA ListStands ==
  ASSUME input \in Seq(Tokens), NEW u \in Seq(Glyph), InRow(u)
  PROVE  Stands(<<"(">> \o u \o <<")">>)
<1> SUFFICES ASSUME NEW i \in Places, NEW j \in 0..Len(input),
                    <<"(">> \o u \o <<")">> = SubSeq(input, i, j)
             PROVE  /\ i <= j /\ input[i] \in Starters
                    /\ ~EmptyDotted(i, j) => IsDatum(input, i, j)
                    /\ \A b \in i..Len(input) : IsDatum(input, i, b) => b = j
  BY DEF Stands
<1> DEFINE a == "("
           z == ")"
           v == u \o <<z>>
<1>1. Len(input) \in Nat /\ i \in Int /\ j \in Int /\ 1 <= i /\ a \in Glyph /\ z \in Glyph
  BY DEF Places, Glyph, Tokens
<1>2. v \in Seq(Glyph) /\ <<a>> \o v = SubSeq(input, i, j)
  <2>1. <<a>> \in Seq(Glyph) /\ <<z>> \in Seq(Glyph)
    BY <1>1
  <2>2. v \in Seq(Glyph)
    BY <2>1, ConcatProperties
  <2>3. (<<a>> \o u) \o <<z>> = <<a>> \o (u \o <<z>>)
    BY <2>1, ConcatAssociative
  <2> QED
    BY <2>2, <2>3, Zenon
<1> HIDE DEF a, z, v
<1>3. i <= j /\ i + 1 \in Places /\ i + 1 <= j + 1 /\ input[i] = a /\ v = SubSeq(input, i + 1, j)
  <2>1. StartsWith(a, v, i, j)
    BY <1>1, <1>2, CutFirst
  <2> QED
    BY <2>1 DEF StartsWith
<1> DEFINE l == i + 1
<1>4. l \in Places /\ l <= j + 1 /\ u \o <<z>> = SubSeq(input, l, j) /\ l \in Int /\ l = i + 1
  BY <1>1, <1>3 DEF v
<1> HIDE DEF l
<1>5. l <= j /\ input[j] = z /\ j - 1 \in 0..Len(input) /\ u = SubSeq(input, l, j - 1)
  <2>1. EndsWith(u, z, l, j)
    BY <1>1, <1>4, CutLast
  <2> QED
    BY <2>1 DEF EndsWith
<1>6. input[i] = "(" /\ input[j] = ")" /\ input[j] \notin Starters
  BY <1>3, <1>5, NoStarters DEF a, z
<1>7. j \in l..Len(input) /\ i < j /\ j \in i..Len(input) /\ l <= (j - 1) + 1
  BY <1>1, <1>4, <1>5
<1>8. ASSUME ~EmptyDotted(i, j) PROVE IsDatum(input, i, j)
  <2> DEFINE p == j - 1
  <2>1. p \in 0..Len(input) /\ l <= p + 1 /\ u = SubSeq(input, l, p) /\ i <= l /\ p <= j /\ p \in Int
    BY <1>1, <1>4, <1>5, <1>7
  <2> HIDE DEF p
  <2>2. ~EmptyDotted(l, p)
    BY <1>1, <1>4, <1>8, <2>1, NoLoneDot
  <2>3. AreData(input, l, p)
    BY <1>4, <2>1, <2>2, Zenon DEF InRow
  <2>4. Listed(input, i + 1, j - 1)
    BY <1>4, <2>3 DEF Listed, p
  <2> QED
    BY <1>1, <1>6, <1>7, <2>4, ListInside
<1>9. ASSUME NEW b \in i..Len(input), IsDatum(input, i, b) PROVE b = j
  <2>1. i < b /\ input[b] = ")" /\ Listed(input, l, b - 1)
    BY <1>1, <1>4, <1>6, <1>9, ListInside
  <2>2. b \in Int /\ b - 1 \in (l - 1)..(Len(input) - 1) /\ (b - 1) + 1 = b
    BY <1>1, <1>4, <2>1
  <2>3. CASE AreData(input, l, b - 1)
    <3> DEFINE q == b - 1
    <3>1. q \in (l - 1)..(Len(input) - 1) /\ input[q + 1] \notin Starters /\ AreData(input, l, q)
      BY <1>6, <2>1, <2>2, <2>3, NoStarters
    <3> HIDE DEF q
    <3>2. q = j - 1
      BY <1>4, <1>5, <1>6, <1>7, <3>1, RowEnds
    <3> QED
      BY <1>1, <2>2, <3>2 DEF q
  <2>4. ASSUME NEW k \in (l + 1)..((b - 1) - 1), input[k] = ".", AreData(input, l, k - 1)
        PROVE  FALSE
    <3> DEFINE q == k - 1
    <3>0. k \in Int /\ q + 1 = k
      OBVIOUS
    <3>1. q \in (l - 1)..(Len(input) - 1) /\ input[q + 1] \notin Starters /\ AreData(input, l, q)
      <4>1. q \in (l - 1)..(Len(input) - 1)
        <5>1. Len(input) \in Nat /\ l \in Int /\ b \in Int /\ b <= Len(input)
          BY <1>1, <1>4, <2>2 DEF Places
        <5>2. l + 1 <= k /\ k <= b - 2
          BY <2>2, <2>4, <5>1
        <5> QED
          BY <3>0, <5>1, <5>2
      <4>2. input[k] \notin Starters
        BY <2>4, NoStarters
      <4> QED
        BY <2>4, <3>0, <4>1, <4>2
    <3> HIDE DEF q
    <3>2. q = j - 1
      BY <1>4, <1>5, <1>6, <1>7, <3>1, RowEnds
    <3>3. k = j
      BY <1>1, <3>0, <3>2
    <3> QED
      BY <1>6, <2>4, <3>3
  <2> QED
    BY <2>1, <2>3, <2>4 DEF Listed
<1> QED
  BY <1>3, <1>6, <1>8, <1>9 DEF Starters

-----------------------------------------------------------------------------

\* (data . datum)
LEMMA DottedStands ==
  ASSUME input \in Seq(Tokens), NEW u \in Seq(Glyph), InRow(u), NEW v \in Seq(Glyph), Stands(v)
  PROVE  Stands(<<"(">> \o u \o <<".">> \o v \o <<")">>)
<1> SUFFICES ASSUME NEW i \in Places, NEW j \in 0..Len(input),
                    <<"(">> \o u \o <<".">> \o v \o <<")">> = SubSeq(input, i, j)
             PROVE  /\ i <= j /\ input[i] \in Starters
                    /\ ~EmptyDotted(i, j) => IsDatum(input, i, j)
                    /\ \A b \in i..Len(input) : IsDatum(input, i, b) => b = j
  BY DEF Stands
<1> DEFINE a == "("
           d == "."
           z == ")"
           dv == <<d>> \o v
           udv == u \o dv
           w == udv \o <<z>>
<1>1. Len(input) \in Nat /\ i \in Int /\ j \in Int /\ 1 <= i /\ a \in Glyph /\ z \in Glyph /\ d \in Glyph
  BY DEF Places, Glyph, Tokens
<1>2. /\ dv \in Seq(Glyph) /\ udv \in Seq(Glyph) /\ w \in Seq(Glyph)
      /\ <<a>> \o w = SubSeq(input, i, j)
  <2>1. <<a>> \in Seq(Glyph) /\ <<z>> \in Seq(Glyph) /\ <<d>> \in Seq(Glyph)
    BY <1>1
  <2>2. dv \in Seq(Glyph)
    BY <2>1, ConcatProperties
  <2>3. udv \in Seq(Glyph)
    <3> HIDE DEF dv
    <3> QED
      BY <2>2, ConcatProperties
  <2>4. w \in Seq(Glyph)
    <3> HIDE DEF udv
    <3> QED
      BY <2>1, <2>3, ConcatProperties
  <2>5. (<<a>> \o u) \o <<d>> = <<a>> \o (u \o <<d>>) /\ u \o <<d>> \in Seq(Glyph)
    BY <2>1, ConcatAssociative, ConcatProperties
  <2>6. (<<a>> \o (u \o <<d>>)) \o v = <<a>> \o ((u \o <<d>>) \o v)
    <3> DEFINE ud == u \o <<d>>
    <3>1. ud \in Seq(Glyph)
      BY <2>5
    <3> HIDE DEF ud
    <3>2. (<<a>> \o ud) \o v = <<a>> \o (ud \o v)
      BY <2>1, <3>1, ConcatAssociative
    <3> QED
      BY <3>2 DEF ud
  <2>7. (u \o <<d>>) \o v = udv
    BY <2>1, ConcatAssociative
  <2>8. (<<a>> \o udv) \o <<z>> = <<a>> \o w
    <3>1. (<<a>> \o udv) \o <<z>> = <<a>> \o (udv \o <<z>>)
      <4> HIDE DEF udv
      <4> QED
        BY <2>1, <2>3, ConcatAssociative
    <3> QED
      BY <3>1
  <2> QED
    BY <2>2, <2>3, <2>4, <2>5, <2>6, <2>7, <2>8, Zenon
<1> HIDE DEF a, d, z, dv, udv, w
<1>3. i <= j /\ i + 1 \in Places /\ i + 1 <= j + 1 /\ input[i] = a /\ w = SubSeq(input, i + 1, j)
  <2>1. w \in Seq(Glyph) /\ a \in Glyph /\ <<a>> \o w = SubSeq(input, i, j)
    BY <1>1, <1>2
  <2>2. StartsWith(a, w, i, j)
    BY <2>1, CutFirst
  <2> QED
    BY <2>2 DEF StartsWith
<1> DEFINE l == i + 1
           p == j - 1
<1>4. l \in Places /\ l <= j + 1 /\ udv \o <<z>> = SubSeq(input, l, j) /\ l \in Int /\ l = i + 1
  <2>1. l \in Places /\ l <= j + 1 /\ l \in Int /\ l = i + 1
    BY <1>1, <1>3
  <2>2. udv \o <<z>> = SubSeq(input, l, j)
    BY <1>3, Zenon DEF w
  <2> QED
    BY <2>1, <2>2
<1> HIDE DEF l
<1>5. l <= j /\ input[j] = z /\ p \in 0..Len(input) /\ l <= p + 1 /\ udv = SubSeq(input, l, p)
      /\ p = j - 1
  <2>1. /\ udv \in Seq(Glyph) /\ z \in Glyph /\ l \in Places /\ l <= j + 1
        /\ udv \o <<z>> = SubSeq(input, l, j)
    BY <1>1, <1>2, <1>4
  <2>2. l <= j /\ input[j] = z /\ j - 1 \in 0..Len(input) /\ l <= (j - 1) + 1
        /\ udv = SubSeq(input, l, j - 1)
    <3>1. EndsWith(udv, z, l, j)
      BY <2>1, CutLast
    <3> QED
      BY <3>1 DEF EndsWith
  <2> QED
    BY <2>2
<1> HIDE DEF p
<1>6. u \o dv = SubSeq(input, l, p)
  BY <1>5 DEF udv
<1>7. PICK r : SplitsAt(u, dv, l, p, r)
  BY <1>2, <1>4, <1>5, <1>6, Cut
<1>8. /\ r \in Places /\ l <= r /\ r <= p + 1 /\ r - 1 \in 0..Len(input)
      /\ u = SubSeq(input, l, r - 1) /\ <<d>> \o v = SubSeq(input, r, p)
  BY <1>7 DEF SplitsAt, dv
<1>9. r <= p /\ r + 1 \in Places /\ input[r] = d /\ v = SubSeq(input, r + 1, p)
  <2>1. r \in Places /\ p \in 0..Len(input) /\ <<d>> \o v = SubSeq(input, r, p) /\ d \in Glyph
    BY <1>1, <1>5, <1>8
  <2>2. StartsWith(d, v, r, p)
    BY <2>1, CutFirst
  <2> QED
    BY <2>2 DEF StartsWith
<1> DEFINE m == r + 1
<1>10. m \in Places /\ v = SubSeq(input, m, p) /\ m = r + 1
  BY <1>9
<1> HIDE DEF m
<1>11. /\ m <= p
       /\ ~EmptyDotted(m, p) => IsDatum(input, m, p)
       /\ \A b \in m..Len(input) : IsDatum(input, m, b) => b = p
  BY <1>5, <1>10, Zenon DEF Stands
<1>12. /\ input[i] = "(" /\ input[j] = ")" /\ input[r] = "." /\ input[r] \notin Starters
       /\ input[j] \notin Starters
  BY <1>3, <1>5, <1>9, NoStarters DEF a, d, z
<1>13. /\ r \in Int /\ p \in Int /\ r \in l..Len(input) /\ i < j /\ j \in i..Len(input)
       /\ r < p /\ p < j
  BY <1>1, <1>4, <1>5, <1>8, <1>9, <1>10, <1>11 DEF Places
<1>14. ASSUME ~EmptyDotted(i, j) PROVE IsDatum(input, i, j)
  <2>1. r # l
    <3>1. ASSUME r = l PROVE FALSE
      <4>1. i \in i..(j - 1) /\ input[i + 1] = "."
        BY <1>1, <1>4, <1>12, <1>13, <3>1
      <4> QED
        BY <1>12, <1>14, <4>1 DEF EmptyDotted
    <3> QED
      BY <3>1
  <2> DEFINE q == r - 1
  <2>2. /\ q \in 0..Len(input) /\ l <= q + 1 /\ u = SubSeq(input, l, q)
        /\ i <= l /\ q <= j /\ q \in Int /\ i <= m /\ p <= j /\ m \in Int
    BY <1>1, <1>4, <1>8, <1>10, <1>13
  <2> HIDE DEF q
  <2>3. ~EmptyDotted(l, q) /\ ~EmptyDotted(m, p)
    BY <1>1, <1>4, <1>13, <1>14, <2>2, NoLoneDot
  <2>4. AreData(input, l, q)
    BY <1>4, <2>2, <2>3, Zenon DEF InRow
  <2>5. IsDatum(input, m, p)
    BY <1>11, <2>3
  <2>6. r \in (l + 1)..(p - 1)
    BY <1>4, <1>8, <1>13, <2>1
  <2>7. Listed(input, i + 1, j - 1)
    BY <1>4, <1>5, <1>10, <1>12, <2>4, <2>5, <2>6 DEF Listed, q
  <2> QED
    BY <1>1, <1>12, <1>13, <2>7, ListInside
<1>15. ASSUME NEW b \in i..Len(input), IsDatum(input, i, b) PROVE b = j
  <2>1. i < b /\ input[b] = ")" /\ Listed(input, l, b - 1)
    BY <1>1, <1>4, <1>12, <1>15, ListInside
  <2>2. b \in Int /\ b - 1 \in (l - 1)..(Len(input) - 1) /\ (b - 1) + 1 = b
    BY <1>1, <1>4, <2>1
  <2>3. ASSUME AreData(input, l, b - 1) PROVE FALSE
    <3> DEFINE q == b - 1
    <3>1. q \in (l - 1)..(Len(input) - 1) /\ input[q + 1] \notin Starters /\ AreData(input, l, q)
      BY <2>1, <2>2, <2>3, NoStarters
    <3> HIDE DEF q
    <3>2. q = r - 1
      <4>1. /\ l \in Places /\ r \in l..Len(input) /\ u = SubSeq(input, l, r - 1)
            /\ InRow(u) /\ input[r] \notin Starters
        BY <1>4, <1>8, <1>12, <1>13
      <4> QED
        BY <3>1, <4>1, RowEnds, ZenonT(60)
    <3>3. b = r
      BY <1>13, <2>2, <3>2 DEF q
    <3> QED
      BY <1>12, <2>1, <3>3
  <2>4. ASSUME NEW k \in (l + 1)..((b - 1) - 1), input[k] = ".", AreData(input, l, k - 1),
               IsDatum(input, k + 1, b - 1)
        PROVE  b = j
    <3> DEFINE q == k - 1
    <3>0. k \in Int /\ q + 1 = k
      OBVIOUS
    <3>1. q \in (l - 1)..(Len(input) - 1) /\ input[q + 1] \notin Starters /\ AreData(input, l, q)
      <4>1. q \in (l - 1)..(Len(input) - 1)
        <5>1. Len(input) \in Nat /\ l \in Int /\ b \in Int /\ b <= Len(input)
          BY <1>1, <1>4, <2>2 DEF Places
        <5>2. l + 1 <= k /\ k <= b - 2
          BY <2>2, <2>4, <5>1
        <5> QED
          BY <3>0, <5>1, <5>2
      <4>2. input[k] \notin Starters
        BY <2>4, NoStarters
      <4> QED
        BY <2>4, <3>0, <4>1, <4>2
    <3> HIDE DEF q
    <3>2. q = r - 1
      <4>1. /\ l \in Places /\ r \in l..Len(input) /\ u = SubSeq(input, l, r - 1)
            /\ InRow(u) /\ input[r] \notin Starters
        BY <1>4, <1>8, <1>12, <1>13
      <4> QED
        BY <3>1, <4>1, RowEnds, ZenonT(60)
    <3>3. k = r /\ k + 1 = m
      BY <1>10, <1>13, <3>0, <3>2
    <3>4. b - 1 \in m..Len(input)
      BY <1>1, <1>10, <2>2, <3>3
    <3>5. b - 1 = p
      BY <1>11, <2>4, <3>3, <3>4
    <3> QED
      BY <1>1, <1>5, <2>2, <3>5
  <2> QED
    BY <2>1, <2>3, <2>4 DEF Listed
<1> QED
  BY <1>3, <1>12, <1>14, <1>15 DEF Starters

-----------------------------------------------------------------------------

\* A list that has what the parser puts into it.
Complete(ns, n) ==
  ns[n].text = "list" =>
    /\ ns[n].dotted => ns[n].args # <<>>
    /\ ~ns[n].dotted /\ Quotes(ns, ns[n].args) => Len(ns[n].args) = 2

\* Every list that is not open is.
Finished(ns, O) == \A n \in 1..Len(ns) : n \notin O => Complete(ns, n)

\* One more node, when those below it stand for data.
LEMMA NodeStands ==
  ASSUME input \in Seq(Tokens), NEW ns, Acyclic(ns), NEW O, Finished(ns, O),
         NEW n \in 1..Len(ns), n \notin O,
         \A k \in 1..Len(ns[n].args) : Stands(Texts(ns)[ns[n].args[k]])
  PROVE  Stands(Texts(ns)[n])
<1> DEFINE W == Texts(ns)
           x == ns[n]
<1>1. /\ Len(ns) \in Nat /\ x \in Node /\ x.args \in Seq(Nat) /\ n # Garbage
      /\ Spelt(W, x.args, Glyph)
      /\ W[n] = Writing(ns, W, n)
  <2>1. Len(ns) \in Nat /\ x \in Node /\ n \in 0..Len(ns)
    BY DEF Acyclic
  <2>2. x.args \in Seq(Nat) /\ \A k \in 1..Len(x.args) : x.args[k] \in {0} \cup ((n + 1)..Len(ns))
    BY <2>1, ArgsFacts
  <2>3. W \in [0..Len(ns) -> Seq(Glyph)] /\ W[n] = Writing(ns, W, n)
    BY <2>1, TextsFacts
  <2>4. \A k \in 1..Len(x.args) : x.args[k] \in 0..Len(ns)
    BY <2>1, <2>2
  <2> HIDE DEF W
  <2>5. Spelt(W, x.args, Glyph)
    BY <2>3, <2>4 DEF Spelt
  <2> QED
    BY <2>1, <2>2, <2>3, <2>5 DEF Garbage
<1>2. \A k \in 1..Len(x.args) : Stands(W[x.args[k]])
  OBVIOUS
<1>3. /\ x.text \in Atom \cup {"quote", "list"}
      /\ x.text = "list" => /\ x.dotted => x.args # <<>>
                            /\ ~x.dotted /\ Quotes(ns, x.args) => Len(x.args) = 2
  BY <1>1 DEF Finished, Complete, Node
<1> HIDE DEF W, x
<1>4. CASE x.text # "list"
  <2>1. W[n] = <<x.text>>
    BY <1>1, <1>4 DEF Writing, x
  <2>2. x.text \in Atom \/ x.text \notin Tokens
    BY <1>3, <1>4, ParserAssumption DEF Tokens
  <2> QED
    BY <2>1, <2>2, AtomStands DEF W
<1>5. CASE x.text = "list" /\ x.dotted
  <2>1. x.args # <<>>
    BY <1>3, <1>5
  <2>2. W[n] = <<"(">> \o Each(W, Front(x.args)) \o <<".">> \o W[Last(x.args)] \o <<")">>
    BY <1>1, <1>5, <2>1 DEF Writing, x
  <2> DEFINE f == Front(x.args)
             b == Last(x.args)
             s == x.args
  <2>3. f \in Seq(Nat) /\ b = s[Len(s)] /\ Len(s) \in 1..Len(s) /\ Len(f) = Len(s) - 1
        /\ Len(s) \in Nat
        /\ \A k \in 1..(Len(s) - 1) : f[k] = s[k]
    <3>1. s \in Seq(Nat) /\ s # <<>>
      BY <1>1, <2>1
    <3> HIDE DEF s
    <3>2. /\ Len(s) \in Nat \ {0} /\ Front(s) \in Seq(Nat) /\ Len(Front(s)) = Len(s) - 1
          /\ \A k \in 1..(Len(s) - 1) : Front(s)[k] = s[k]
          /\ Last(s) = s[Len(s)]
      BY <3>1, FrontLast
    <3> QED
      BY <3>2 DEF s
  <2>4. \A k \in 1..Len(f) : k \in 1..Len(s) /\ f[k] = s[k]
    BY <2>3
  <2>5. Spelt(W, f, Glyph) /\ (\A k \in 1..Len(f) : Stands(W[f[k]])) /\ Stands(W[b]) /\ W[b] \in Seq(Glyph)
    BY <1>1, <1>2, <2>3, <2>4 DEF Spelt
  <2> HIDE DEF f, b, s
  <2>6. InRow(Each(W, f)) /\ Each(W, f) \in Seq(Glyph)
    BY <2>3, <2>5, EachInRow, EachIn
  <2> DEFINE e == Each(W, f)
             t == W[b]
  <2>7. e \in Seq(Glyph) /\ InRow(e) /\ t \in Seq(Glyph) /\ Stands(t)
    BY <2>5, <2>6
  <2> HIDE DEF e, t
  <2>8. Stands(<<"(">> \o e \o <<".">> \o t \o <<")">>)
    BY <2>7, DottedStands
  <2> QED
    BY <2>2, <2>8 DEF e, t, f, b, W
<1>6. CASE x.text = "list" /\ ~x.dotted /\ Quotes(ns, x.args)
  <2>1. Len(x.args) = 2 /\ x.args # <<>> /\ ns[x.args[1]].text = "quote"
    BY <1>3, <1>6 DEF Quotes
  <2>2. W[n] = <<"'">> \o Each(W, Tail(x.args))
    BY <1>1, <1>6, <2>1 DEF Writing, x
  <2>3. Tail(x.args) = <<x.args[2]>> /\ 2 \in 1..Len(x.args)
    BY <1>1, <2>1, ShortTails
  <2> DEFINE b == x.args[2]
  <2>4. b \in Nat /\ Stands(W[b]) /\ W[b] \in Seq(Glyph)
    BY <1>1, <1>2, <2>3 DEF Spelt
  <2> HIDE DEF b
  <2>5. Each(W, <<b>>) = W[b]
    <3> DEFINE z == <<>>
    <3>1. z \in Seq(Nat) /\ Spelt(W, z, Glyph) /\ Append(z, b) = <<b>>
      BY <2>4 DEF Spelt
    <3> HIDE DEF z
    <3>2. Each(W, <<>>) = <<>> /\ Each(W, Append(z, b)) = Each(W, z) \o W[b]
      BY <2>4, <3>1, EachFacts
    <3>3. <<>> \o W[b] = W[b]
      BY <2>4, ConcatEmptySeq
    <3> QED
      BY <3>1, <3>2, <3>3, Zenon DEF z
  <2> DEFINE t == W[b]
  <2>6. Stands(<<"'">> \o t)
    <3>1. t \in Seq(Glyph) /\ Stands(t)
      BY <2>4
    <3> HIDE DEF t
    <3> QED
      BY <3>1, QuoteStands
  <2> QED
    BY <2>2, <2>3, <2>5, <2>6 DEF b, W
<1>7. CASE x.text = "list" /\ ~x.dotted /\ ~Quotes(ns, x.args)
  <2>1. W[n] = <<"(">> \o Each(W, x.args) \o <<")">>
    BY <1>1, <1>7 DEF Writing, x, Quotes
  <2> DEFINE e == Each(W, x.args)
  <2>2. e \in Seq(Glyph) /\ InRow(e)
    BY <1>1, <1>2, EachInRow, EachIn
  <2> HIDE DEF e
  <2>3. Stands(<<"(">> \o e \o <<")">>)
    BY <2>2, ListStands
  <2> QED
    BY <2>1, <2>3 DEF e, W
<1> QED
  BY <1>4, <1>5, <1>6, <1>7

\* So does every node that is not open, and a pointer that nobody assigned.
LEMMA ClosedStands ==
  ASSUME input \in Seq(Tokens), NEW ns, Acyclic(ns), NEW O, Finished(ns, O), Unshared(ns, O)
  PROVE  \A n \in (0..Len(ns)) \ O : Stands(Texts(ns)[n])
<1> DEFINE L == Len(ns)
           P == {m \in Nat : m <= L /\ L - m \notin O => Stands(Texts(ns)[L - m])}
<1>1. L \in Nat
  BY DEF Acyclic
<1>2. Stands(Texts(ns)[0])
  <2>1. Texts(ns)[0] = <<"garbage">>
    BY TextsFacts
  <2>2. "garbage" \notin Tokens
    BY ParserAssumption DEF Tokens
  <2> QED
    BY <2>1, <2>2, AtomStands
<1> HIDE DEF P
<1>3. ASSUME NEW m \in Nat, \A n \in 0..(m - 1) : n \in P
      PROVE  m \in P
  <2> SUFFICES ASSUME m <= L, L - m \notin O PROVE Stands(Texts(ns)[L - m])
    BY DEF P
  <2> DEFINE n == L - m
  <2>1. n \in 0..L /\ n \notin O
    BY <1>1
  <2>2. CASE n = 0
    BY <1>2, <2>2
  <2>3. CASE n # 0
    <3>1. n \in 1..L
      BY <1>1, <2>1, <2>3
    <3>2. ASSUME NEW k \in (n + 1)..L, k \notin O PROVE Stands(Texts(ns)[k])
      <4>1. L - k \in 0..(m - 1) /\ L - (L - k) = k /\ L - k <= L /\ L - k \in Nat
        BY <1>1
      <4>2. L - k \in P
        BY <1>3, <4>1
      <4> QED
        BY <3>2, <4>1, <4>2 DEF P
    <3> HIDE DEF n
    <3>3. ASSUME NEW k \in 1..Len(ns[n].args) PROVE Stands(Texts(ns)[ns[n].args[k]])
      <4>1. ns[n].args[k] \in {0} \cup ((n + 1)..L) /\ ns[n].args[k] \notin O
        BY <3>1, ArgsFacts DEF Unshared
      <4> QED
        BY <1>2, <3>2, <4>1
    <3>4. Stands(Texts(ns)[n])
      BY <2>1, <3>1, <3>3, NodeStands
    <3> QED
      BY <3>4 DEF n
  <2> QED
    BY <2>2, <2>3
<1>4. \A m \in Nat : m \in P
  BY <1>3, NatSetInduction
<1> SUFFICES ASSUME NEW n \in (0..L) \ O PROVE Stands(Texts(ns)[n])
  OBVIOUS
<1>5. L - n \in Nat /\ L - n <= L /\ L - (L - n) = n
  BY <1>1
<1> QED
  BY <1>4, <1>5 DEF P

-----------------------------------------------------------------------------

\* A text with a part that nobody assigned.
Ruined(t) == \E k \in 1..Len(t) : t[k] = "garbage"

StartOf(fs, k) == IF k = 1 THEN 0 ELSE fs[k - 1].end

\* Forms stand for the tokens consumed, but for broken ones where no datum starts.
Spells(ns, inp, fs) ==
  \A k \in 1..Len(fs) :
    \/ Ruined(Texts(ns)[fs[k].node]) /\ ~HasDatum(inp, StartOf(fs, k) + 1)
    \/ Texts(ns)[fs[k].node] = SubSeq(inp, StartOf(fs, k) + 1, fs[k].end)

\* The first token after the last form.
Origin == StartOf(forms, Len(forms) + 1) + 1

\* The open lists O are the tokens from there to the one before tip.
Covered(ns, O, tip) == \E at : at[0] = Origin /\ Chain(ns, O, at, tip)

\* A datum n that ends with token p follows them.
Followed(ns, O, n, p) ==
  \E tip : tip <= p + 1 /\ Covered(ns, O, tip) /\ Texts(ns)[n] = SubSeq(input, tip, p)

\* The input has ended at token p, and no datum starts behind the last form.
Lost(p) == p = Len(input) /\ ~HasDatum(input, Origin)

(***************************************************************************)
(* While an activation runs, the open lists are all that has been read since *)
(* the last form; when one returns, its datum is behind them.  Otherwise, and *)
(* where the parser throws, there is no datum to be had.                     *)
(***************************************************************************)
Spelled ==
  /\ Spells(nodes, input, forms)
  /\ pc = "main" => pos = Origin - 1
  /\ pc = "parse" => Lost(pos) \/ Covered(nodes, Open(calls), pos + 1)
  /\ pc = "return" => \/ Lost(pos) /\ Ruined(Texts(nodes)[ret])
                      \/ fetched = pos /\ Followed(nodes, Open(calls), ret, pos)
  /\ pc \in {"error", "endless", "crash"} => ~HasDatum(input, Origin)

\* The property, in those terms.
LEMMA RoundTripIs == Spells(nodes, input, forms) => RoundTrip
  BY DEF RoundTrip, Broken, Start, StartOf, Spells, Ruined, Written, Texts, Writing, Each

\* So is the exception it makes.
LEMMA BrokenIs ==
  ASSUME NEW n
  PROVE  Broken(n) <=> Ruined(Texts(nodes)[n])
  BY WrittenIs DEF Broken, Ruined

\* Spelled of the next state, for a step that takes no form.
LEMMA SpelledNext ==
  ASSUME UNCHANGED <<input, forms>>, Spells(nodes', input, forms),
         pc' = "main" => pos' = Origin - 1,
         pc' = "parse" => Lost(pos') \/ Covered(nodes', Open(calls'), pos' + 1),
         pc' = "return" => \/ Lost(pos') /\ Ruined(Texts(nodes')[ret'])
                           \/ fetched' = pos' /\ Followed(nodes', Open(calls'), ret', pos'),
         pc' \in {"error", "endless", "crash"} => ~HasDatum(input, Origin)
  PROVE  Spelled'
<1>1. input' = input /\ forms' = forms
  OBVIOUS
<1>2. Origin' = Origin
  BY <1>1 DEF Origin
<1>3. Covered(nodes', Open(calls'), pos' + 1) => Covered(nodes, Open(calls), pos + 1)'
  BY <1>1, <1>2 DEF Covered, Chain, Places
<1>4. Followed(nodes', Open(calls'), ret', pos') => Followed(nodes, Open(calls), ret, pos)'
  <2> SUFFICES ASSUME NEW tip, tip <= pos' + 1, Covered(nodes', Open(calls'), tip),
                      Texts(nodes')[ret'] = SubSeq(input, tip, pos')
               PROVE  Followed(nodes, Open(calls), ret, pos)'
    BY DEF Followed
  <2>1. Covered(nodes, Open(calls), tip)'
    BY <1>1, <1>2 DEF Covered, Chain, Places
  <2>2. (Texts(nodes)[ret] = SubSeq(input, tip, pos))'
    BY <1>1
  <2> QED
    BY <2>1, <2>2 DEF Followed
<1>5. Spells(nodes, input, forms)'
  BY <1>1
<1>6. (pc = "main" => pos = Origin - 1)'
  BY <1>2
<1>7. HasDatum(input, Origin)' <=> HasDatum(input, Origin)
  BY <1>1, <1>2
<1>8. Lost(pos') => Lost(pos)'
  BY <1>1, <1>7 DEF Lost
<1>9. (pc = "parse" => Lost(pos) \/ Covered(nodes, Open(calls), pos + 1))'
  BY <1>3, <1>8
<1>10. (pc = "return" => \/ Lost(pos) /\ Ruined(Texts(nodes)[ret])
                         \/ fetched = pos /\ Followed(nodes, Open(calls), ret, pos))'
  BY <1>1, <1>4, <1>8
<1>11. (pc \in {"error", "endless", "crash"} => ~HasDatum(input, Origin))'
  BY <1>7
<1> QED
  BY <1>5, <1>6, <1>9, <1>10, <1>11 DEF Spelled

\* The forms that main() has got are spelt as before.
FormsSame(ns, ms) == \A k \in 1..Len(forms) : Texts(ms)[forms[k].node] = Texts(ns)[forms[k].node]

\* Forms whose nodes keep their texts stay spelt.
LEMMA SpellsSame ==
  ASSUME NEW ns, NEW ms, Spells(ns, input, forms), FormsSame(ns, ms)
  PROVE  Spells(ms, input, forms)
  BY DEF Spells, FormsSame

\* An open list is no part of a form, so that it can grow.
LEMMA FormsSameFacts ==
  ASSUME TypeOK, Shape, NEW ns, Acyclic(ns), Len(nodes) <= Len(ns), NEW x \in Open(calls),
         NEW ms, Acyclic(ms), Grown(ns, ms, x), Unshared(ns, {x})
  PROVE  FormsSame(ns, ms)
<1>1. Len(nodes) \in Nat /\ Len(ns) \in Nat /\ Open(calls) \subseteq 1..Len(nodes)
      /\ \A k \in 1..Len(forms) : forms[k].node \in (0..Len(nodes)) \ Open(calls)
  BY DEF TypeOK, Shape, Acyclic
<1>2. x # 0
  BY <1>1
<1>3. \A n \in 0..Len(ns) : n # x => Texts(ms)[n] = Texts(ns)[n]
  BY <1>2, TextsStable
<1> SUFFICES ASSUME NEW k \in 1..Len(forms)
             PROVE  Texts(ms)[forms[k].node] = Texts(ns)[forms[k].node]
  BY DEF FormsSame
<1>4. forms[k].node \in 0..Len(ns) /\ forms[k].node # x
  BY <1>1
<1> QED
  BY <1>3, <1>4

(***************************************************************************)
(* REDUCE_STK, when the text of the innermost list x ends with token p.      *)
(***************************************************************************)
LEMMA ReduceSpelled ==
  ASSUME TypeOK, Shape, calls # <<>>, Stk # <<>>,
         NEW ns, Acyclic(ns), Len(ns) = Len(nodes), Grown(nodes, ns, Last(Stk)),
         Unshared(ns, Open(calls)), nodes[Last(Stk)].text = "list",
         PlainAll(nodes, Front(Stk)), REDUCE_STK(ns),
         NEW at, at[0] = Origin, NEW tip, Chain(nodes, Open(calls), at, tip),
         NEW p \in pos..Len(input), tip <= p + 1,
         Texts(ns)[Last(Stk)] = SubSeq(input, at[Last(Stk)], p)
  PROVE  /\ pc' = "return" => Followed(nodes', Open(calls'), ret', p)
         /\ pc' = "parse" => Covered(nodes', Open(calls'), p + 1)
         /\ pc' \in {"return", "parse"}
<1> DEFINE b == Front(calls)
           r == Front(Stk)
           x == Last(Stk)
           O == Open(calls)
           Q == O \ {x}
<1>0. /\ Len(input) \in Nat /\ input \in Seq(Tokens) /\ pos \in Nat /\ p \in Nat /\ p + 1 \in Places
      /\ Len(nodes) \in Nat
  BY PeekFacts DEF TypeOK, Places
<1>1. b \in Seq(Call) /\ \A s \in Seq(Nat \ {0}) :
        /\ setStk(s) = Append(b, [stk |-> s, wait |-> "none"])
        /\ [stk |-> s, wait |-> "none"] \in Call
  BY CallsFacts
<1>2. /\ r \in Seq(Nat \ {0}) /\ x \in 1..Len(nodes) /\ Stk = Append(r, x)
      /\ O = Open(b) \cup Elems(r) \cup {x}
      /\ Before(Open(b) \cup Elems(r), {x})
      /\ Before(Open(b), Elems(r))
      /\ Len(Stk) \in Nat \ {0} /\ Len(r) = Len(Stk) - 1
  BY TopFacts
<1>3. PlainAll(nodes, r) /\ Grown(nodes, ns, x) /\ nodes[x].text = "list"
  OBVIOUS
<1>4. \/ /\ Len(Stk) = 1 /\ pc' = "return" /\ ret' = x /\ calls' = b /\ nodes' = ns
      \/ /\ Len(Stk) > 1 /\ nodes' = addArgument(ns, Last(r), x)
         /\ calls' = setStk(r) /\ pc' = "parse"
  BY DEF REDUCE_STK, Return
<1>5. /\ Acyclic(nodes) /\ Unshared(nodes, O) /\ Unshared(ns, O) /\ O \subseteq 1..Len(nodes)
      /\ Chain(nodes, O, at, tip) /\ Texts(ns)[x] = SubSeq(input, at[x], p)
  BY DEF Shape
<1> HIDE DEF b, r, x, O
<1>6. Q = Open(b) \cup Elems(r) /\ x \in O /\ (\A z \in O : z <= x) /\ O \subseteq Nat \ {0} /\ Q \subseteq Nat \ {0}
  BY <1>0, <1>2, <1>5 DEF Before
<1> HIDE DEF Q
<1>7. Unshared(nodes, {x}) /\ x # 0
  BY <1>2, <1>5, <1>6 DEF Unshared
<1>8. SameOpening(nodes, ns, Spine(O) \ {x})
  <2> SUFFICES ASSUME NEW z \in Spine(O), z # x PROVE Opening(ns, z) = Opening(nodes, z)
    BY DEF SameOpening
  <2>1. z \in 0..Len(nodes)
    BY <1>0, <1>5 DEF Spine
  <2> QED
    BY <1>3, <1>5, <1>7, <2>1, OpeningStable
<1>9. /\ \E au : au[0] = at[0] /\ Chain(ns, Q, au, at[x])
      /\ at[x] \in Places /\ tip \in Places /\ at[x] <= tip
  <2>1. Chain(nodes, O, at, tip) /\ x \in O /\ Top(O, x) /\ O \subseteq Nat \ {0}
    BY <1>5, <1>6 DEF Top, Spine
  <2>2. /\ \E au : au[0] = at[0] /\ Chain(ns, O \ {x}, au, at[x])
        /\ at[x] \in Places /\ tip \in Places /\ at[x] <= tip
    BY <1>8, <2>1, ChainPop
  <2> QED
    BY <2>2 DEF Q
<1>10. PICK au : au[0] = Origin /\ Chain(ns, Q, au, at[x])
  BY <1>9
<1>12. CASE Len(Stk) = 1
  <2>1. pc' = "return" /\ ret' = x /\ calls' = b /\ nodes' = ns
    BY <1>4, <1>12
  <2>2. Elems(r) = {}
    BY <1>2, <1>12 DEF Elems
  <2>3. Followed(ns, Q, x, p)
    <3>1. at[x] <= p + 1
      BY <1>0, <1>9 DEF Places
    <3> QED
      BY <1>5, <1>10, <3>1 DEF Followed, Covered
  <2>4. Open(calls') = Q
    BY <1>6, <2>1, <2>2
  <2> QED
    BY <2>1, <2>3, <2>4
<1>13. CASE Len(Stk) > 1
  <2> DEFINE q == Front(r)
             y == Last(r)
             ms == addArgument(ns, y, x)
  <2>1. nodes' = ms /\ calls' = setStk(r) /\ pc' = "parse"
    <3>1. Len(Stk) # 1
      BY <1>2, <1>13
    <3> QED
      BY <1>4, <3>1, Zenon
  <2>2. r # <<>>
    BY <1>2, <1>13
  <2>3. q \in Seq(Nat \ {0}) /\ y \in Nat \ {0} /\ r = Append(q, y)
    BY <1>2, <2>2, FrontLast
  <2> HIDE DEF q, y
  <2>4. Elems(r) = Elems(q) \cup {y} /\ Before(Elems(q), {y})
    <3>1. Increasing(r)
      BY TopFacts DEF r
    <3> QED
      BY <2>3, <3>1, ElemsFacts
  <2>5. /\ y \in 1..Len(ns) /\ x \in (y + 1)..Len(ns) /\ y \in Q /\ y # 0 /\ y \in O /\ y # x
        /\ \A z \in Spine(Q) : z <= y
    <3>1. y \in Elems(r)
      BY <2>4
    <3>2. y \in Q /\ y \in O /\ y < x /\ y # x
      BY <1>2, <1>6, <3>1 DEF Before
    <3>3. \A z \in Q : z <= y
      BY <1>2, <1>6, <2>3, <2>4, <3>1 DEF Before
    <3>4. \A z \in Spine(Q) : z <= y
      BY <2>3, <3>3 DEF Spine
    <3> QED
      BY <1>0, <1>2, <1>5, <2>3, <3>2, <3>4
  <2>6. Acyclic(ms) /\ Len(ms) = Len(ns) /\ Grown(ns, ms, y)
    BY <2>5, AddFacts
  <2>7. Unshared(ns, {y})
    BY <1>5, <2>5 DEF Unshared
  <2>8. Plain(ns, y)
    <3>1. Plain(nodes, y)
      BY <1>3, <2>3, PlainAppend
    <3> QED
      BY <1>3, <1>5, <2>5, <3>1, PlainStable
  <2>9. Opening(ms, y) = Opening(ns, y) \o SubSeq(input, at[x], p)
    <3>1. ns[x].text # "quote"
      BY <1>2, <1>3 DEF Grown
    <3>2. Opening(ms, y) = Opening(ns, y) \o Texts(ns)[x]
      BY <2>5, <2>7, <2>8, <3>1, OpeningAdd
    <3> QED
      BY <1>5, <3>2
  <2> HIDE DEF ms
  <2>10. SameOpening(ns, ms, Spine(Q) \ {y})
    <3> SUFFICES ASSUME NEW z \in Spine(Q), z # y PROVE Opening(ms, z) = Opening(ns, z)
      BY DEF SameOpening
    <3>1. z \in 0..Len(ns)
      BY <1>0, <1>5 DEF Spine, Q
    <3> QED
      BY <2>5, <2>6, <2>7, <3>1, OpeningStable
  <2>11. Chain(ms, Q, au, p + 1)
    <3>1. Top(Q, y)
      BY <2>5 DEF Top, Spine
    <3>2. p + 1 \in Places /\ at[x] <= p + 1 /\ (p + 1) - 1 = p
      <4>1. at[x] \in Nat /\ tip \in Nat
        BY <1>9 DEF Places
      <4> QED
        BY <1>0, <1>9, <4>1
    <3> DEFINE k == p + 1
    <3>3. k \in Places /\ at[x] <= k /\ Opening(ms, y) = Opening(ns, y) \o SubSeq(input, at[x], k - 1)
      BY <2>9, <3>2
    <3> HIDE DEF k
    <3>4. Chain(ms, Q, au, k)
      BY <1>0, <1>6, <1>10, <2>10, <3>1, <3>3, ChainGrow
    <3> QED
      BY <3>4 DEF k
  <2>12. Open(calls') = Q
    <3> DEFINE d == [stk |-> r, wait |-> "none"]
    <3>1. calls' = Append(b, d) /\ d \in Call /\ d.stk = r
      BY <1>1, <1>2, <2>1
    <3> HIDE DEF d
    <3> QED
      BY <1>1, <1>6, <3>1, OpenFacts
  <2>14. Covered(ms, Q, p + 1)
    BY <1>10, <2>11 DEF Covered
  <2> QED
    BY <2>1, <2>12, <2>14
<1> QED
  BY <1>2, <1>12, <1>13

-----------------------------------------------------------------------------

\* The token that is consumed, as a part of the input.
LEMMA TokenFacts ==
  ASSUME TypeOK, Peek # "EOF"
  PROVE  /\ input \in Seq(Tokens) /\ Len(input) \in Nat /\ pos \in Nat /\ pos + 1 \in Places
         /\ pos + 2 \in Places /\ pos + 1 \in pos..Len(input) /\ pos # Len(input)
         /\ SubSeq(input, pos + 1, pos + 1) = <<Peek>>
<1>1. /\ Len(input) \in Nat /\ input \in Seq(Tokens) /\ pos + 1 \in 1..Len(input)
      /\ Peek = input[pos + 1] /\ pos \in Nat
  BY PeekFacts DEF TypeOK
<1>2. /\ pos + 1 \in Places /\ pos + 2 \in Places /\ pos + 1 \in pos..Len(input)
      /\ pos # Len(input) /\ pos + 1 <= Len(input)
  BY <1>1 DEF Places
<1> DEFINE i == pos + 1
<1> HIDE DEF i
<1>3. SubSeq(input, i, i) = <<input[i]>>
  BY <1>1, <1>2, JoinOne DEF i
<1> QED
  BY <1>1, <1>2, <1>3 DEF i

\* New nodes leave everything as it was.
LEMMA NewSame ==
  ASSUME TypeOK, Shape, NEW ms, Acyclic(ms), Grown(nodes, ms, Len(nodes) + 1)
  PROVE  /\ SameOpening(nodes, ms, Spine(Open(calls)))
         /\ FormsSame(nodes, ms)
<1> DEFINE x == Len(nodes) + 1
<1>1. /\ Len(nodes) \in Nat /\ Acyclic(nodes) /\ Open(calls) \subseteq 1..Len(nodes)
      /\ \A k \in 1..Len(forms) : forms[k].node \in 0..Len(nodes)
  BY DEF TypeOK, Shape
<1>2. Unshared(nodes, {x})
  <2> SUFFICES ASSUME NEW n \in 1..Len(nodes), NEW k \in 1..Len(nodes[n].args)
               PROVE  nodes[n].args[k] # x
    BY DEF Unshared
  <2>1. nodes[n].args[k] \in {0} \cup ((n + 1)..Len(nodes))
    BY <1>1, ArgsFacts
  <2> QED
    BY <1>1, <2>1
<1>3. x # 0 /\ x \notin 0..Len(nodes) /\ Grown(nodes, ms, x)
  BY <1>1
<1> HIDE DEF x
<1>4. SameOpening(nodes, ms, Spine(Open(calls)))
  <2> SUFFICES ASSUME NEW z \in Spine(Open(calls)) PROVE Opening(ms, z) = Opening(nodes, z)
    BY DEF SameOpening
  <2>1. z \in 0..Len(nodes) /\ z # x
    BY <1>1, <1>3 DEF Spine
  <2> QED
    BY <1>1, <1>2, <1>3, <2>1, OpeningStable
<1>5. \A n \in 0..Len(nodes) : n # x => Texts(ms)[n] = Texts(nodes)[n]
  BY <1>1, <1>2, <1>3, TextsStable
<1>6. FormsSame(nodes, ms)
  <2> SUFFICES ASSUME NEW k \in 1..Len(forms)
               PROVE  Texts(ms)[forms[k].node] = Texts(nodes)[forms[k].node]
    BY DEF FormsSame
  <2>1. forms[k].node \in 0..Len(nodes)
    BY <1>1
  <2> QED
    BY <1>3, <1>5, <2>1
<1> QED
  BY <1>4, <1>6

\* One open list more, or none.
LEMMA OpenNext ==
  ASSUME TypeOK, calls # <<>>
  PROVE  /\ \A n \in Nat \ {0} :
              /\ Open(setStk(Append(Stk, n))) = Open(calls) \cup {n}
              /\ Open(Nested(Append(Stk, n), "quote")) = Open(calls) \cup {n}
         /\ Open(Nested(Stk, "dot")) = Open(calls)
<1> DEFINE b == Front(calls)
           c == Last(calls)
           e == [stk |-> <<>>, wait |-> "none"]
<1>1. /\ b \in Seq(Call) /\ c \in Call /\ calls = Append(b, c) /\ e \in Call
      /\ Stk = c.stk /\ Stk \in Seq(Nat \ {0})
      /\ \A s \in Seq(Nat \ {0}) :
           /\ setStk(s) = Append(b, [stk |-> s, wait |-> "none"])
           /\ [stk |-> s, wait |-> "none"] \in Call
      /\ \A s \in Seq(Nat \ {0}), why \in {"quote", "dot"} :
           /\ Nested(s, why) = Append(Append(b, [stk |-> s, wait |-> why]), e)
           /\ [stk |-> s, wait |-> why] \in Call
  BY CallsFacts
<1>2. e.stk = <<>>
  OBVIOUS
<1> HIDE DEF b, c, e
<1>3. Open(calls) = Open(b) \cup Elems(Stk)
  BY <1>1, OpenFacts
<1>4. ASSUME NEW s \in Seq(Nat \ {0}), NEW why \in {"quote", "dot"}
      PROVE  /\ Open(setStk(s)) = Open(b) \cup Elems(s)
             /\ Open(Nested(s, why)) = Open(b) \cup Elems(s)
  <2> DEFINE d == [stk |-> s, wait |-> "none"]
             f == [stk |-> s, wait |-> why]
             w == Append(b, f)
  <2>1. d.stk = s /\ f.stk = s
    OBVIOUS
  <2>2. /\ setStk(s) = Append(b, d) /\ d \in Call
        /\ Nested(s, why) = Append(w, e) /\ f \in Call
    BY <1>1
  <2> HIDE DEF d, f
  <2>3. Open(setStk(s)) = Open(b) \cup Elems(s)
    BY <1>1, <2>1, <2>2, OpenFacts
  <2>4. w \in Seq(Call) /\ Open(w) = Open(b) \cup Elems(s)
    BY <1>1, <2>1, <2>2, OpenFacts
  <2> HIDE DEF w
  <2>5. Open(Nested(s, why)) = Open(w) \cup Elems(e.stk)
    BY <1>1, <2>2, <2>4, OpenFacts
  <2>6. Elems(e.stk) = {}
    BY <1>2, ElemsFacts
  <2> QED
    BY <2>3, <2>4, <2>5, <2>6
<1>5. ASSUME NEW n \in Nat \ {0}
      PROVE  Append(Stk, n) \in Seq(Nat \ {0}) /\ Elems(Append(Stk, n)) = Elems(Stk) \cup {n}
  <2>1. Append(Stk, n) \in Seq(Nat \ {0})
    BY <1>1, AppendProperties
  <2>2. Elems(Append(Stk, n)) = Elems(Stk) \cup {n}
    BY <1>1, ElemsFacts, Zenon
  <2> QED
    BY <2>1, <2>2
<1>6. ASSUME NEW n \in Nat \ {0}
      PROVE  /\ Open(setStk(Append(Stk, n))) = Open(calls) \cup {n}
             /\ Open(Nested(Append(Stk, n), "quote")) = Open(calls) \cup {n}
  <2> DEFINE s == Append(Stk, n)
  <2>1. s \in Seq(Nat \ {0}) /\ Elems(s) = Elems(Stk) \cup {n}
    BY <1>5
  <2> HIDE DEF s
  <2>2. Open(setStk(s)) = Open(b) \cup Elems(s) /\ Open(Nested(s, "quote")) = Open(b) \cup Elems(s)
    BY <1>4, <2>1
  <2>3. Open(setStk(s)) = Open(calls) \cup {n} /\ Open(Nested(s, "quote")) = Open(calls) \cup {n}
    BY <1>3, <2>1, <2>2
  <2> QED
    BY <2>3 DEF s
<1>7. Open(Nested(Stk, "dot")) = Open(calls)
  BY <1>1, <1>3, <1>4
<1> QED
  BY <1>6, <1>7

\* An atom is returned, or is one more argument of the innermost list.
LEMMA SpelledDatum ==
  ASSUME TypeOK, Shape, Spelled, Datum
  PROVE  Spelled'
<1> DEFINE b == Front(calls)
           n == Len(nodes) + 1
           ns == Append(nodes, NewNode(Peek, <<>>))
           O == Open(calls)
           tip == pos + 1
<1>1. /\ pc = "parse" /\ Peek \in Atom /\ forms' = forms /\ input' = input
      /\ pos' = pos + 1 /\ fetched' = pos + 1
      /\ \/ Stk = <<>> /\ Return(n) /\ nodes' = ns
         \/ Stk # <<>> /\ nodes' = addArgument(ns, Last(Stk), n) /\ UNCHANGED <<pc, calls, ret>>
  BY DEF Datum, Consume
<1>3. Peek # "EOF" /\ Peek # "quote" /\ Peek # "list"
  BY <1>1, ParserAssumption
<1>4. /\ input \in Seq(Tokens) /\ Len(input) \in Nat /\ pos \in Nat /\ tip \in Places
      /\ pos + 2 \in Places /\ pos # Len(input) /\ SubSeq(input, tip, pos + 1) = <<Peek>>
  BY <1>3, TokenFacts
<1>5. /\ calls # <<>> /\ b \in Seq(Call) /\ Stk \in Seq(Nat \ {0}) /\ PlainAll(nodes, Stk)
      /\ O = Open(b) \cup Elems(Stk) /\ O \subseteq 1..Len(nodes)
  BY <1>1, ParseFacts
<1>6. Acyclic(nodes) /\ Unshared(nodes, O) /\ Spells(nodes, input, forms) /\ Covered(nodes, O, tip)
  BY <1>1, <1>4 DEF Shape, Spelled, Lost
<1>7. /\ Acyclic(ns) /\ Len(ns) = n /\ Len(nodes) \in Nat
      /\ ns[n] = NewNode(Peek, <<>>)
      /\ \A x : Grown(nodes, ns, x)
      /\ \A Q : Unshared(nodes, Q) => Unshared(ns, Q)
  BY <1>1, <1>6, NewFacts
<1>8. SameOpening(nodes, ns, Spine(O)) /\ FormsSame(nodes, ns)
  <2>1. Grown(nodes, ns, n)
    BY <1>7
  <2> HIDE DEF ns
  <2> QED
    BY <1>7, <2>1, NewSame
<1>9. Texts(ns)[n] = <<Peek>>
  <2>1. ns[n].text = Peek /\ n # Garbage /\ n \in 0..Len(ns)
    BY <1>7 DEF NewNode, Garbage
  <2> HIDE DEF ns
  <2>2. Texts(ns)[n] = Writing(ns, Texts(ns), n)
    BY <1>7, <2>1, TextsFacts
  <2>3. ns[n].text # "list" => Writing(ns, Texts(ns), n) = <<ns[n].text>>
    BY <2>1 DEF Writing
  <2> QED
    BY <1>3, <2>1, <2>2, <2>3
<1>10. PICK at : at[0] = Origin /\ Chain(nodes, O, at, tip)
  BY <1>6 DEF Covered
<1> HIDE DEF ns, n, O
<1>11. n = Len(nodes) + 1 /\ n \in Nat \ {0}
  BY <1>7 DEF n
<1>12. tip <= (pos + 1) + 1
  BY <1>4
<1>13. CASE Stk = <<>> /\ Return(n) /\ nodes' = ns
  <2>1. calls' = b /\ pc' = "return" /\ ret' = n /\ Open(b) = O
    BY <1>5, <1>13, ElemsFacts DEF Return
  <2>2. Chain(ns, O, at, tip)
    <3> SUFFICES /\ \A x, y : Adjacent(O, x, y) => Opening(ns, x) = Opening(nodes, x)
                 /\ \A x : Top(O, x) => Opening(ns, x) = Opening(nodes, x)
      BY <1>10 DEF Chain
    <3> QED
      BY <1>8 DEF SameOpening, Adjacent, Top
  <2>3. Followed(ns, O, n, pos + 1)
    BY <1>4, <1>9, <1>10, <1>12, <2>2 DEF Followed, Covered
  <2>4. Spells(ns, input, forms)
    BY <1>6, <1>8, SpellsSame
  <2> HIDE DEF b, tip
  <2>5. Spells(nodes', input, forms) /\ fetched' = pos' /\ Followed(nodes', Open(calls'), ret', pos')
    BY <1>1, <1>13, <2>1, <2>3, <2>4
  <2> QED
    BY <1>1, <2>1, <2>5, SpelledNext
<1>14. CASE Stk # <<>> /\ nodes' = addArgument(ns, Last(Stk), n) /\ UNCHANGED <<pc, calls, ret>>
  <2> DEFINE r == Front(Stk)
             x == Last(Stk)
             ms == addArgument(ns, x, n)
             k == pos + 2
  <2>1. /\ r \in Seq(Nat \ {0}) /\ x \in 1..Len(nodes) /\ Stk = Append(r, x)
        /\ Before(Open(b) \cup Elems(r), {x}) /\ O = Open(b) \cup Elems(r) \cup {x}
    BY <1>5, <1>14, TopFacts DEF O
  <2> HIDE DEF r, x
  <2>2. /\ x \in 1..Len(ns) /\ n \in (x + 1)..Len(ns) /\ x # 0 /\ x \in O /\ O \subseteq Nat \ {0}
        /\ x \in Nat \ {0}
    BY <1>5, <1>7, <1>11, <2>1
  <2>3. Top(O, x)
    BY <2>1, <2>2 DEF Top, Spine, Before
  <2>4. Plain(nodes, x)
    BY <1>5, <2>1, <2>2, PlainAppend
  <2>5. Plain(ns, x)
    <3>1. Grown(nodes, ns, 0)
      BY <1>7
    <3> QED
      BY <1>6, <2>1, <2>2, <2>4, <3>1, PlainStable
  <2>6. Unshared(ns, {x})
    <3>1. Unshared(nodes, {x})
      BY <1>6, <2>2 DEF Unshared
    <3> QED
      BY <1>7, <3>1
  <2>7. ns[n].text # "quote"
    BY <1>3, <1>7 DEF NewNode
  <2>8. Opening(ms, x) = Opening(ns, x) \o <<Peek>>
    <3>1. Opening(ms, x) = Opening(ns, x) \o Texts(ns)[n]
      BY <1>7, <2>2, <2>5, <2>6, <2>7, OpeningAdd
    <3> QED
      BY <1>9, <3>1
  <2>9. Acyclic(ms) /\ Len(ms) = Len(ns) /\ Grown(ns, ms, x)
    BY <1>7, <2>2, AddFacts
  <2> HIDE DEF ms
  <2>10. SameOpening(nodes, ms, Spine(O) \ {x})
    <3> SUFFICES ASSUME NEW z \in Spine(O), z # x PROVE Opening(ms, z) = Opening(nodes, z)
      BY DEF SameOpening
    <3>1. z \in 0..Len(ns)
      BY <1>5, <1>7, <1>11 DEF Spine
    <3>2. Opening(ms, z) = Opening(ns, z)
      BY <1>7, <2>2, <2>6, <2>9, <3>1, OpeningStable
    <3> QED
      BY <1>8, <3>2 DEF SameOpening
  <2>11. Opening(ms, x) = Opening(nodes, x) \o SubSeq(input, tip, k - 1)
    <3>1. Opening(ns, x) = Opening(nodes, x)
      BY <1>8, <2>2 DEF SameOpening, Spine
    <3>2. k - 1 = pos + 1
      BY <1>4
    <3> QED
      BY <1>4, <2>8, <3>1, <3>2, Zenon
  <2>12. k \in Places /\ tip <= k /\ k = (pos + 1) + 1
    BY <1>4
  <2> HIDE DEF k, tip
  <2>13. Chain(ms, O, at, k)
    BY <1>4, <1>10, <2>2, <2>3, <2>10, <2>11, <2>12, ChainGrow
  <2>14. Covered(ms, O, (pos + 1) + 1)
    BY <1>10, <2>12, <2>13 DEF Covered
  <2>15. Spells(ms, input, forms)
    <3>1. Spells(ns, input, forms)
      BY <1>6, <1>8, SpellsSame
    <3>2. FormsSame(ns, ms)
      BY <1>7, <1>11, <2>2, <2>6, <2>9, FormsSameFacts DEF O
    <3> QED
      BY <3>1, <3>2, SpellsSame
  <2>16. nodes' = ms /\ pc' = "parse" /\ calls' = calls
    BY <1>1, <1>14 DEF ms, x
  <2>17. Spells(nodes', input, forms) /\ Covered(nodes', Open(calls'), pos' + 1)
    BY <1>1, <2>14, <2>15, <2>16 DEF O
  <2> QED
    BY <1>1, <2>16, <2>17, SpelledNext
<1> QED
  BY <1>1, <1>13, <1>14 DEF ns, n

-----------------------------------------------------------------------------

\* A list y is opened by the token that is consumed.
LEMMA SpelledPush ==
  ASSUME TypeOK, Shape, Spelled, pc = "parse", Peek # "EOF", Consume, UNCHANGED <<input, forms>>,
         pc' = "parse", NEW ms, Acyclic(ms), Grown(nodes, ms, Len(nodes) + 1), nodes' = ms,
         NEW y, y = Len(nodes) + 1, Open(calls') = Open(calls) \cup {y},
         Opening(ms, y) = <<Peek>>
  PROVE  Spelled'
<1> DEFINE O == Open(calls)
           tip == pos + 1
           k == pos + 2
<1>1. /\ input \in Seq(Tokens) /\ Len(input) \in Nat /\ pos \in Nat /\ tip \in Places
      /\ k \in Places /\ pos # Len(input) /\ SubSeq(input, tip, pos + 1) = <<Peek>>
      /\ tip <= k /\ k - 1 = pos + 1 /\ k = (pos + 1) + 1
  BY TokenFacts
<1>2. /\ Len(nodes) \in Nat /\ O \subseteq 1..Len(nodes) /\ Spells(nodes, input, forms)
      /\ Covered(nodes, O, tip)
  BY <1>1 DEF Shape, TypeOK, Spelled, Lost
<1>3. y \in Nat \ {0} /\ Before(O, {y}) /\ O \subseteq Nat \ {0}
  BY <1>2 DEF Before
<1>4. SameOpening(nodes, ms, Spine(O)) /\ FormsSame(nodes, ms)
  BY NewSame
<1>5. PICK at : at[0] = Origin /\ Chain(nodes, O, at, tip)
  BY <1>2 DEF Covered
<1>6. Opening(ms, y) = SubSeq(input, tip, k - 1)
  BY <1>1
<1> HIDE DEF O, tip, k
<1>7. \E au : au[0] = at[0] /\ Chain(ms, O \cup {y}, au, k)
  <2>1. /\ Len(input) \in Nat /\ O \subseteq Nat \ {0} /\ Chain(nodes, O, at, tip)
        /\ y \in Nat \ {0} /\ Before(O, {y}) /\ k \in Places /\ tip <= k
        /\ SameOpening(nodes, ms, Spine(O)) /\ Opening(ms, y) = SubSeq(input, tip, k - 1)
    BY <1>1, <1>3, <1>4, <1>5, <1>6 DEF O
  <2> QED
    BY <2>1, ChainPush, ZenonT(60)
<1>8. Covered(ms, O \cup {y}, k)
  BY <1>5, <1>7 DEF Covered
<1>9. Spells(nodes', input, forms)
  BY <1>2, <1>4, SpellsSame
<1>10. Covered(nodes', Open(calls'), pos' + 1)
  BY <1>1, <1>8 DEF O, Consume
<1> QED
  BY <1>9, <1>10, SpelledNext

\* The opening of the new list is its parenthesis.
LEMMA SpelledOpenList ==
  ASSUME TypeOK, Shape, Spelled, OpenList
  PROVE  Spelled'
<1> DEFINE n == Len(nodes) + 1
           ms == Append(nodes, NewNode("list", <<>>))
<1>1. /\ pc = "parse" /\ pc' = "parse" /\ Peek = "(" /\ Peek # "EOF" /\ Consume
      /\ UNCHANGED <<input, forms>> /\ nodes' = ms /\ calls' = setStk(Append(Stk, n))
  BY DEF OpenList
<1>2. Acyclic(nodes) /\ Len(nodes) \in Nat /\ n \in Nat \ {0} /\ calls # <<>>
  BY <1>1 DEF Shape, TypeOK
<1>3. Acyclic(ms) /\ ms[n] = NewNode("list", <<>>) /\ Grown(nodes, ms, n) /\ Len(ms) = n
  BY <1>2, NewFacts
<1>4. Open(calls') = Open(calls) \cup {n}
  BY <1>1, <1>2, OpenNext
<1> HIDE DEF ms
<1>5. Opening(ms, n) = <<Peek>>
  <2>1. ms[n].text = "list" /\ ms[n].dotted = FALSE /\ ms[n].args = <<>> /\ n # Garbage
    BY <1>2, <1>3 DEF NewNode, Garbage
  <2>2. Opening(ms, n) = <<"(">> \o Each(Texts(ms), ms[n].args)
    BY <2>1, Zenon DEF Opening, Quotes
  <2>3. Each(Texts(ms), <<>>) = <<>>
    <3> DEFINE z == <<>>
    <3>1. z \in Seq(Nat) /\ Spelt(Texts(ms), z, Glyph)
      BY DEF Spelt
    <3> HIDE DEF z
    <3>2. Each(Texts(ms), <<>>) = <<>>
      BY <3>1, EachFacts
    <3> QED
      BY <3>2
  <2>4. <<"(">> \in Seq(Glyph)
    BY DEF Glyph, Tokens
  <2>5. <<"(">> \o <<>> = <<"(">>
    BY <2>4, ConcatEmptySeq
  <2> QED
    BY <1>1, <2>1, <2>2, <2>3, <2>5
<1> QED
  BY <1>1, <1>3, <1>4, <1>5, SpelledPush

\* The opening of the new list is the quote.
LEMMA SpelledQuote ==
  ASSUME TypeOK, Shape, Spelled, Quote
  PROVE  Spelled'
<1> DEFINE l == Len(nodes) + 1
           ms == nodes \o <<NewNode("list", <<l + 1>>), NewNode("quote", <<>>)>>
<1>1. /\ pc = "parse" /\ pc' = "parse" /\ Peek = "'" /\ Peek # "EOF" /\ Consume
      /\ UNCHANGED <<input, forms>> /\ nodes' = ms /\ calls' = Nested(Append(Stk, l), "quote")
  BY DEF Quote
<1>2. /\ Acyclic(nodes) /\ Len(nodes) \in Nat /\ l \in Nat \ {0} /\ calls # <<>>
      /\ Unshared(nodes, Open(calls)) /\ Open(calls) \subseteq 1..Len(nodes)
  BY <1>1 DEF Shape, TypeOK
<1>3. /\ Acyclic(ms) /\ Len(ms) = l + 1
      /\ ms[l] = NewNode("list", <<l + 1>>) /\ ms[l + 1] = NewNode("quote", <<>>)
      /\ Grown(nodes, ms, l)
      /\ \A O : Unshared(nodes, O) /\ l + 1 \notin O => Unshared(ms, O)
  BY <1>2, QuoteFacts
<1>4. Open(calls') = Open(calls) \cup {l}
  BY <1>1, <1>2, OpenNext
<1> HIDE DEF ms
<1>5. Opening(ms, l) = <<Peek>>
  <2>1. Half(ms, l, "quote")
    <3>1. ms[l].text = "list" /\ ms[l].dotted = FALSE /\ ms[l].args = <<l + 1>> /\ ms[l + 1].text = "quote"
      BY <1>3 DEF NewNode
    <3>2. Len(<<l + 1>>) = 1 /\ <<l + 1>>[1] = l + 1 /\ <<l + 1>> # <<>>
      OBVIOUS
    <3> QED
      BY <3>1, <3>2 DEF Half, Quotes
  <2>2. Unshared(ms, {l})
    <3>1. Unshared(nodes, {l})
      <4> SUFFICES ASSUME NEW n \in 1..Len(nodes), NEW k \in 1..Len(nodes[n].args)
                   PROVE  nodes[n].args[k] # l
        BY DEF Unshared
      <4>1. nodes[n].args[k] \in {0} \cup ((n + 1)..Len(nodes))
        BY <1>2, ArgsFacts
      <4> QED
        BY <1>2, <4>1
    <3>2. l + 1 \notin {l}
      BY <1>2
    <3> QED
      BY <1>3, <3>1, <3>2
  <2>3. l \in 1..Len(ms)
    BY <1>2, <1>3
  <2> DEFINE a == 0
  <2>4. a \in (l + 1)..Len(ms) \/ a = 0
    OBVIOUS
  <2> HIDE DEF a, l
  <2>5. Opening(ms, l) = <<"'">>
    BY <1>3, <2>1, <2>2, <2>3, <2>4, QuoteText
  <2> QED
    BY <1>1, <2>5
<1> QED
  BY <1>1, <1>3, <1>4, <1>5, SpelledPush

\* The opening of the innermost list grows by the dot.
LEMMA SpelledDot ==
  ASSUME TypeOK, Shape, Spelled, Dot
  PROVE  Spelled'
<1> DEFINE O == Open(calls)
           r == Front(Stk)
           x == Last(Stk)
           ms == [nodes EXCEPT ![x].dotted = TRUE]
           tip == pos + 1
           k == pos + 2
<1>1. /\ pc = "parse" /\ pc' = "parse" /\ Peek = "." /\ Peek # "EOF" /\ Stk # <<>>
      /\ UNCHANGED <<input, forms>> /\ nodes' = ms /\ calls' = Nested(Stk, "dot")
      /\ pos' = pos + 1
  BY DEF Dot, Consume
<1>2. /\ calls # <<>> /\ Stk \in Seq(Nat \ {0}) /\ PlainAll(nodes, Stk)
  BY <1>1, ParseFacts
<1>3. /\ r \in Seq(Nat \ {0}) /\ x \in 1..Len(nodes) /\ Stk = Append(r, x)
      /\ O = Open(Front(calls)) \cup Elems(r) \cup {x}
      /\ Before(Open(Front(calls)) \cup Elems(r), {x})
  BY <1>1, <1>2, TopFacts
<1>4. /\ Acyclic(nodes) /\ Unshared(nodes, O) /\ O \subseteq 1..Len(nodes) /\ Len(nodes) \in Nat
  BY DEF Shape, TypeOK
<1>5. /\ input \in Seq(Tokens) /\ Len(input) \in Nat /\ pos \in Nat /\ tip \in Places
      /\ k \in Places /\ pos # Len(input) /\ SubSeq(input, tip, pos + 1) = <<Peek>>
      /\ tip <= k /\ k - 1 = pos + 1 /\ k = (pos + 1) + 1
  BY <1>1, TokenFacts
<1>6. Spells(nodes, input, forms) /\ Covered(nodes, O, tip)
  BY <1>1, <1>5 DEF Spelled, Lost
<1> HIDE DEF r, x
<1>7. /\ Acyclic(ms) /\ Len(ms) = Len(nodes) /\ Grown(nodes, ms, x)
      /\ ms[x].dotted /\ ms[x].args = nodes[x].args
  BY <1>3, <1>4, DotFacts
<1> HIDE DEF ms
<1>8. Open(calls') = O
  BY <1>1, <1>2, OpenNext
<1> HIDE DEF O
<1>9. x \in O /\ x # 0 /\ Top(O, x) /\ Unshared(nodes, {x}) /\ O \subseteq Nat \ {0} /\ x \in Nat \ {0}
  BY <1>3, <1>4 DEF Top, Spine, Before, Unshared
<1>10. Plain(nodes, x)
  BY <1>2, <1>3, <1>9, PlainAppend
<1>11. Opening(ms, x) = Opening(nodes, x) \o <<Peek>>
  <2>1. Opening(nodes, x) = <<"(">> \o Each(Texts(nodes), nodes[x].args)
    BY <1>3, <1>4, <1>10, PlainOpening
  <2>2. Opening(ms, x) = <<"(">> \o Each(Texts(ms), ms[x].args) \o <<".">>
    BY <1>7, <1>9, Zenon DEF Opening, Garbage
  <2>3. Agree(Texts(ms), Texts(nodes), nodes[x].args)
    BY <1>3, <1>4, <1>7, <1>9, ArgsSame
  <2>4. nodes[x].args \in Seq(Nat)
    BY <1>3, <1>4, ArgsFacts
  <2>5. Each(Texts(ms), nodes[x].args) = Each(Texts(nodes), nodes[x].args)
    BY <2>3, <2>4, AgreeParts
  <2> QED
    BY <1>1, <1>7, <2>1, <2>2, <2>5
<1>12. SameOpening(nodes, ms, Spine(O) \ {x})
  <2> SUFFICES ASSUME NEW z \in Spine(O), z # x PROVE Opening(ms, z) = Opening(nodes, z)
    BY DEF SameOpening
  <2>1. z \in 0..Len(nodes)
    BY <1>4 DEF Spine, O
  <2> QED
    BY <1>4, <1>7, <1>9, <2>1, OpeningStable
<1>13. PICK at : at[0] = Origin /\ Chain(nodes, O, at, tip)
  BY <1>6 DEF Covered
<1>14. Opening(ms, x) = Opening(nodes, x) \o SubSeq(input, tip, k - 1)
  BY <1>5, <1>11
<1> HIDE DEF tip, k
<1>15. Chain(ms, O, at, k)
  BY <1>5, <1>9, <1>12, <1>13, <1>14, ChainGrow
<1>16. Covered(nodes', Open(calls'), pos' + 1)
  BY <1>1, <1>5, <1>8, <1>13, <1>15 DEF Covered
<1>17. FormsSame(nodes, ms)
  BY <1>4, <1>7, <1>9, FormsSameFacts DEF O
<1>18. Spells(nodes', input, forms)
  BY <1>1, <1>6, <1>17, SpellsSame
<1> QED
  BY <1>1, <1>16, <1>18, SpelledNext

\* REDUCE_STK leaves the forms as they are.
LEMMA ReduceForms ==
  ASSUME TypeOK, Shape, calls # <<>>, Stk # <<>>,
         NEW ns, Acyclic(ns), Len(ns) = Len(nodes), Grown(nodes, ns, Last(Stk)),
         Unshared(ns, Open(calls)), Spells(nodes, input, forms), REDUCE_STK(ns)
  PROVE  Spells(nodes', input, forms)
<1> DEFINE r == Front(Stk)
           x == Last(Stk)
<1>1. /\ r \in Seq(Nat \ {0}) /\ x \in 1..Len(nodes) /\ Stk = Append(r, x)
      /\ Open(calls) = Open(Front(calls)) \cup Elems(r) \cup {x}
      /\ Before(Open(Front(calls)) \cup Elems(r), {x})
      /\ Increasing(r) /\ Len(Stk) \in Nat \ {0} /\ Len(r) = Len(Stk) - 1
  BY TopFacts
<1>2. Acyclic(nodes) /\ Unshared(nodes, Open(calls)) /\ Len(nodes) \in Nat
  BY DEF Shape, TypeOK
<1>3. \/ Len(Stk) = 1 /\ nodes' = ns
      \/ Len(Stk) > 1 /\ nodes' = addArgument(ns, Last(r), x)
  BY DEF REDUCE_STK
<1>4. Grown(nodes, ns, x)
  OBVIOUS
<1> HIDE DEF r, x
<1>5. x \in Open(calls) /\ Unshared(nodes, {x})
  BY <1>1, <1>2 DEF Unshared
<1>6. FormsSame(nodes, ns)
  BY <1>2, <1>4, <1>5, FormsSameFacts
<1>7. Spells(ns, input, forms)
  BY <1>6, SpellsSame
<1>8. CASE Len(Stk) = 1
  BY <1>1, <1>3, <1>7, <1>8
<1>9. CASE Len(Stk) > 1
  <2> DEFINE q == Front(r)
             y == Last(r)
             ms == addArgument(ns, y, x)
  <2>1. nodes' = ms
    BY <1>1, <1>3, <1>9
  <2>2. r # <<>>
    BY <1>1, <1>9
  <2>3. q \in Seq(Nat \ {0}) /\ y \in Nat \ {0} /\ r = Append(q, y)
    BY <1>1, <2>2, FrontLast
  <2> HIDE DEF q, y
  <2>4. y \in Elems(r)
    BY <2>3, ElemsFacts
  <2>5. y \in Open(calls) /\ y < x /\ y \in 1..Len(ns) /\ x \in (y + 1)..Len(ns)
    BY <1>1, <1>2, <2>3, <2>4 DEF Before
  <2>6. Acyclic(ms) /\ Grown(ns, ms, y)
    BY <2>5, AddFacts
  <2>7. Unshared(ns, {y})
    BY <2>5 DEF Unshared
  <2> HIDE DEF ms
  <2>8. FormsSame(ns, ms)
    BY <1>2, <2>5, <2>6, <2>7, FormsSameFacts
  <2>9. Spells(ms, input, forms)
    BY <1>7, <2>8, SpellsSame
  <2> QED
    BY <2>1, <2>9
<1> QED
  BY <1>1, <1>8, <1>9

\* The parenthesis ends the text of the innermost list.
LEMMA SpelledCloseList ==
  ASSUME TypeOK, Shape, Spelled, CloseList
  PROVE  Spelled'
<1> DEFINE O == Open(calls)
           r == Front(Stk)
           x == Last(Stk)
           tip == pos + 1
           k == pos + 2
<1>1. /\ pc = "parse" /\ Peek = ")" /\ Peek # "EOF" /\ Stk # <<>> /\ REDUCE_STK(nodes)
      /\ UNCHANGED <<input, forms>> /\ pos' = pos + 1 /\ fetched' = pos + 1
  BY DEF CloseList, Consume
<1>2. /\ calls # <<>> /\ Stk \in Seq(Nat \ {0}) /\ PlainAll(nodes, Stk)
  BY <1>1, ParseFacts
<1>3. /\ r \in Seq(Nat \ {0}) /\ x \in 1..Len(nodes) /\ Stk = Append(r, x)
      /\ O = Open(Front(calls)) \cup Elems(r) \cup {x}
      /\ Before(Open(Front(calls)) \cup Elems(r), {x})
  BY <1>1, <1>2, TopFacts
<1>4. /\ Acyclic(nodes) /\ Unshared(nodes, O) /\ O \subseteq 1..Len(nodes) /\ Len(nodes) \in Nat
      /\ Grown(nodes, nodes, x)
  BY DEF Shape, TypeOK, Grown
<1>5. /\ input \in Seq(Tokens) /\ Len(input) \in Nat /\ pos \in Nat /\ tip \in Places
      /\ k \in Places /\ pos # Len(input) /\ SubSeq(input, tip, pos + 1) = <<Peek>>
      /\ tip <= k /\ k - 1 = pos + 1 /\ k = (pos + 1) + 1 /\ pos + 1 \in pos..Len(input)
  BY <1>1, TokenFacts
<1>6. Spells(nodes, input, forms) /\ Covered(nodes, O, tip)
  BY <1>1, <1>5 DEF Spelled, Lost
<1> HIDE DEF r, x
<1>7. x \in O /\ Top(O, x) /\ x \in Nat \ {0}
  BY <1>3, <1>4 DEF Top, Spine, Before
<1>8. PlainAll(nodes, r) /\ Plain(nodes, x)
  BY <1>2, <1>3, <1>7, PlainAppend
<1>9. Texts(nodes)[x] = Opening(nodes, x) \o <<")">>
  BY <1>3, <1>4, <1>8, PlainOpening
<1>10. PICK at : at[0] = Origin /\ Chain(nodes, O, at, tip)
  BY <1>6 DEF Covered
<1>11. at[x] <= tip /\ Opening(nodes, x) = SubSeq(input, at[x], tip - 1) /\ at[x] \in Places
  BY <1>7, <1>10 DEF Chain, Spine
<1>12. Texts(nodes)[x] = SubSeq(input, at[x], pos + 1)
  <2>1. SubSeq(input, tip, k - 1) = <<")">>
    BY <1>1, <1>5
  <2>2. Texts(nodes)[x] = SubSeq(input, at[x], tip - 1) \o SubSeq(input, tip, k - 1)
    BY <1>9, <1>11, <2>1
  <2> HIDE DEF tip, k
  <2>3. SubSeq(input, at[x], tip - 1) \o SubSeq(input, tip, k - 1) = SubSeq(input, at[x], k - 1)
    BY <1>5, <1>11, Join
  <2> QED
    BY <1>5, <2>2, <2>3
<1>13. nodes[x].text = "list"
  BY <1>8 DEF Plain
<1> DEFINE p == pos + 1
<1>14. p \in pos..Len(input) /\ tip <= p + 1 /\ Texts(nodes)[x] = SubSeq(input, at[x], p) /\ pos' = p
  BY <1>1, <1>5, <1>12
<1> HIDE DEF p, tip
<1>15. /\ pc' = "return" => Followed(nodes', Open(calls'), ret', p)
       /\ pc' = "parse" => Covered(nodes', Open(calls'), p + 1)
       /\ pc' \in {"return", "parse"}
  BY <1>1, <1>2, <1>4, <1>8, <1>10, <1>13, <1>14, ReduceSpelled DEF O, r, x
<1>16. Spells(nodes', input, forms)
  <2>1. Acyclic(nodes) /\ Len(nodes) = Len(nodes) /\ Grown(nodes, nodes, Last(Stk))
        /\ Unshared(nodes, Open(calls))
    BY <1>4 DEF O, x
  <2> QED
    BY <1>1, <1>2, <1>6, <2>1, ReduceForms
<1> QED
  BY <1>1, <1>14, <1>15, <1>16, SpelledNext

-----------------------------------------------------------------------------

\* A text with a ruined part is ruined.
LEMMA RuinedPart ==
  ASSUME NEW t \in Seq(Glyph), Ruined(t), NEW g \in Glyph
  PROVE  Ruined(<<g>> \o t)
<1> DEFINE u == <<g>> \o t
<1>1. /\ Len(t) \in Nat /\ Len(u) = Len(t) + 1
      /\ \A k \in 1..Len(t) : u[k + 1] = t[k]
  OBVIOUS
<1>2. PICK k \in 1..Len(t) : t[k] = "garbage"
  BY DEF Ruined
<1> HIDE DEF u
<1>3. k + 1 \in 1..Len(u) /\ u[k + 1] = "garbage"
  BY <1>1, <1>2
<1>4. Ruined(u)
  BY <1>3 DEF Ruined
<1> QED
  BY <1>4 DEF u

(***************************************************************************)
(* What the innermost list is when it takes what was returned.               *)
(***************************************************************************)
LEMMA ReturnFacts ==
  ASSUME TypeOK, Shape, pc = "return", calls # <<>>,
         ret = Garbage => nodes[Last(Stk)].args # <<>>
  PROVE  LET x  == Last(Stk)
             ns == addArgument(nodes, x, ret)
         IN  /\ Stk # <<>> /\ PlainAll(nodes, Front(Stk))
             /\ Half(nodes, x, Last(calls).wait) /\ nodes[x].text = "list"
             /\ x \in 1..Len(nodes) /\ x \in Open(calls) /\ Top(Open(calls), x)
             /\ Acyclic(nodes) /\ Unshared(nodes, {x}) /\ Open(calls) \subseteq 1..Len(nodes)
             /\ ret \in (x + 1)..Len(nodes) \/ ret = 0
             /\ Acyclic(ns) /\ Len(ns) = Len(nodes) /\ Grown(nodes, ns, x)
             /\ Unshared(ns, Open(calls))
<1> DEFINE x == Last(Stk)
           ns == addArgument(nodes, x, ret)
<1>1. /\ PlainAll(nodes, Front(Stk)) /\ Half(nodes, x, Last(calls).wait) /\ Stk # <<>>
  BY WaitFacts
<1>2. /\ x \in 1..Len(nodes) /\ x \in Open(calls)
      /\ Open(calls) = Open(Front(calls)) \cup Elems(Front(Stk)) \cup {x}
      /\ Before(Open(Front(calls)) \cup Elems(Front(Stk)), {x})
  BY <1>1, TopFacts
<1>3. /\ Acyclic(nodes) /\ ret \in 0..Len(nodes) /\ Len(nodes) \in Nat
      /\ Unshared(nodes, Open(calls)) /\ Open(calls) \subseteq 1..Len(nodes)
      /\ ret # Garbage => Before(Open(calls), {ret})
  BY DEF Shape, TypeOK
<1>4. /\ ret \in (x + 1)..Len(nodes) \/ (ret = 0 /\ nodes[x].args # <<>>)
      /\ ret \notin Open(calls)
  <2>1. CASE ret = Garbage
    BY <1>3, <2>1 DEF Garbage
  <2>2. CASE ret # Garbage
    <3>1. \A z \in Open(calls) : z < ret
      BY <1>3, <2>2 DEF Before
    <3>2. x < ret /\ x \in Nat /\ ret \in Nat
      BY <1>2, <1>3, <3>1
    <3>3. ret \notin Open(calls)
      BY <1>3, <3>1
    <3> QED
      BY <1>3, <3>2, <3>3
  <2> QED
    BY <2>1, <2>2
<1> HIDE DEF x
<1>5. /\ Acyclic(ns) /\ Len(ns) = Len(nodes) /\ Grown(nodes, ns, x)
      /\ \A O : Unshared(nodes, O) /\ ret \notin O => Unshared(ns, O)
  BY <1>2, <1>3, <1>4, AddFacts
<1> HIDE DEF ns
<1>6. Unshared(ns, Open(calls)) /\ Unshared(nodes, {x})
  BY <1>2, <1>3, <1>4, <1>5 DEF Unshared
<1>7. Top(Open(calls), x)
  BY <1>2, <1>3 DEF Top, Spine, Before
<1>8. nodes[x].text = "list"
  BY <1>1 DEF Half
<1> QED
  BY <1>1, <1>2, <1>3, <1>4, <1>5, <1>6, <1>7, <1>8 DEF x, ns

\* The datum that was returned ends the text of the quoted list.
LEMMA SpelledAfterQuote ==
  ASSUME TypeOK, Shape, Spelled, AfterQuote
  PROVE  Spelled'
<1> DEFINE x == Last(Stk)
           ns == addArgument(nodes, x, ret)
           O == Open(calls)
<1>1. /\ pc = "return" /\ calls # <<>> /\ Last(calls).wait = "quote" /\ REDUCE_STK(ns)
      /\ input' = input /\ forms' = forms /\ pos' = pos /\ fetched' = fetched
  BY DEF AfterQuote
<1>2. ret = Garbage => nodes[x].args # <<>>
  BY <1>1, WaitFacts DEF Half, Quotes
<1>3. /\ Stk # <<>> /\ PlainAll(nodes, Front(Stk))
      /\ Half(nodes, x, "quote") /\ nodes[x].text = "list"
      /\ x \in 1..Len(nodes) /\ x \in O /\ Top(O, x)
      /\ Acyclic(nodes) /\ Unshared(nodes, {x}) /\ O \subseteq 1..Len(nodes)
      /\ ret \in (x + 1)..Len(nodes) \/ ret = 0
      /\ Acyclic(ns) /\ Len(ns) = Len(nodes) /\ Grown(nodes, ns, x)
      /\ Unshared(ns, O)
  BY <1>1, <1>2, ReturnFacts
<1>4. REDUCE_STK(ns) /\ Grown(nodes, ns, Last(Stk)) /\ Unshared(ns, Open(calls))
      /\ nodes[Last(Stk)].text = "list"
  BY <1>1, <1>3
<1>5. Opening(nodes, x) = <<"'">> /\ Texts(ns)[x] = <<"'">> \o Texts(nodes)[ret]
  <2> DEFINE a == ret
  <2>1. a \in (x + 1)..Len(nodes) \/ a = 0
    BY <1>3
  <2> HIDE DEF a, x
  <2>2. Opening(nodes, x) = <<"'">> /\ Texts(addArgument(nodes, x, a))[x] = <<"'">> \o Texts(nodes)[a]
    BY <1>3, <2>1, QuoteText
  <2> QED
    BY <2>2 DEF a
<1>6. Spells(nodes, input, forms)
  BY DEF Spelled, Lost
<1> HIDE DEF ns
<1>7. Spells(nodes', input, forms)
  BY <1>1, <1>3, <1>4, <1>6, ReduceForms
<1>8. /\ Len(input) \in Nat /\ input \in Seq(Tokens) /\ pos \in 0..Len(input)
  BY PeekFacts DEF TypeOK
<1>9. pc' \in {"parse", "return"} /\ (pc' = "return" => ret' = x /\ nodes' = ns)
  BY <1>1 DEF REDUCE_STK, Return
<1>10. CASE Lost(pos) /\ Ruined(Texts(nodes)[ret])
  <2>1. Texts(nodes)[ret] \in Seq(Glyph)
    <3>1. ret \in 0..Len(nodes)
      BY DEF TypeOK
    <3> QED
      BY <1>3, <3>1, TextsFacts
  <2>2. "'" \in Glyph
    BY DEF Glyph, Tokens
  <2>3. Ruined(Texts(ns)[x])
    BY <1>5, <1>10, <2>1, <2>2, RuinedPart
  <2>4. pc' = "return" => Lost(pos') /\ Ruined(Texts(nodes')[ret'])
    BY <1>1, <1>9, <1>10, <2>3
  <2>5. Lost(pos')
    BY <1>1, <1>10
  <2> QED
    BY <1>1, <1>7, <1>9, <2>4, <2>5, SpelledNext
<1>11. CASE fetched = pos /\ Followed(nodes, O, ret, pos)
  <2>1. PICK tip : tip <= pos + 1 /\ Covered(nodes, O, tip) /\ Texts(nodes)[ret] = SubSeq(input, tip, pos)
    BY <1>11 DEF Followed
  <2>2. PICK at : at[0] = Origin /\ Chain(nodes, O, at, tip)
    BY <2>1 DEF Covered
  <2>3. /\ at[x] <= tip /\ Opening(nodes, x) = SubSeq(input, at[x], tip - 1)
        /\ at[x] \in Places /\ tip \in Places
    BY <1>3, <2>2 DEF Chain, Spine
  <2>4. pos + 1 \in Places /\ tip <= pos + 1 /\ (pos + 1) - 1 = pos /\ pos \in pos..Len(input)
    BY <1>8, <2>1 DEF Places
  <2> DEFINE k == pos + 1
  <2>5. SubSeq(input, at[x], tip - 1) \o SubSeq(input, tip, pos) = SubSeq(input, at[x], pos)
    <3>1. k \in Places /\ tip <= k /\ k - 1 = pos
      BY <2>4
    <3> HIDE DEF k
    <3>2. SubSeq(input, at[x], tip - 1) \o SubSeq(input, tip, k - 1) = SubSeq(input, at[x], k - 1)
      BY <1>8, <2>3, <3>1, Join
    <3> QED
      BY <3>1, <3>2
  <2>6. Texts(ns)[x] = SubSeq(input, at[x], pos)
    BY <1>5, <2>1, <2>3, <2>5, Zenon
  <2> DEFINE p == pos
  <2>7. /\ p \in pos..Len(input) /\ tip <= p + 1 /\ Texts(ns)[Last(Stk)] = SubSeq(input, at[Last(Stk)], p)
        /\ Chain(nodes, Open(calls), at, tip) /\ at[0] = Origin
    BY <2>1, <2>2, <2>4, <2>6
  <2> HIDE DEF p, k, x, O
  <2>8. /\ pc' = "return" => Followed(nodes', Open(calls'), ret', p)
        /\ pc' = "parse" => Covered(nodes', Open(calls'), p + 1)
        /\ pc' \in {"return", "parse"}
    BY <1>1, <1>3, <1>4, <2>7, ReduceSpelled
  <2>9. p = pos' /\ fetched' = pos'
    BY <1>1, <1>11 DEF p
  <2> QED
    BY <1>1, <1>7, <2>8, <2>9, SpelledNext
<1> QED
  BY <1>1, <1>10, <1>11 DEF Spelled, Lost

\* The datum that was returned and the parenthesis end the text of the dotted list.
LEMMA SpelledAfterDot ==
  ASSUME TypeOK, Shape, Spelled, AfterDot
  PROVE  Spelled'
<1> DEFINE x == Last(Stk)
           ns == addArgument(nodes, x, ret)
           O == Open(calls)
           p == pos + 1
<1>1. /\ pc = "return" /\ calls # <<>> /\ Last(calls).wait = "dot" /\ REDUCE_STK(ns)
      /\ input' = input /\ forms' = forms /\ pos' = p /\ fetched' = p /\ Peek = ")" /\ Peek # "EOF"
  BY DEF AfterDot, Matching, Consume
<1>2. /\ input \in Seq(Tokens) /\ Len(input) \in Nat /\ pos \in Nat /\ p \in Places
      /\ p + 1 \in Places /\ pos # Len(input) /\ SubSeq(input, p, p) = <<Peek>>
      /\ p \in pos..Len(input)
  BY <1>1, TokenFacts
<1>3. ret # Garbage
  BY <1>1, <1>2 DEF Shape
<1>4. /\ Stk # <<>> /\ PlainAll(nodes, Front(Stk))
      /\ Half(nodes, x, "dot") /\ nodes[x].text = "list"
      /\ x \in 1..Len(nodes) /\ x \in O /\ Top(O, x)
      /\ Acyclic(nodes) /\ Unshared(nodes, {x}) /\ O \subseteq 1..Len(nodes)
      /\ ret \in (x + 1)..Len(nodes)
      /\ Acyclic(ns) /\ Len(ns) = Len(nodes) /\ Grown(nodes, ns, x)
      /\ Unshared(ns, O)
  BY <1>1, <1>3, ReturnFacts DEF Garbage
<1>5. REDUCE_STK(ns) /\ Grown(nodes, ns, Last(Stk)) /\ Unshared(ns, Open(calls))
      /\ nodes[Last(Stk)].text = "list"
  BY <1>1, <1>4
<1>6. /\ Opening(nodes, x) \in Seq(Glyph)
      /\ Texts(ns)[x] = Opening(nodes, x) \o Texts(nodes)[ret] \o <<")">>
  <2> DEFINE a == ret
  <2>1. a \in (x + 1)..Len(nodes)
    BY <1>4
  <2> HIDE DEF a, x
  <2>2. /\ Opening(nodes, x) \in Seq(Glyph)
        /\ Texts(addArgument(nodes, x, a))[x] = Opening(nodes, x) \o Texts(nodes)[a] \o <<")">>
    BY <1>4, <2>1, DotText
  <2> QED
    BY <2>2 DEF a
<1>7. Spells(nodes, input, forms)
  BY DEF Spelled, Lost
<1> HIDE DEF ns
<1>8. Spells(nodes', input, forms)
  BY <1>1, <1>4, <1>5, <1>7, ReduceForms
<1>9. Followed(nodes, O, ret, pos)
  BY <1>1, <1>2 DEF Spelled, Lost
<1>10. PICK tip : tip <= pos + 1 /\ Covered(nodes, O, tip) /\ Texts(nodes)[ret] = SubSeq(input, tip, pos)
  BY <1>9 DEF Followed
<1>11. PICK at : at[0] = Origin /\ Chain(nodes, O, at, tip)
  BY <1>10 DEF Covered
<1>12. /\ at[x] <= tip /\ Opening(nodes, x) = SubSeq(input, at[x], tip - 1)
       /\ at[x] \in Places /\ tip \in Places
  BY <1>4, <1>11 DEF Chain, Spine
<1>13. at[x] <= p /\ p <= p + 1 /\ p - 1 = pos /\ (p + 1) - 1 = p /\ tip <= p
  <2>1. at[x] \in Nat /\ tip \in Nat
    BY <1>2, <1>12 DEF Places
  <2> QED
    BY <1>2, <1>10, <1>12, <2>1
<1>14. SubSeq(input, at[x], tip - 1) \o SubSeq(input, tip, p - 1) = SubSeq(input, at[x], p - 1)
  <2> HIDE DEF p, x
  <2> QED
    BY <1>2, <1>12, <1>13, Join
<1>15. SubSeq(input, at[x], p - 1) \o SubSeq(input, p, p) = SubSeq(input, at[x], p)
  <2> DEFINE k == p + 1
  <2>1. k \in Places /\ p <= k /\ k - 1 = p
    BY <1>2, <1>13
  <2> HIDE DEF p, k, x
  <2>2. SubSeq(input, at[x], p - 1) \o SubSeq(input, p, k - 1) = SubSeq(input, at[x], k - 1)
    BY <1>2, <1>12, <1>13, <2>1, Join
  <2> QED
    BY <2>1, <2>2
<1>16. Texts(ns)[x] = SubSeq(input, at[x], p)
  <2>1. Opening(nodes, x) \o Texts(nodes)[ret] = SubSeq(input, at[x], p - 1)
    <3>1. SubSeq(input, tip, pos) = SubSeq(input, tip, p - 1)
      BY <1>13
    <3> HIDE DEF p
    <3> QED
      BY <1>10, <1>12, <1>14, <3>1, Zenon
  <2>2. SubSeq(input, p, p) = <<")">>
    BY <1>1, <1>2
  <2> HIDE DEF p, x
  <2> QED
    BY <1>6, <1>15, <2>1, <2>2, Zenon
<1>17. tip <= p + 1 /\ Texts(ns)[Last(Stk)] = SubSeq(input, at[Last(Stk)], p)
       /\ Chain(nodes, Open(calls), at, tip)
  <2>1. tip <= p + 1
    BY <1>2, <1>12, <1>13 DEF Places
  <2> QED
    BY <1>11, <1>16, <2>1
<1> HIDE DEF p, x, O
<1>18. /\ pc' = "return" => Followed(nodes', Open(calls'), ret', p)
       /\ pc' = "parse" => Covered(nodes', Open(calls'), p + 1)
       /\ pc' \in {"return", "parse"}
  BY <1>1, <1>2, <1>4, <1>5, <1>11, <1>17, ReduceSpelled
<1> QED
  BY <1>1, <1>8, <1>18, SpelledNext

-----------------------------------------------------------------------------

\* A list is complete whatever happens to other nodes.
LEMMA CompleteStable ==
  ASSUME NEW ns, Acyclic(ns), NEW ms, NEW x, Grown(ns, ms, x), NEW n \in 1..Len(ns), n # x,
         Complete(ns, n)
  PROVE  Complete(ms, n)
<1>1. ms[n] = ns[n]
  BY DEF Grown
<1>2. ns[n].args # <<>> => ns[n].args[1] \in 1..Len(ns)
  BY ArgsFacts
<1>3. ns[n].args # <<>> => ms[ns[n].args[1]].text = ns[ns[n].args[1]].text
  BY <1>2 DEF Grown
<1>4. Quotes(ms, ms[n].args) <=> Quotes(ns, ns[n].args)
  BY <1>1, <1>3 DEF Quotes
<1> QED
  BY <1>1, <1>4 DEF Complete

\* When x and what is new are complete or open, every list is.
LEMMA FinishedNext ==
  ASSUME NEW ns, Acyclic(ns), NEW ms, Len(ms) \in Nat, NEW x, Grown(ns, ms, x),
         NEW O, Finished(ns, O), NEW Q, O \subseteq Q \cup {x},
         \A n \in 1..Len(ms) : n \notin Q /\ (n = x \/ n > Len(ns)) => Complete(ms, n)
  PROVE  Finished(ms, Q)
<1> SUFFICES ASSUME NEW n \in 1..Len(ms), n \notin Q PROVE Complete(ms, n)
  BY DEF Finished
<1>1. CASE n = x \/ n > Len(ns)
  BY <1>1
<1>2. CASE n # x /\ ~(n > Len(ns))
  <2>1. n \in 1..Len(ns)
    BY <1>2 DEF Acyclic
  <2>2. Complete(ns, n)
    BY <1>2, <2>1 DEF Finished
  <2> QED
    BY <1>2, <2>1, <2>2, CompleteStable
<1> QED
  BY <1>1, <1>2

(***************************************************************************)
(* REDUCE_STK, when the innermost list is complete in ns.                    *)
(***************************************************************************)
LEMMA ReduceFinished ==
  ASSUME TypeOK, Shape, calls # <<>>, Stk # <<>>, Finished(nodes, Open(calls)),
         NEW ns, Acyclic(ns), Len(ns) = Len(nodes), Grown(nodes, ns, Last(Stk)),
         Complete(ns, Last(Stk)), REDUCE_STK(ns)
  PROVE  Finished(nodes', Open(calls'))
<1> DEFINE b == Front(calls)
           r == Front(Stk)
           x == Last(Stk)
           O == Open(calls)
           Q == Open(b) \cup Elems(r)
<1>1. b \in Seq(Call) /\ \A s \in Seq(Nat \ {0}) :
        /\ setStk(s) = Append(b, [stk |-> s, wait |-> "none"])
        /\ [stk |-> s, wait |-> "none"] \in Call
  BY CallsFacts
<1>2. /\ r \in Seq(Nat \ {0}) /\ x \in 1..Len(nodes) /\ Stk = Append(r, x)
      /\ O = Q \cup {x} /\ Before(Q, {x}) /\ Increasing(r)
      /\ Len(Stk) \in Nat \ {0} /\ Len(r) = Len(Stk) - 1
  BY TopFacts
<1>3. \/ /\ Len(Stk) = 1 /\ calls' = b /\ nodes' = ns
      \/ /\ Len(Stk) > 1 /\ nodes' = addArgument(ns, Last(r), x) /\ calls' = setStk(r)
  BY DEF REDUCE_STK, Return
<1>4. /\ Acyclic(nodes) /\ Finished(nodes, O) /\ O \subseteq 1..Len(nodes) /\ Len(nodes) \in Nat
      /\ Grown(nodes, ns, x) /\ Complete(ns, x)
  BY DEF Shape, TypeOK
<1>5. Finished(ns, Q)
  <2> HIDE DEF x, Q, O
  <2>1. \A n \in 1..Len(ns) : n \notin Q /\ (n = x \/ n > Len(nodes)) => Complete(ns, n)
    BY <1>4
  <2>2. O \subseteq Q \cup {x} /\ Len(ns) \in Nat
    BY <1>2, <1>4
  <2> QED
    BY <1>4, <2>1, <2>2, FinishedNext
<1>6. CASE Len(Stk) = 1
  <2>1. calls' = b /\ nodes' = ns
    BY <1>3, <1>6
  <2>2. Elems(r) = {}
    BY <1>2, <1>6 DEF Elems
  <2> QED
    BY <1>5, <2>1, <2>2
<1>7. CASE Len(Stk) > 1
  <2> DEFINE q == Front(r)
             y == Last(r)
             ms == addArgument(ns, y, x)
  <2> HIDE DEF b, r, x, O
  <2>1. nodes' = ms /\ calls' = setStk(r)
    <3>1. Len(Stk) # 1
      BY <1>2, <1>7
    <3> QED
      BY <1>3, <3>1, Zenon
  <2>2. r # <<>>
    BY <1>2, <1>7
  <2>3. q \in Seq(Nat \ {0}) /\ y \in Nat \ {0} /\ r = Append(q, y)
    BY <1>2, <2>2, FrontLast
  <2> HIDE DEF q, y
  <2>4. y \in Elems(r)
    BY <2>3, ElemsFacts
  <2>5. y \in Q /\ y \in 1..Len(ns) /\ x \in (y + 1)..Len(ns)
    <3>1. y < x
      BY <1>2, <2>4 DEF Before
    <3> QED
      BY <1>2, <1>4, <2>3, <2>4, <3>1
  <2>6. Acyclic(ms) /\ Len(ms) = Len(ns) /\ Grown(ns, ms, y)
    BY <2>5, AddFacts
  <2>7. Open(calls') = Q
    <3> DEFINE d == [stk |-> r, wait |-> "none"]
    <3>1. calls' = Append(b, d) /\ d \in Call /\ d.stk = r
      BY <1>1, <1>2, <2>1
    <3> HIDE DEF d
    <3> QED
      BY <1>1, <3>1, OpenFacts
  <2> HIDE DEF ms, Q
  <2>8. Finished(ms, Q)
    <3>1. \A n \in 1..Len(ms) : n \notin Q /\ (n = y \/ n > Len(ns)) => Complete(ms, n)
      BY <1>4, <2>5, <2>6
    <3>2. Q \subseteq Q \cup {y} /\ Len(ms) \in Nat
      BY <1>4, <2>6
    <3> QED
      BY <1>5, <2>6, <3>1, <3>2, FinishedNext
  <2> QED
    BY <2>1, <2>7, <2>8
<1> QED
  BY <1>2, <1>6, <1>7

-----------------------------------------------------------------------------

\* Lists without a dot or a quote are complete.
LEMMA PlainComplete ==
  ASSUME NEW ns, NEW x, Plain(ns, x)
  PROVE  Complete(ns, x)
  BY DEF Plain, Complete

\* Atoms are complete, and the innermost list is still open.
LEMMA FinishedDatum ==
  ASSUME TypeOK, Shape, Finished(nodes, Open(calls)), Datum
  PROVE  Finished(nodes', Open(calls'))
<1> DEFINE n == Len(nodes) + 1
           ns == Append(nodes, NewNode(Peek, <<>>))
           O == Open(calls)
<1>1. /\ pc = "parse" /\ Peek \in Atom
      /\ \/ Stk = <<>> /\ Return(n) /\ nodes' = ns
         \/ Stk # <<>> /\ nodes' = addArgument(ns, Last(Stk), n) /\ UNCHANGED <<pc, calls, ret>>
  BY DEF Datum
<1>2. /\ calls # <<>> /\ Front(calls) \in Seq(Call) /\ Stk \in Seq(Nat \ {0})
      /\ O = Open(Front(calls)) \cup Elems(Stk) /\ O \subseteq 1..Len(nodes)
  BY <1>1, ParseFacts
<1>3. Acyclic(nodes) /\ Finished(nodes, O)
  BY DEF Shape
<1>4. /\ Acyclic(ns) /\ Len(ns) = n /\ Len(nodes) \in Nat
      /\ ns[n] = NewNode(Peek, <<>>)
      /\ \A x : Grown(nodes, ns, x)
  BY <1>1, <1>3, NewFacts
<1>5. Peek # "list"
  BY <1>1, ParserAssumption
<1>6. Complete(ns, n)
  <2>1. ns[n].text = Peek
    BY <1>4 DEF NewNode
  <2> HIDE DEF ns
  <2> QED
    BY <1>5, <2>1 DEF Complete
<1> HIDE DEF ns, O
<1>7. Finished(ns, O)
  <2>1. \A m \in 1..Len(ns) : m \notin O /\ (m = n \/ m > Len(nodes)) => Complete(ns, m)
    BY <1>4, <1>6
  <2>2. Grown(nodes, ns, n) /\ O \subseteq O \cup {n} /\ Len(ns) \in Nat
    BY <1>4
  <2> HIDE DEF n
  <2> QED
    BY <1>3, <2>1, <2>2, FinishedNext
<1>8. CASE Stk = <<>> /\ Return(n) /\ nodes' = ns
  <2>1. calls' = Front(calls) /\ Elems(Stk) = {}
    BY <1>8, ElemsFacts DEF Return
  <2>2. Open(calls') = O
    BY <1>2, <2>1
  <2> QED
    BY <1>7, <1>8, <2>2
<1>9. CASE Stk # <<>> /\ nodes' = addArgument(ns, Last(Stk), n) /\ UNCHANGED <<pc, calls, ret>>
  <2> DEFINE x == Last(Stk)
             ms == addArgument(ns, x, n)
  <2>1. x \in 1..Len(nodes) /\ x \in O
    BY <1>2, <1>9, TopFacts DEF O
  <2> HIDE DEF x
  <2>2. x \in 1..Len(ns) /\ n \in (x + 1)..Len(ns)
    BY <1>4, <2>1
  <2>3. Acyclic(ms) /\ Len(ms) = Len(ns) /\ Grown(ns, ms, x)
    BY <1>4, <2>2, AddFacts
  <2>4. nodes' = ms /\ calls' = calls
    BY <1>9 DEF x
  <2> HIDE DEF ms, n
  <2>5. Finished(ms, O)
    <3>1. \A m \in 1..Len(ms) : m \notin O /\ (m = x \/ m > Len(ns)) => Complete(ms, m)
      BY <1>4, <2>1, <2>3
    <3>2. O \subseteq O \cup {x} /\ Len(ms) \in Nat
      BY <2>3 DEF Acyclic
    <3> QED
      BY <1>4, <1>7, <2>3, <3>1, <3>2, FinishedNext
  <2> QED
    BY <2>4, <2>5 DEF O
<1> QED
  BY <1>1, <1>8, <1>9

\* A new list is open.
LEMMA FinishedPush ==
  ASSUME TypeOK, Shape, Finished(nodes, Open(calls)), OpenList \/ Quote
  PROVE  Finished(nodes', Open(calls'))
<1> DEFINE n == Len(nodes) + 1
           O == Open(calls)
<1>1. Acyclic(nodes) /\ Len(nodes) \in Nat /\ calls # <<>> /\ n \in Nat \ {0}
      /\ Finished(nodes, O)
  BY DEF Shape, TypeOK, OpenList, Quote
<1>2. /\ Open(calls') = O \cup {n} /\ Grown(nodes, nodes', n) /\ Len(nodes') \in Nat
      /\ \A m \in 1..Len(nodes') : m > n => Complete(nodes', m)
  <2>1. CASE OpenList
    <3> DEFINE ms == Append(nodes, NewNode("list", <<>>))
    <3>1. nodes' = ms /\ calls' = setStk(Append(Stk, n))
      BY <2>1 DEF OpenList
    <3>2. Grown(nodes, ms, n) /\ Len(ms) = n
      BY <1>1, NewFacts
    <3> HIDE DEF ms
    <3>3. Open(calls') = O \cup {n}
      BY <1>1, <3>1, OpenNext
    <3> QED
      BY <1>1, <3>1, <3>2, <3>3
  <2>2. CASE Quote
    <3> DEFINE ms == nodes \o <<NewNode("list", <<n + 1>>), NewNode("quote", <<>>)>>
    <3>1. nodes' = ms /\ calls' = Nested(Append(Stk, n), "quote")
      BY <2>2 DEF Quote
    <3>2. Grown(nodes, ms, n) /\ Len(ms) = Len(nodes) + 2 /\ ms[n + 1] = NewNode("quote", <<>>)
      BY <1>1, QuoteFacts
    <3> HIDE DEF ms
    <3>3. Open(calls') = O \cup {n}
      BY <1>1, <3>1, OpenNext
    <3>4. Complete(ms, n + 1)
      BY <3>2 DEF Complete, NewNode
    <3>5. \A m \in 1..Len(ms) : m > n => m = n + 1
      BY <1>1, <3>2
    <3>6. Len(ms) \in Nat
      BY <1>1, <3>2
    <3> QED
      BY <3>1, <3>2, <3>3, <3>4, <3>5, <3>6
  <2> QED
    BY <2>1, <2>2
<1>3. \A m \in 1..Len(nodes') : m \notin O \cup {n} /\ (m = n \/ m > Len(nodes)) => Complete(nodes', m)
  BY <1>1, <1>2
<1> HIDE DEF n, O
<1>4. O \subseteq (O \cup {n}) \cup {n}
  OBVIOUS
<1>5. Finished(nodes', O \cup {n})
  <2> DEFINE ms == nodes'
             Q == O \cup {n}
  <2>1. /\ Len(ms) \in Nat /\ Grown(nodes, ms, n) /\ O \subseteq Q \cup {n}
        /\ \A m \in 1..Len(ms) : m \notin Q /\ (m = n \/ m > Len(nodes)) => Complete(ms, m)
    BY <1>2, <1>3, <1>4
  <2> HIDE DEF ms, Q
  <2>2. Finished(ms, Q)
    BY <1>1, <2>1, FinishedNext
  <2> QED
    BY <2>2 DEF ms, Q
<1> QED
  BY <1>2, <1>5

\* The list before a dot stays open.
LEMMA FinishedDot ==
  ASSUME TypeOK, Shape, Finished(nodes, Open(calls)), Dot
  PROVE  Finished(nodes', Open(calls'))
<1> DEFINE x == Last(Stk)
           O == Open(calls)
           ms == [nodes EXCEPT ![x].dotted = TRUE]
<1>1. pc = "parse" /\ Stk # <<>> /\ nodes' = ms /\ calls' = Nested(Stk, "dot") /\ calls # <<>>
  BY DEF Dot, Shape
<1>2. Acyclic(nodes) /\ Len(nodes) \in Nat /\ Finished(nodes, O) /\ x \in 1..Len(nodes) /\ x \in O
  BY <1>1, TopFacts DEF Shape, TypeOK
<1>3. Open(calls') = O
  BY <1>1, OpenNext
<1> HIDE DEF x
<1>4. Acyclic(ms) /\ Len(ms) = Len(nodes) /\ Grown(nodes, ms, x)
  BY <1>2, DotFacts
<1> HIDE DEF ms, O
<1>5. \A m \in 1..Len(ms) : m \notin O /\ (m = x \/ m > Len(nodes)) => Complete(ms, m)
  BY <1>2, <1>4
<1>6. O \subseteq O \cup {x} /\ Len(ms) \in Nat
  BY <1>2, <1>4
<1>7. Finished(ms, O)
  BY <1>2, <1>4, <1>5, <1>6, FinishedNext
<1> QED
  BY <1>1, <1>3, <1>7

\* The list that is closed is complete.
LEMMA FinishedCloseList ==
  ASSUME TypeOK, Shape, Finished(nodes, Open(calls)), CloseList
  PROVE  Finished(nodes', Open(calls'))
<1> DEFINE x == Last(Stk)
           ns == nodes
<1>1. pc = "parse" /\ Stk # <<>> /\ REDUCE_STK(ns)
  BY DEF CloseList
<1>2. calls # <<>> /\ PlainAll(nodes, Stk) /\ Stk \in Seq(Nat \ {0})
  BY <1>1, ParseFacts
<1>3. Front(Stk) \in Seq(Nat \ {0}) /\ x \in Nat \ {0} /\ Stk = Append(Front(Stk), x)
  BY <1>1, <1>2, FrontLast
<1>4. Plain(ns, x)
  BY <1>2, <1>3, PlainAppend
<1>5. Complete(ns, Last(Stk))
  BY <1>4, PlainComplete
<1>6. Acyclic(ns) /\ Len(ns) = Len(nodes) /\ Grown(nodes, ns, Last(Stk))
  BY DEF Shape, Grown, Acyclic
<1> HIDE DEF ns, x
<1> QED
  BY <1>1, <1>2, <1>5, <1>6, ReduceFinished

-----------------------------------------------------------------------------

\* What was returned completes the list behind a quote or a dot.
LEMMA FinishedAfter ==
  ASSUME TypeOK, Shape, Finished(nodes, Open(calls)), AfterQuote \/ AfterDot
  PROVE  Finished(nodes', Open(calls'))
<1> DEFINE x == Last(Stk)
           ns == addArgument(nodes, x, ret)
<1>1. /\ pc = "return" /\ calls # <<>> /\ REDUCE_STK(ns)
      /\ \/ AfterQuote /\ Last(calls).wait = "quote"
         \/ AfterDot /\ Last(calls).wait = "dot"
  BY DEF AfterQuote, AfterDot, Matching
<1>2. ret = Garbage => nodes[x].args # <<>>
  <2>1. CASE AfterQuote
    BY <1>1, <2>1, WaitFacts DEF Half, Quotes, AfterQuote
  <2>2. CASE AfterDot
    <3>1. Peek # "EOF" /\ pos # Len(input)
      BY <2>2, PeekFacts DEF AfterDot
    <3> QED
      BY <1>1, <3>1 DEF Shape
  <2> QED
    BY <1>1, <2>1, <2>2
<1>3. /\ Stk # <<>> /\ Half(nodes, x, Last(calls).wait) /\ x \in 1..Len(nodes)
      /\ Acyclic(nodes)
      /\ ret \in (x + 1)..Len(nodes) \/ ret = 0
      /\ Acyclic(ns) /\ Len(ns) = Len(nodes) /\ Grown(nodes, ns, x)
  BY <1>1, <1>2, ReturnFacts
<1>4. /\ ns[x].text = nodes[x].text /\ ns[x].dotted = nodes[x].dotted
      /\ ns[x].args = Append(nodes[x].args, ret)
  <2> DEFINE a == ret
  <2>1. a \in (x + 1)..Len(nodes) \/ (a = 0 /\ nodes[x].args # <<>>)
    BY <1>2, <1>3 DEF Garbage
  <2> HIDE DEF a, x
  <2>2. LET ms == addArgument(nodes, x, a)
        IN  /\ ms[x].text = nodes[x].text /\ ms[x].dotted = nodes[x].dotted
            /\ ms[x].args = Append(nodes[x].args, a)
    BY <1>3, <2>1, AddFacts
  <2> QED
    BY <2>2 DEF a
<1>5. nodes[x].args \in Seq(Nat) /\ ret \in Nat
  BY <1>3, ArgsFacts DEF TypeOK
<1> HIDE DEF ns
<1>6. ns[x].args # <<>> /\ Len(ns[x].args) = Len(nodes[x].args) + 1
  <2> DEFINE r == nodes[x].args
  <2>1. r \in Seq(Nat) /\ ret \in Nat
    BY <1>5
  <2> HIDE DEF r
  <2>2. Append(r, ret) # <<>> /\ Len(Append(r, ret)) = Len(r) + 1
    BY <2>1
  <2> QED
    BY <1>4, <2>2 DEF r
<1>7. Complete(ns, Last(Stk))
  <2>1. CASE Last(calls).wait = "quote"
    <3>1. Len(nodes[x].args) = 1 /\ ~nodes[x].dotted
      BY <1>3, <2>1 DEF Half
    <3>2. Len(ns[x].args) = 2
      BY <1>6, <3>1
    <3> QED
      BY <1>4, <3>1, <3>2 DEF Complete
  <2>2. CASE Last(calls).wait = "dot"
    <3>1. nodes[x].dotted
      BY <1>3, <2>2 DEF Half
    <3> QED
      BY <1>4, <1>6, <3>1 DEF Complete
  <2> QED
    BY <1>1, <2>1, <2>2
<1>8. REDUCE_STK(ns) /\ Grown(nodes, ns, Last(Stk))
  BY <1>1, <1>3
<1> HIDE DEF x
<1> QED
  BY <1>1, <1>3, <1>7, <1>8, ReduceFinished

\* At the end of input, the lists of the activation that ends hold no dot and no quote.
LEMMA FinishedEndOfInput ==
  ASSUME TypeOK, Shape, Finished(nodes, Open(calls)), EndOfInput
  PROVE  Finished(nodes', Open(calls'))
<1>1. /\ pc = "parse" /\ nodes' = nodes
      /\ calls' = Front(calls) \/ calls' = calls
  BY DEF EndOfInput, Return
<1>2. /\ Stk \in Seq(Nat \ {0}) /\ PlainAll(nodes, Stk)
      /\ Open(calls) = Open(Front(calls)) \cup Elems(Stk)
  BY <1>1, ParseFacts
<1>3. CASE calls' = calls
  BY <1>1, <1>3
<1>4. CASE calls' = Front(calls)
  <2> SUFFICES ASSUME NEW n \in 1..Len(nodes), n \notin Open(Front(calls))
               PROVE  Complete(nodes, n)
    BY <1>1, <1>4 DEF Finished
  <2>1. CASE n \in Open(calls)
    <3>1. n \in Elems(Stk)
      BY <1>2, <2>1
    <3>2. Plain(nodes, n)
      BY <1>2, <3>1 DEF Elems, PlainAll
    <3> QED
      BY <3>2, PlainComplete
  <2>2. CASE n \notin Open(calls)
    BY <2>2 DEF Finished
  <2> QED
    BY <2>1, <2>2
<1> QED
  BY <1>1, <1>3, <1>4

\* main() has no open lists.
LEMMA FinishedMainLoop ==
  ASSUME TypeOK, Shape, Finished(nodes, Open(calls)), MainLoop
  PROVE  Finished(nodes', Open(calls'))
<1> DEFINE e == [stk |-> <<>>, wait |-> "none"]
<1>1. pc = "main" /\ nodes' = nodes /\ calls' \in {<<>>, <<e>>}
  BY DEF MainLoop
<1>2. calls = <<>>
  BY <1>1 DEF Shape
<1>3. Open(<<e>>) = {}
  <2>1. e \in Call /\ e.stk = <<>>
    BY DEF Call
  <2>2. <<e>> = Append(<<>>, e) /\ <<>> \in Seq(Call)
    OBVIOUS
  <2> HIDE DEF e
  <2>3. Open(Append(<<>>, e)) = Open(<<>>) \cup Elems(e.stk)
    BY <2>1, <2>2, OpenFacts
  <2> QED
    BY <2>1, <2>2, <2>3, OpenFacts, ElemsFacts
<1>4. Open(calls') = Open(calls)
  BY <1>1, <1>2, <1>3, OpenFacts
<1> QED
  BY <1>1, <1>4

\* Every step keeps the lists complete.
LEMMA FinishedStep ==
  ASSUME TypeOK, Shape, Finished(nodes, Open(calls)), Next
  PROVE  Finished(nodes', Open(calls'))
<1>1. CASE LexerError \/ Endless \/ Unexpected \/ Mismatch \/ Take
  <2>1. nodes' = nodes /\ calls' = calls
    BY <1>1 DEF LexerError, Endless, Unexpected, Mismatch, Take, Throws
  <2> QED
    BY <2>1
<1> QED
  BY <1>1, FinishedDatum, FinishedPush, FinishedDot, FinishedCloseList, FinishedAfter,
     FinishedEndOfInput, FinishedMainLoop DEF Next

\* Every list that is not open is complete, at every moment.
LEMMA FinishedInv == Spec => [](TypeOK /\ Shape /\ Finished(nodes, Open(calls)))
<1>1. Init => Finished(nodes, Open(calls))
  BY DEF Init, Finished
<1>2. TypeOK /\ Shape /\ Finished(nodes, Open(calls)) /\ [Next]_vars => Finished(nodes, Open(calls))'
  <2> SUFFICES ASSUME TypeOK, Shape, Finished(nodes, Open(calls)), [Next]_vars
               PROVE  Finished(nodes', Open(calls'))
    OBVIOUS
  <2>1. CASE UNCHANGED vars
    BY <2>1 DEF vars
  <2> QED
    BY <2>1, FinishedStep
<1> QED
  BY <1>1, <1>2, ShapeInv, PTL DEF Spec

-----------------------------------------------------------------------------

(***************************************************************************)
(* What the tokens from r on must be for a datum to go on in the open list x. *)
(***************************************************************************)
GoesOn(ns, x, r) ==
  \/ HasDatum(input, r) /\ (x # 0 => ~Half(ns, x, "dot"))
  \/ x # 0 /\ Plain(ns, x) /\ r <= Len(input) /\ input[r] \in {")", "."}
  \/ /\ x # 0 /\ Half(ns, x, "dot")
     /\ \E b \in r..(Len(input) - 1) : IsDatum(input, r, b) /\ input[b + 1] = ")"

\* Data that end at a token which starts none: there is a first one, or that token is next.
LEMMA DataGoOn ==
  ASSUME Len(input) \in Nat, NEW r \in Places, NEW b \in 1..Len(input), r <= b,
         AreData(input, r, b - 1)
  PROVE  r = b \/ HasDatum(input, r)
<1>1. b - 1 \in 0..Len(input) /\ r \in 1..(Len(input) + 1)
  BY DEF Places
<1>2. r > b - 1 \/ \E k \in r..(b - 1) : IsDatum(input, r, k)
  <2> DEFINE c == b - 1
  <2>1. c \in 0..Len(input) /\ r \in 1..(Len(input) + 1) /\ AreData(input, r, c)
    BY <1>1
  <2> HIDE DEF c
  <2>2. r > c \/ \E k \in r..c : IsDatum(input, r, k) /\ AreData(input, k + 1, c)
    BY <2>1, Rules
  <2> QED
    BY <2>2 DEF c
<1>3. CASE r > b - 1
  BY <1>1, <1>3
<1>4. CASE \E k \in r..(b - 1) : IsDatum(input, r, k)
  <2>1. PICK k \in r..(b - 1) : IsDatum(input, r, k)
    BY <1>4
  <2>2. k \in r..Len(input)
    BY <1>1, <2>1
  <2> QED
    BY <2>1, <2>2 DEF HasDatum
<1> QED
  BY <1>2, <1>3, <1>4

\* In a list without a dot or a quote.
LEMMA PlainGoesOn ==
  ASSUME input \in Seq(Tokens), NEW u \in Seq(Glyph), InRow(u), NEW i \in Places, NEW r \in Places,
         <<"(">> \o u = SubSeq(input, i, r - 1), HasDatum(input, i)
  PROVE  HasDatum(input, r) \/ (r <= Len(input) /\ input[r] \in {")", "."})
<1>0. Len(input) \in Nat /\ i \in Nat \ {0} /\ r \in Nat \ {0} /\ r <= Len(input) + 1
  BY DEF Places
<1>1. i <= r - 1 /\ i + 1 \in Places /\ i + 1 <= r /\ input[i] = "(" /\ u = SubSeq(input, i + 1, r - 1)
  <2> DEFINE j == r - 1
             t == "("
  <2>1. j \in 0..Len(input) /\ t \in Glyph /\ <<t>> \o u = SubSeq(input, i, j)
    BY <1>0 DEF Glyph, Tokens
  <2> HIDE DEF j, t
  <2>2. i <= j /\ i + 1 \in Places /\ i + 1 <= j + 1 /\ input[i] = t /\ u = SubSeq(input, i + 1, j)
    <3>1. StartsWith(t, u, i, j)
      BY <2>1, CutFirst
    <3> QED
      BY <3>1 DEF StartsWith
  <2> QED
    BY <1>0, <2>2 DEF j, t
<1>2. PICK b \in i..Len(input) : IsDatum(input, i, b)
  BY DEF HasDatum
<1>3. i < b /\ input[b] = ")" /\ Listed(input, i + 1, b - 1)
  BY <1>0, <1>1, <1>2, ListInside
<1>4. ASSUME NEW k \in (i + 1)..Len(input), input[k] \in {")", "."}, AreData(input, i + 1, k - 1)
      PROVE  HasDatum(input, r) \/ (r <= Len(input) /\ input[r] \in {")", "."})
  <2> DEFINE m == i + 1
             j == r - 1
             q == k - 1
  <2>1. /\ m \in Places /\ j \in 0..Len(input) /\ m <= j + 1 /\ u = SubSeq(input, m, j)
        /\ q \in (m - 1)..(Len(input) - 1) /\ AreData(input, m, q) /\ q + 1 = k /\ j + 1 = r
    BY <1>0, <1>1, <1>4
  <2>2. input[k] \notin Starters
    BY <1>4, NoStarters
  <2> HIDE DEF m, j, q
  <2>3. j <= q /\ AreData(input, j + 1, q)
    BY <2>1, <2>2 DEF InRow
  <2>4. r <= k /\ AreData(input, r, k - 1) /\ k \in 1..Len(input)
    BY <1>0, <1>4, <2>1, <2>3 DEF j, q
  <2>5. r = k \/ HasDatum(input, r)
    BY <1>0, <2>4, DataGoOn
  <2> QED
    BY <1>4, <2>4, <2>5
<1>5. CASE AreData(input, i + 1, b - 1)
  BY <1>0, <1>2, <1>3, <1>4, <1>5
<1>6. CASE \E k \in ((i + 1) + 1)..((b - 1) - 1) :
             input[k] = "." /\ AreData(input, i + 1, k - 1) /\ IsDatum(input, k + 1, b - 1)
  <2>1. PICK k \in ((i + 1) + 1)..((b - 1) - 1) : input[k] = "." /\ AreData(input, i + 1, k - 1)
    BY <1>6
  <2>2. k \in (i + 1)..Len(input)
    BY <1>0, <1>2, <2>1
  <2> QED
    BY <1>4, <2>1, <2>2
<1> QED
  BY <1>3, <1>5, <1>6 DEF Listed

\* Behind a quote.
LEMMA QuoteGoesOn ==
  ASSUME input \in Seq(Tokens), NEW i \in Places, NEW r \in Places,
         <<"'">> = SubSeq(input, i, r - 1), HasDatum(input, i)
  PROVE  HasDatum(input, r)
<1>0. Len(input) \in Nat /\ i \in Nat \ {0} /\ r \in Nat \ {0} /\ r <= Len(input) + 1
  BY DEF Places
<1>1. i <= r - 1 /\ input[i] = "'" /\ i + 1 = r
  <2> DEFINE j == r - 1
             t == "'"
             v == <<>>
  <2>1. j \in 0..Len(input) /\ t \in Glyph /\ v \in Seq(Glyph) /\ <<t>> \o v = <<t>>
    BY <1>0 DEF Glyph, Tokens
  <2>2. <<t>> \o v = SubSeq(input, i, j)
    BY <2>1
  <2>3. Len(v) = 0
    OBVIOUS
  <2> HIDE DEF j, t, v
  <2>4. i <= j /\ i + 1 \in Places /\ i + 1 <= j + 1 /\ input[i] = t /\ v = SubSeq(input, i + 1, j)
    <3>1. StartsWith(t, v, i, j)
      BY <2>1, <2>2, CutFirst
    <3> QED
      BY <3>1 DEF StartsWith
  <2> DEFINE m == i + 1
  <2>5. m \in Places /\ m <= j + 1
    BY <2>4
  <2> HIDE DEF m
  <2>6. Len(SubSeq(input, m, j)) = j - m + 1
    BY <2>1, <2>5, PartFacts
  <2>7. j - m + 1 = 0
    BY <2>3, <2>4, <2>6 DEF m
  <2> QED
    BY <1>0, <2>1, <2>4, <2>7 DEF j, t, m
<1>2. PICK b \in i..Len(input) : IsDatum(input, i, b)
  BY DEF HasDatum
<1>3. i \in 1..(Len(input) + 1) /\ b \in 0..Len(input)
  BY <1>0, <1>2
<1>4. "'" \notin Atom
  BY ParserAssumption
<1>5. i < b /\ IsDatum(input, i + 1, b)
  BY <1>0, <1>1, <1>2, <1>3, <1>4, Rules
<1>6. b \in r..Len(input) /\ IsDatum(input, r, b)
  BY <1>0, <1>1, <1>2, <1>5
<1> QED
  BY <1>6 DEF HasDatum

\* Behind a dot.
LEMMA DotGoesOn ==
  ASSUME input \in Seq(Tokens), NEW u \in Seq(Glyph), InRow(u), NEW i \in Places, NEW r \in Places,
         <<"(">> \o u \o <<".">> = SubSeq(input, i, r - 1), HasDatum(input, i)
  PROVE  \E b \in r..(Len(input) - 1) : IsDatum(input, r, b) /\ input[b + 1] = ")"
<1> DEFINE d == r - 1
           w == u \o <<".">>
<1>0. Len(input) \in Nat /\ i \in Nat \ {0} /\ r \in Nat \ {0} /\ r <= Len(input) + 1 /\ d \in 0..Len(input)
  BY DEF Places
<1>1. "(" \in Glyph /\ "." \in Glyph /\ w \in Seq(Glyph) /\ <<"(">> \o w = SubSeq(input, i, d)
  <2>1. "(" \in Glyph /\ "." \in Glyph
    BY DEF Glyph, Tokens
  <2> DEFINE x == <<"(">>
             y == <<".">>
  <2>2. x \in Seq(Glyph) /\ y \in Seq(Glyph)
    BY <2>1
  <2>3. (x \o u) \o y = SubSeq(input, i, d)
    OBVIOUS
  <2> HIDE DEF x, y
  <2>4. (x \o u) \o y = x \o (u \o y) /\ u \o y \in Seq(Glyph)
    BY <2>2, ConcatAssociative, ConcatProperties
  <2> QED
    BY <2>1, <2>3, <2>4 DEF x, y
<1> HIDE DEF d, w
<1> DEFINE m == i + 1
<1>2. i <= d /\ m \in Places /\ m <= d + 1 /\ input[i] = "(" /\ w = SubSeq(input, m, d)
  <2> DEFINE t == "("
  <2>1. /\ input \in Seq(Tokens) /\ t \in Glyph /\ w \in Seq(Glyph) /\ i \in Places /\ d \in 0..Len(input)
        /\ <<t>> \o w = SubSeq(input, i, d)
    BY <1>0, <1>1
  <2> HIDE DEF t
  <2>2. i <= d /\ i + 1 \in Places /\ i + 1 <= d + 1 /\ input[i] = t /\ w = SubSeq(input, i + 1, d)
    <3>1. StartsWith(t, w, i, d)
      BY <2>1, CutFirst
    <3> QED
      BY <3>1 DEF StartsWith
  <2> QED
    BY <2>2 DEF t
<1> HIDE DEF m
<1>3. m <= d /\ input[d] = "." /\ d - 1 \in 0..Len(input) /\ u = SubSeq(input, m, d - 1)
  <2> DEFINE t == "."
  <2>1. /\ input \in Seq(Tokens) /\ t \in Glyph /\ u \in Seq(Glyph) /\ m \in Places /\ d \in 0..Len(input)
        /\ m <= d + 1 /\ u \o <<t>> = SubSeq(input, m, d)
    BY <1>0, <1>1, <1>2 DEF w
  <2> HIDE DEF t
  <2>2. m <= d /\ input[d] = t /\ d - 1 \in 0..Len(input) /\ m <= (d - 1) + 1
        /\ u = SubSeq(input, m, d - 1)
    <3>1. EndsWith(u, t, m, d)
      BY <2>1, CutLast
    <3> QED
      BY <3>1 DEF EndsWith
  <2> QED
    BY <2>2 DEF t
<1>4. PICK b \in i..Len(input) : IsDatum(input, i, b)
  BY DEF HasDatum
<1>5. i < b /\ input[b] = ")" /\ Listed(input, i + 1, b - 1)
  BY <1>0, <1>2, <1>4, ListInside
<1>6. ASSUME NEW k \in m..Len(input), input[k] \in {")", "."}, AreData(input, m, k - 1)
      PROVE  k = d
  <2> DEFINE q == k - 1
  <2>1. /\ m \in Places /\ d \in m..Len(input) /\ u = SubSeq(input, m, d - 1)
        /\ q \in (m - 1)..(Len(input) - 1) /\ AreData(input, m, q) /\ q + 1 = k
    BY <1>0, <1>2, <1>3, <1>6 DEF Places
  <2>2. input[k] \notin Starters /\ input[d] \notin Starters
    BY <1>3, <1>6, NoStarters
  <2> HIDE DEF q
  <2>3. q = d - 1
    BY <2>1, <2>2, RowEnds
  <2> QED
    BY <1>0, <1>6, <2>1, <2>3 DEF q
<1>7. CASE AreData(input, i + 1, b - 1)
  <2>1. b \in m..Len(input)
    BY <1>0, <1>4, <1>5 DEF m
  <2>2. b = d
    BY <1>5, <1>6, <1>7, <2>1 DEF m
  <2> QED
    BY <1>3, <1>5, <2>2
<1>8. CASE \E k \in ((i + 1) + 1)..((b - 1) - 1) :
             input[k] = "." /\ AreData(input, i + 1, k - 1) /\ IsDatum(input, k + 1, b - 1)
  <2>1. PICK k \in ((i + 1) + 1)..((b - 1) - 1) :
             input[k] = "." /\ AreData(input, i + 1, k - 1) /\ IsDatum(input, k + 1, b - 1)
    BY <1>8
  <2>2. k \in m..Len(input)
    BY <1>0, <1>4, <2>1 DEF m
  <2>3. k = d
    BY <1>6, <2>1, <2>2 DEF m
  <2>4. k + 1 = r /\ (b - 1) \in r..(Len(input) - 1) /\ (b - 1) + 1 = b
    BY <1>0, <1>4, <2>1, <2>3 DEF d
  <2> QED
    BY <1>5, <2>1, <2>4
<1> QED
  BY <1>5, <1>7, <1>8 DEF Listed

-----------------------------------------------------------------------------

\* What the innermost list of an activation is.
Opened(ns, x) == Plain(ns, x) \/ Half(ns, x, "quote") \/ Half(ns, x, "dot")

\* The token after the start of an open list, when a datum starts there.
LEMMA ListGoesOn ==
  ASSUME input \in Seq(Tokens), NEW ns, Acyclic(ns), NEW O, Finished(ns, O), Unshared(ns, O),
         NEW x \in 1..Len(ns), x \in O, Opened(ns, x), NEW i \in Places, NEW r \in Places,
         Opening(ns, x) = SubSeq(input, i, r - 1), HasDatum(input, i)
  PROVE  GoesOn(ns, x, r)
<1> DEFINE e == Each(Texts(ns), ns[x].args)
<1>1. e \in Seq(Glyph) /\ InRow(e)
  <2>1. Spelt(Texts(ns), ns[x].args, Glyph) /\ e \in Seq(Glyph) /\ ns[x].args \in Seq(Nat)
    BY ArgTexts, ArgsFacts
  <2>2. ASSUME NEW k \in 1..Len(ns[x].args) PROVE Stands(Texts(ns)[ns[x].args[k]])
    <3>1. ns[x].args[k] \in (0..Len(ns)) \ O
      BY ArgsFacts DEF Unshared, Acyclic
    <3> QED
      BY <3>1, ClosedStands
  <2> DEFINE W == Texts(ns)
             ids == ns[x].args
  <2>3. ids \in Seq(Nat) /\ Spelt(W, ids, Glyph) /\ \A k \in 1..Len(ids) : Stands(W[ids[k]])
    BY <2>1, <2>2
  <2> HIDE DEF W, ids
  <2>4. InRow(Each(W, ids))
    BY <2>3, EachInRow
  <2> QED
    BY <2>1, <2>4 DEF W, ids
<1>2. x # 0 /\ x # Garbage
  BY DEF Acyclic, Garbage
<1> HIDE DEF e
<1>3. CASE Plain(ns, x)
  <2>1. Opening(ns, x) = <<"(">> \o e
    BY <1>3, PlainOpening DEF e
  <2>2. <<"(">> \o e = SubSeq(input, i, r - 1)
    BY <2>1
  <2>3. HasDatum(input, r) \/ (r <= Len(input) /\ input[r] \in {")", "."})
    BY <1>1, <2>2, PlainGoesOn
  <2>4. ~Half(ns, x, "dot")
    BY <1>3 DEF Plain, Half
  <2> QED
    BY <1>2, <1>3, <2>3, <2>4 DEF GoesOn
<1>4. CASE Half(ns, x, "quote")
  <2>1. Unshared(ns, {x})
    BY DEF Unshared
  <2> DEFINE a == 0
  <2>2. a \in (x + 1)..Len(ns) \/ a = 0
    OBVIOUS
  <2> HIDE DEF a
  <2>3. Opening(ns, x) = <<"'">>
    BY <1>4, <2>1, <2>2, QuoteText
  <2>4. <<"'">> = SubSeq(input, i, r - 1)
    BY <2>3
  <2>5. HasDatum(input, r)
    BY <2>4, QuoteGoesOn
  <2>6. ~Half(ns, x, "dot")
    BY <1>4 DEF Half
  <2> QED
    BY <2>5, <2>6 DEF GoesOn
<1>5. CASE Half(ns, x, "dot")
  <2>1. ns[x].dotted
    BY <1>5 DEF Half
  <2>2. Opening(ns, x) = <<"(">> \o e \o <<".">>
    BY <1>2, <2>1 DEF Opening, e
  <2>3. <<"(">> \o e \o <<".">> = SubSeq(input, i, r - 1)
    BY <2>2
  <2>4. \E b \in r..(Len(input) - 1) : IsDatum(input, r, b) /\ input[b + 1] = ")"
    BY <1>1, <2>3, DotGoesOn
  <2> QED
    BY <1>2, <1>5, <2>4 DEF GoesOn
<1> QED
  BY <1>3, <1>4, <1>5 DEF Opened

\* How an open list starts.
LEMMA OpensWith ==
  ASSUME NEW ns, Acyclic(ns), NEW x \in 1..Len(ns), Unshared(ns, {x}), Opened(ns, x)
  PROVE  Len(Opening(ns, x)) >= 1 /\ Opening(ns, x)[1] \in {"(", "'"}
<1> DEFINE e == Each(Texts(ns), ns[x].args)
<1>1. e \in Seq(Glyph) /\ x # Garbage
  BY ArgTexts DEF Garbage, Acyclic
<1>2. "(" \in Glyph /\ "." \in Glyph
  BY DEF Glyph, Tokens
<1> HIDE DEF e
<1>3. CASE Plain(ns, x)
  <2>1. Opening(ns, x) = <<"(">> \o e
    BY <1>3, PlainOpening DEF e
  <2>2. Len(<<"(">> \o e) >= 1 /\ (<<"(">> \o e)[1] = "("
    BY <1>1
  <2> QED
    BY <2>1, <2>2
<1>4. CASE Half(ns, x, "quote")
  <2> DEFINE a == 0
  <2>1. a \in (x + 1)..Len(ns) \/ a = 0
    OBVIOUS
  <2> HIDE DEF a
  <2>2. Opening(ns, x) = <<"'">>
    BY <1>4, <2>1, QuoteText
  <2> QED
    BY <2>2
<1>5. CASE Half(ns, x, "dot")
  <2>1. ns[x].dotted
    BY <1>5 DEF Half
  <2>2. Opening(ns, x) = <<"(">> \o e \o <<".">>
    BY <1>1, <2>1 DEF Opening, e
  <2> DEFINE f == <<"(">> \o e
  <2>3. f \in Seq(Glyph) /\ Len(f) >= 1 /\ f[1] = "("
    BY <1>1, <1>2
  <2> HIDE DEF f
  <2>4. Len(f \o <<".">>) >= 1 /\ (f \o <<".">>)[1] = "("
    BY <2>3
  <2> QED
    BY <2>2, <2>4 DEF f
<1> QED
  BY <1>3, <1>4, <1>5 DEF Opened

\* What is next, where a datum goes on.
LEMMA NextToken ==
  ASSUME Len(input) \in Nat, NEW r \in Places, NEW ns, NEW x, GoesOn(ns, x, r)
  PROVE  /\ r <= Len(input)
         /\ HasDatum(input, r) \/ (x # 0 /\ Plain(ns, x) /\ input[r] \in {")", "."})
         /\ HasDatum(input, r) => input[r] \in Starters
<1>1. ASSUME HasDatum(input, r) PROVE r <= Len(input) /\ input[r] \in Starters
  <2>1. PICK b \in r..Len(input) : IsDatum(input, r, b)
    BY <1>1 DEF HasDatum
  <2>2. r \in 1..(Len(input) + 1) /\ b \in 0..Len(input)
    BY DEF Places
  <2> QED
    BY <2>1, <2>2, FirstToken
<1>2. ASSUME NEW b \in r..(Len(input) - 1), IsDatum(input, r, b) PROVE HasDatum(input, r)
  <2>1. b \in r..Len(input)
    BY DEF Places
  <2> QED
    BY <1>2, <2>1 DEF HasDatum
<1> QED
  BY <1>1, <1>2 DEF GoesOn

\* When an open list follows, a datum starts there.
LEMMA IntoList ==
  ASSUME input \in Seq(Tokens), NEW ns, Acyclic(ns), NEW x, NEW r \in Places, GoesOn(ns, x, r),
         NEW y \in 1..Len(ns), Unshared(ns, {y}), Opened(ns, y), NEW k \in Places, r <= k,
         Opening(ns, y) = SubSeq(input, r, k - 1)
  PROVE  HasDatum(input, r)
<1>1. Len(input) \in Nat
  OBVIOUS
<1>2. input[r] \in {"(", "'"}
  <2> DEFINE j == k - 1
             u == SubSeq(input, r, j)
  <2>1. j \in 0..Len(input) /\ r <= j + 1 /\ r \in Nat
    BY DEF Places
  <2>2. Len(u) >= 1 /\ u[1] \in {"(", "'"}
    BY OpensWith
  <2> HIDE DEF j
  <2>3. Len(u) = j - r + 1 /\ \A n \in 1..(j - r + 1) : u[n] = input[r + n - 1]
    BY <2>1, PartFacts
  <2> HIDE DEF u
  <2>4. 1 \in 1..(j - r + 1) /\ r + 1 - 1 = r
    BY <2>1, <2>2, <2>3
  <2>5. u[1] = input[r + 1 - 1]
    BY <2>3, <2>4
  <2> QED
    BY <2>2, <2>4, <2>5
<1> QED
  BY <1>1, <1>2, NextToken

-----------------------------------------------------------------------------

(***************************************************************************)
(* A datum that starts behind the last form goes on in the innermost list.   *)
(***************************************************************************)
LEMMA Inward ==
  ASSUME input \in Seq(Tokens), NEW ns, Acyclic(ns), NEW O, O \subseteq 1..Len(ns),
         Finished(ns, O), Unshared(ns, O), \A x \in O : Opened(ns, x),
         NEW at, NEW tip, Chain(ns, O, at, tip), HasDatum(input, at[0])
  PROVE  \E x : Top(O, x) /\ GoesOn(ns, x, tip)
<1> DEFINE Reached(m, x) == /\ x \in Spine(O) /\ x <= m /\ HasDatum(input, at[x])
                            /\ \A z \in Spine(O) : z <= m => z <= x
           P == {m \in Nat : \E x : Reached(m, x)}
           L == Len(ns)
<1>1. L \in Nat /\ Spine(O) \subseteq 0..L /\ 0 \in Spine(O) /\ Len(input) \in Nat
  BY DEF Acyclic, Spine
<1>2. at \in [Spine(O) -> Places] /\ tip \in Places
  BY DEF Chain
<1> HIDE DEF L
<1>3. ASSUME NEW x \in Spine(O), HasDatum(input, at[x]), NEW r \in Places, at[x] <= r,
             Opening(ns, x) = SubSeq(input, at[x], r - 1)
      PROVE  GoesOn(ns, x, r)
  <2> DEFINE i == at[x]
  <2>1. i \in Places
    BY <1>2
  <2>2. CASE x = 0
    <3>1. Opening(ns, x) = <<>>
      BY <2>2 DEF Opening, Garbage
    <3> DEFINE j == r - 1
    <3>2. j \in 0..Len(input) /\ i <= j + 1 /\ i \in Nat /\ r \in Nat
      BY <1>1, <1>3, <2>1 DEF Places
    <3>3. SubSeq(input, i, j) = <<>>
      BY <1>3, <3>1
    <3> HIDE DEF i, j
    <3>4. Len(SubSeq(input, i, j)) = j - i + 1
      BY <2>1, <3>2, PartFacts
    <3>5. Len(SubSeq(input, i, j)) = 0
      BY <3>3
    <3>6. i = r
      BY <3>2, <3>4, <3>5 DEF j
    <3> QED
      BY <1>3, <2>2, <3>6 DEF GoesOn, i
  <2>3. CASE x # 0
    <3>1. x \in 1..Len(ns) /\ x \in O /\ Opened(ns, x)
      BY <2>3 DEF Spine
    <3>2. Opening(ns, x) = SubSeq(input, i, r - 1) /\ HasDatum(input, i)
      BY <1>3
    <3> HIDE DEF i
    <3> QED
      BY <2>1, <3>1, <3>2, ListGoesOn
  <2> QED
    BY <2>2, <2>3
<1>4. ASSUME NEW m \in Nat, \A n \in 0..(m - 1) : n \in P PROVE m \in P
  <2>1. CASE m = 0
    <3>1. Reached(m, 0)
      BY <1>1, <2>1
    <3> QED
      BY <3>1
  <2>2. CASE m # 0
    <3>1. m - 1 \in 0..(m - 1)
      BY <2>2
    <3>2. PICK x : Reached(m - 1, x)
      BY <1>4, <3>1
    <3>3. x \in Spine(O) /\ x <= m - 1 /\ HasDatum(input, at[x]) /\ x \in Nat
          /\ \A z \in Spine(O) : z <= m - 1 => z <= x
      BY <1>1, <3>2
    <3>4. CASE m \notin Spine(O)
      <4>1. \A z \in Spine(O) : z <= m => z <= m - 1
        BY <1>1, <3>4
      <4>2. Reached(m, x)
        BY <3>3, <4>1
      <4> QED
        BY <4>2
    <3>5. CASE m \in Spine(O)
      <4>1. Adjacent(O, x, m)
        BY <1>1, <3>3, <3>5 DEF Adjacent
      <4>2. /\ at[x] <= at[m] /\ Opening(ns, x) = SubSeq(input, at[x], at[m] - 1)
            /\ at[m] \in Places
        BY <1>2, <3>5, <4>1 DEF Chain
      <4>3. GoesOn(ns, x, at[m])
        BY <1>3, <3>3, <4>2
      <4>4. \E k \in Places : at[m] <= k /\ Opening(ns, m) = SubSeq(input, at[m], k - 1)
        <5>1. CASE Top(O, m)
          BY <1>2, <5>1 DEF Chain
        <5>2. CASE ~Top(O, m)
          <6> DEFINE Above == {z \in Spine(O) : m < z}
          <6>1. Above # {} /\ Above \subseteq Nat
            BY <1>1, <3>5, <5>2 DEF Top
          <6> HIDE DEF Above
          <6>2. PICK y \in Above : \A z \in Above : y <= z
            BY <6>1, LeastNatural
          <6>3. Adjacent(O, m, y)
            BY <1>1, <3>5, <6>2 DEF Adjacent, Above
          <6>4. at[y] \in Places
            BY <1>2, <6>2 DEF Above
          <6> QED
            BY <6>3, <6>4 DEF Chain
        <5> QED
          BY <5>1, <5>2
      <4>5. PICK k \in Places : at[m] <= k /\ Opening(ns, m) = SubSeq(input, at[m], k - 1)
        BY <4>4
      <4>6. m \in 1..Len(ns) /\ Opened(ns, m) /\ Unshared(ns, {m})
        BY <2>2, <3>5 DEF Spine, Unshared
      <4> DEFINE r == at[m]
      <4>7. r \in Places /\ GoesOn(ns, x, r) /\ r <= k /\ Opening(ns, m) = SubSeq(input, r, k - 1)
        BY <4>2, <4>3, <4>5
      <4> HIDE DEF r
      <4>8. HasDatum(input, r)
        BY <4>6, <4>7, IntoList
      <4>9. Reached(m, m)
        BY <3>5, <4>8 DEF r
      <4> QED
        BY <4>9
    <3> QED
      BY <3>4, <3>5
  <2> QED
    BY <2>1, <2>2
<1> HIDE DEF P
<1>5. Nat \subseteq P
  BY <1>4, NatSetInduction
<1>6. PICK x : Reached(L, x)
  BY <1>1, <1>5 DEF P
<1>7. Top(O, x)
  BY <1>1, <1>6 DEF Top
<1>8. at[x] <= tip /\ Opening(ns, x) = SubSeq(input, at[x], tip - 1)
  BY <1>7 DEF Chain
<1>9. GoesOn(ns, x, tip)
  BY <1>2, <1>3, <1>6, <1>8
<1> QED
  BY <1>7, <1>9

-----------------------------------------------------------------------------

\* The lists of activations that wait.
LEMMA WaitOpened ==
  ASSUME NEW ns, NEW cs \in Seq(Call), AllWait(ns, cs), NEW x \in Open(cs)
  PROVE  Opened(ns, x)
<1>0. PICK i \in 1..Len(cs) : x \in Elems(cs[i].stk)
  BY DEF Open
<1>1. PICK j \in 1..Len(cs[i].stk) : x = cs[i].stk[j]
  BY <1>0 DEF Elems
<1> DEFINE s == cs[i].stk
           w == cs[i].wait
<1>2. s \in Seq(Nat \ {0}) /\ w \in {"none", "quote", "dot"}
  <2>1. cs[i] \in Call
    OBVIOUS
  <2> QED
    BY <2>1 DEF Call
<1>3. s # <<>> /\ PlainAll(ns, Front(s)) /\ Half(ns, Last(s), w)
  BY DEF AllWait, Waits
<1> HIDE DEF s, w
<1>4. Len(s) \in Nat \ {0} /\ Len(Front(s)) = Len(s) - 1 /\ Last(s) = s[Len(s)]
      /\ \A k \in 1..(Len(s) - 1) : Front(s)[k] = s[k]
  <2>1. /\ Len(s) \in Nat \ {0}
        /\ Front(s) \in Seq(Nat \ {0}) /\ Len(Front(s)) = Len(s) - 1
        /\ \A k \in 1..(Len(s) - 1) : Front(s)[k] = s[k]
        /\ Last(s) \in Nat \ {0} /\ Last(s) = s[Len(s)]
        /\ s = Append(Front(s), Last(s))
    BY <1>2, <1>3, FrontLast, ZenonT(60)
  <2> QED
    BY <2>1
<1>5. j \in 1..Len(s) /\ x = s[j]
  BY <1>1 DEF s
<1>6. CASE j = Len(s)
  BY <1>2, <1>3, <1>4, <1>5, <1>6 DEF Opened, Half
<1>7. CASE j # Len(s)
  <2>1. j \in 1..(Len(s) - 1)
    BY <1>4, <1>5, <1>7
  <2> QED
    BY <1>3, <1>4, <1>5, <2>1 DEF PlainAll, Opened
<1> QED
  BY <1>6, <1>7

\* The innermost list of activations that all wait has a quote or a dot.
LEMMA TopWaits ==
  ASSUME NEW ns, NEW cs \in Seq(Call), Ordered(cs), AllWait(ns, cs), Open(cs) \subseteq Nat,
         NEW x, Top(Open(cs), x), x # 0
  PROVE  ~Plain(ns, x)
<1>1. cs # <<>>
  BY OpenFacts DEF Top, Spine
<1> DEFINE b == Front(cs)
           c == Last(cs)
           s == c.stk
           y == Last(s)
<1>2. b \in Seq(Call) /\ c \in Call /\ cs = Append(b, c)
  BY <1>1, FrontLast
<1> HIDE DEF b, c
<1>3. s \in Seq(Nat \ {0}) /\ c.wait \in {"none", "quote", "dot"}
  BY <1>2 DEF Call
<1>4. /\ s # <<>> /\ Half(ns, y, c.wait) /\ Open(cs) = Open(b) \cup Elems(s) /\ Increasing(s)
      /\ Before(Open(b), Elems(s))
  BY <1>2, OpenFacts DEF Waits
<1> HIDE DEF s, y
<1>5. Front(s) \in Seq(Nat \ {0}) /\ y \in Nat \ {0} /\ s = Append(Front(s), y)
  BY <1>3, <1>4, FrontLast DEF y
<1>6. Elems(s) = Elems(Front(s)) \cup {y} /\ Before(Elems(Front(s)), {y})
  BY <1>4, <1>5, ElemsFacts
<1>7. x \in Open(cs) /\ x \in Nat /\ y <= x
  BY <1>4, <1>6 DEF Top, Spine
<1>8. x = y
  <2>1. x \in Open(b) => x < y
    BY <1>4, <1>6 DEF Before
  <2>2. x \in Elems(Front(s)) => x < y
    BY <1>6 DEF Before
  <2> QED
    BY <1>4, <1>5, <1>6, <1>7, <2>1, <2>2
<1> QED
  BY <1>3, <1>4, <1>8 DEF Half, Plain

\* So is every list on the stacks.
LEMMA AllOpened ==
  ASSUME TypeOK, Shape, pc \in {"parse", "return"}
  PROVE  \A x \in Open(calls) : Opened(nodes, x)
<1>1. CASE pc = "return"
  <2>1. calls \in Seq(Call) /\ AllWait(nodes, calls)
    BY <1>1 DEF TypeOK, Shape
  <2> QED
    BY <2>1, WaitOpened
<1>2. CASE pc = "parse"
  <2>1. /\ Front(calls) \in Seq(Call) /\ AllWait(nodes, Front(calls)) /\ PlainAll(nodes, Stk)
        /\ Open(calls) = Open(Front(calls)) \cup Elems(Stk)
    BY <1>2, ParseFacts
  <2>2. \A x \in Open(Front(calls)) : Opened(nodes, x)
    BY <2>1, WaitOpened
  <2>3. \A x \in Elems(Stk) : Plain(nodes, x)
    BY <2>1 DEF Elems, PlainAll
  <2> QED
    BY <2>1, <2>2, <2>3 DEF Opened
<1> QED
  BY <1>1, <1>2

(***************************************************************************)
(* If a datum starts behind the last form, the innermost list says what the   *)
(* tokens are that follow what the open lists stand for.                     *)
(***************************************************************************)
LEMMA DatumGoesOn ==
  ASSUME TypeOK, Shape, Finished(nodes, Open(calls)), pc \in {"parse", "return"},
         NEW tip, Covered(nodes, Open(calls), tip), HasDatum(input, Origin)
  PROVE  tip \in Places /\ \E x : Top(Open(calls), x) /\ GoesOn(nodes, x, tip)
<1> DEFINE O == Open(calls)
<1>1. PICK at : at[0] = Origin /\ Chain(nodes, O, at, tip)
  BY DEF Covered
<1>2. /\ input \in Seq(Tokens) /\ Acyclic(nodes) /\ O \subseteq 1..Len(nodes)
      /\ Finished(nodes, O) /\ Unshared(nodes, O) /\ \A x \in O : Opened(nodes, x)
  BY AllOpened, PeekFacts DEF Shape
<1>3. HasDatum(input, at[0])
  BY <1>1
<1> HIDE DEF O
<1>4. \E x : Top(O, x) /\ GoesOn(nodes, x, tip)
  BY <1>1, <1>2, <1>3, Inward
<1>5. tip \in Places
  BY <1>1 DEF Chain
<1> QED
  BY <1>4, <1>5 DEF O

\* No datum is refused while one is read.
LEMMA RefusedReading ==
  ASSUME TypeOK, Shape, Finished(nodes, Open(calls)), Spelled, pc = "parse",
         Peek \in {"EOF", "bad", "unended"} \/ (Peek \in {")", "."} /\ Stk = <<>>)
  PROVE  ~HasDatum(input, Origin)
<1> SUFFICES ASSUME HasDatum(input, Origin) PROVE FALSE
  OBVIOUS
<1> DEFINE tip == pos + 1
           O == Open(calls)
<1>1. Covered(nodes, O, tip)
  BY DEF Spelled, Lost
<1> HIDE DEF tip
<1>2. tip \in Places /\ \E x : Top(O, x) /\ GoesOn(nodes, x, tip)
  BY <1>1, DatumGoesOn
<1>3. PICK x : Top(O, x) /\ GoesOn(nodes, x, tip)
  BY <1>2
<1>4. /\ Len(input) \in Nat /\ pos \in Nat
      /\ Peek = "EOF" <=> pos = Len(input)
      /\ Peek # "EOF" => Peek = input[tip]
  BY PeekFacts DEF TypeOK, tip
<1>5. /\ tip <= Len(input)
      /\ HasDatum(input, tip) \/ (x # 0 /\ Plain(nodes, x) /\ input[tip] \in {")", "."})
      /\ HasDatum(input, tip) => input[tip] \in Starters
  BY <1>2, <1>3, <1>4, NextToken
<1>6. Peek = input[tip] /\ Peek # "EOF"
  BY <1>4, <1>5 DEF tip
<1>7. {")", ".", "bad", "unended"} \cap Starters = {}
  BY ParserAssumption DEF Starters
<1>8. x # 0 /\ Plain(nodes, x) /\ Peek \in {")", "."} /\ Stk = <<>>
  BY <1>5, <1>6, <1>7
<1>9. /\ Front(calls) \in Seq(Call) /\ AllWait(nodes, Front(calls)) /\ Ordered(Front(calls))
      /\ O = Open(Front(calls)) \cup Elems(Stk) /\ O \subseteq 1..Len(nodes)
  BY ParseFacts
<1>10. O = Open(Front(calls)) /\ O \subseteq Nat
  BY <1>8, <1>9, ElemsFacts
<1> HIDE DEF O
<1>11. ~Plain(nodes, x)
  BY <1>3, <1>8, <1>9, <1>10, TopWaits
<1> QED
  BY <1>8, <1>11

-----------------------------------------------------------------------------

\* No datum is refused where match(RPAREN) throws.
LEMMA RefusedMatching ==
  ASSUME TypeOK, Shape, Finished(nodes, Open(calls)), Spelled, Matching, Peek # ")"
  PROVE  ~HasDatum(input, Origin)
<1> SUFFICES ASSUME HasDatum(input, Origin) PROVE FALSE
  OBVIOUS
<1> DEFINE O == Open(calls)
           y == Last(Stk)
<1>1. pc = "return" /\ calls # <<>> /\ Last(calls).wait = "dot"
  BY DEF Matching
<1>2. PICK tip : /\ tip <= pos + 1 /\ Covered(nodes, O, tip)
                 /\ Texts(nodes)[ret] = SubSeq(input, tip, pos)
  BY <1>1 DEF Spelled, Lost, Followed
<1>3. tip \in Places /\ \E x : Top(O, x) /\ GoesOn(nodes, x, tip)
  BY <1>1, <1>2, DatumGoesOn
<1>4. PICK x : Top(O, x) /\ GoesOn(nodes, x, tip)
  BY <1>3
<1>5. /\ Half(nodes, y, "dot") /\ y \in 1..Len(nodes)
      /\ O = Open(Front(calls)) \cup Elems(Front(Stk)) \cup {y}
      /\ Before(Open(Front(calls)) \cup Elems(Front(Stk)), {y})
  BY <1>1, WaitFacts, TopFacts
<1>6. /\ input \in Seq(Tokens) /\ Len(input) \in Nat /\ pos \in 0..Len(input)
      /\ Peek # "EOF" => Peek = input[pos + 1]
      /\ Peek = "EOF" <=> pos = Len(input)
  BY PeekFacts DEF TypeOK
<1>7. /\ Acyclic(nodes) /\ Unshared(nodes, O) /\ Finished(nodes, O) /\ O \subseteq 1..Len(nodes)
      /\ Len(nodes) \in Nat /\ ret \in 0..Len(nodes)
  BY DEF Shape, TypeOK
<1>8. x = y
  BY <1>4, <1>5, <1>7 DEF Top, Spine, Before
<1>9. ret \notin O
  <2>1. CASE ret = Garbage
    BY <1>7, <2>1 DEF Garbage
  <2>2. CASE ret # Garbage
    <3>1. Before(O, {ret})
      BY <1>1, <2>2 DEF Shape
    <3>2. ret \in O => ret < ret
      BY <3>1 DEF Before
    <3> QED
      BY <1>7, <3>2
  <2> QED
    BY <2>1, <2>2
<1>10. Stands(Texts(nodes)[ret])
  BY <1>6, <1>7, <1>9, ClosedStands
<1>11. \E b \in tip..(Len(input) - 1) : IsDatum(input, tip, b) /\ input[b + 1] = ")"
  <2>1. ~Plain(nodes, x)
    BY <1>5, <1>8 DEF Half, Plain
  <2> QED
    BY <1>4, <1>5, <1>8, <2>1 DEF GoesOn
<1>12. PICK b \in tip..(Len(input) - 1) : IsDatum(input, tip, b) /\ input[b + 1] = ")"
  BY <1>11
<1>13. b \in tip..Len(input) /\ b # Len(input)
  BY <1>3, <1>6 DEF Places
<1>14. b = pos
  <2> DEFINE t == Texts(nodes)[ret]
  <2>1. Stands(t) /\ t = SubSeq(input, tip, pos)
    BY <1>2, <1>10
  <2> HIDE DEF t
  <2>2. \A c \in tip..Len(input) : IsDatum(input, tip, c) => c = pos
    BY <1>3, <1>6, <2>1 DEF Stands
  <2> QED
    BY <1>12, <1>13, <2>2
<1> QED
  BY <1>6, <1>12, <1>13, <1>14

\* What the last form leaves is a place.
LEMMA OriginPlace ==
  ASSUME TypeOK
  PROVE  Origin \in Nat
<1>1. Len(forms) \in Nat /\ \A k \in 1..Len(forms) : forms[k] \in Form
  BY DEF TypeOK
<1>2. \A f \in Form : f.end \in Nat
  BY DEF Form
<1> QED
  BY <1>1, <1>2 DEF Origin, StartOf

-----------------------------------------------------------------------------

\* Without open lists, nothing has been read since the last form.
LEMMA NoOpen ==
  ASSUME input \in Seq(Tokens), NEW ns, NEW tip
  PROVE  /\ tip = Origin /\ tip \in Places => Covered(ns, {}, tip)
         /\ Covered(ns, {}, tip) => tip = Origin
<1>0. Spine({}) = {0} /\ Top({}, 0) /\ (\A x, y : ~Adjacent({}, x, y))
      /\ (\A x : Top({}, x) => x = 0)
  BY DEF Spine, Top, Adjacent
<1>1. Opening(ns, 0) = <<>>
  BY DEF Opening, Garbage
<1>2. ASSUME tip = Origin, tip \in Places PROVE Covered(ns, {}, tip)
  <2> DEFINE at == [x \in Spine({}) |-> tip]
  <2>1. at[0] = tip /\ at \in [Spine({}) -> Places]
    BY <1>0, <1>2
  <2> HIDE DEF at
  <2>2. SubSeq(input, tip, tip - 1) = <<>> /\ tip <= tip
    BY <1>2, JoinOne DEF Places
  <2>3. Chain(ns, {}, at, tip)
    BY <1>0, <1>1, <1>2, <2>1, <2>2 DEF Chain
  <2> QED
    BY <1>2, <2>1, <2>3 DEF Covered
<1>3. ASSUME Covered(ns, {}, tip) PROVE tip = Origin
  <2>1. PICK at : at[0] = Origin /\ Chain(ns, {}, at, tip)
    BY <1>3 DEF Covered
  <2>2. /\ at[0] \in Places /\ tip \in Places /\ at[0] <= tip
        /\ Opening(ns, 0) = SubSeq(input, at[0], tip - 1)
    BY <1>0, <2>1 DEF Chain
  <2> DEFINE i == at[0]
             s == SubSeq(input, i, tip - 1)
  <2>3. i \in Nat \ {0} /\ tip \in Nat \ {0} /\ tip - 1 \in 0..Len(input) /\ Len(input) \in Nat
        /\ i <= tip
    BY <2>2 DEF Places
  <2>4. s = <<>>
    BY <1>1, <2>2
  <2> HIDE DEF i
  <2>5. Len(s) = tip - i
    BY <2>3
  <2> HIDE DEF s
  <2>6. Len(s) = 0
    BY <2>4
  <2>7. i = tip
    BY <2>3, <2>5, <2>6
  <2> QED
    BY <2>1, <2>7 DEF i
<1> QED
  BY <1>2, <1>3

\* The end of the input: what is lost there is no datum.
LEMMA SpelledEndOfInput ==
  ASSUME TypeOK, Shape, Finished(nodes, Open(calls)), Spelled, EndOfInput
  PROVE  Spelled'
<1>1. /\ pc = "parse" /\ Peek = "EOF" /\ UNCHANGED <<input, forms>> /\ pos' = pos /\ nodes' = nodes
      /\ (pc' = "return" /\ ret' = Garbage) \/ pc' = "crash"
  BY DEF EndOfInput, Return
<1>2. ~HasDatum(input, Origin)
  BY <1>1, RefusedReading
<1>3. Spells(nodes', input, forms) /\ Lost(pos')
  BY <1>1, <1>2, PeekFacts DEF Spelled, Lost
<1>4. Texts(nodes)[0] = <<"garbage">>
  BY TextsFacts DEF Shape
<1>5. Ruined(<<"garbage">>)
  BY DEF Ruined
<1>6. pc' = "return" => Ruined(Texts(nodes')[ret'])
  BY <1>1, <1>4, <1>5 DEF Garbage
<1> QED
  BY <1>1, <1>2, <1>3, <1>6, SpelledNext

\* main() peeks at what follows a form.
LEMMA SpelledMainLoop ==
  ASSUME TypeOK, Shape, Spelled, MainLoop
  PROVE  Spelled'
<1> DEFINE e == [stk |-> <<>>, wait |-> "none"]
<1>1. /\ pc = "main" /\ UNCHANGED <<input, forms>> /\ pos' = pos /\ nodes' = nodes
      /\ \/ pc' = "exit"
         \/ pc' = "parse" /\ calls' = <<e>>
  BY DEF MainLoop
<1>2. /\ input \in Seq(Tokens) /\ Len(input) \in Nat /\ pos \in 0..Len(input)
  BY PeekFacts DEF TypeOK
<1>3. Spells(nodes', input, forms) /\ pos = Origin - 1
  BY <1>1 DEF Spelled
<1>4. Origin \in Nat /\ pos + 1 = Origin /\ pos + 1 \in Places
  <2>1. forms \in Seq(Form)
    BY DEF TypeOK
  <2>2. Len(forms) \in Nat /\ \A k \in 1..Len(forms) : forms[k].end \in Nat
    <3>1. Len(forms) \in Nat /\ \A k \in 1..Len(forms) : forms[k] \in Form
      BY <2>1
    <3>2. \A f \in Form : f.end \in Nat
      BY DEF Form
    <3> QED
      BY <3>1, <3>2
  <2>3. Origin \in Nat
    BY <2>2 DEF Origin, StartOf
  <2> QED
    BY <1>2, <1>3, <2>3 DEF Places
<1>5. Open(<<e>>) = {}
  <2>1. e \in Call /\ e.stk = <<>>
    BY DEF Call
  <2>2. <<e>> = Append(<<>>, e) /\ <<>> \in Seq(Call)
    OBVIOUS
  <2> HIDE DEF e
  <2>3. Open(Append(<<>>, e)) = Open(<<>>) \cup Elems(e.stk)
    BY <2>1, <2>2, OpenFacts
  <2> QED
    BY <2>1, <2>2, <2>3, OpenFacts, ElemsFacts
<1>6. Covered(nodes, {}, pos + 1)
  <2> DEFINE tip == pos + 1
  <2>1. tip = Origin /\ tip \in Places
    BY <1>4
  <2> HIDE DEF tip
  <2>2. Covered(nodes, {}, tip)
    BY <1>2, <2>1, NoOpen
  <2> QED
    BY <2>2 DEF tip
<1>7. pc' = "parse" => Covered(nodes', Open(calls'), pos' + 1)
  BY <1>1, <1>5, <1>6
<1> QED
  BY <1>1, <1>3, <1>7, SpelledNext

\* main() takes a form.
LEMMA SpelledTake ==
  ASSUME TypeOK, Shape, Spelled, Take
  PROVE  Spelled'
<1> DEFINE f == [node |-> ret, end |-> pos]
           L == Len(forms)
<1>1. /\ pc = "return" /\ calls = <<>> /\ pc' = "main" /\ forms' = Append(forms, f)
      /\ input' = input /\ pos' = pos /\ nodes' = nodes
  BY DEF Take
<1>2. /\ input \in Seq(Tokens) /\ Len(input) \in Nat /\ pos \in 0..Len(input)
      /\ forms \in Seq(Form) /\ ret \in Nat
  BY PeekFacts DEF TypeOK
<1>3. f \in Form /\ f.node = ret /\ f.end = pos
  BY <1>2 DEF Form
<1> HIDE DEF f
<1>4. /\ Len(forms') = L + 1 /\ L \in Nat /\ forms'[L + 1] = f
      /\ \A k \in 1..L : forms'[k] = forms[k]
  BY <1>1, <1>2, <1>3
<1> HIDE DEF L
<1>5. \A k \in 1..(L + 1) : StartOf(forms', k) = StartOf(forms, k)
  <2> SUFFICES ASSUME NEW k \in 1..(L + 1) PROVE StartOf(forms', k) = StartOf(forms, k)
    OBVIOUS
  <2>1. k # 1 => k - 1 \in 1..L
    BY <1>4
  <2> QED
    BY <1>4, <2>1 DEF StartOf
<1>6. Origin = StartOf(forms, L + 1) + 1 /\ Origin' = pos + 1
  <2>1. Origin' = StartOf(forms', (L + 1) + 1) + 1
    BY <1>4 DEF Origin
  <2>2. StartOf(forms', (L + 1) + 1) = pos
    BY <1>3, <1>4 DEF StartOf
  <2> QED
    BY <2>1, <2>2 DEF Origin, L
<1>7. Open(calls) = {}
  BY <1>1, OpenFacts
<1>8. \/ Ruined(Texts(nodes)[ret]) /\ ~HasDatum(input, StartOf(forms, L + 1) + 1)
      \/ Texts(nodes)[ret] = SubSeq(input, StartOf(forms, L + 1) + 1, pos)
  <2>1. \/ Ruined(Texts(nodes)[ret]) /\ ~HasDatum(input, Origin)
        \/ Followed(nodes, {}, ret, pos)
    BY <1>1, <1>7 DEF Spelled, Lost
  <2>2. ASSUME Followed(nodes, {}, ret, pos)
        PROVE  Texts(nodes)[ret] = SubSeq(input, Origin, pos)
    <3>1. PICK tip : Covered(nodes, {}, tip) /\ Texts(nodes)[ret] = SubSeq(input, tip, pos)
      BY <2>2 DEF Followed
    <3>2. tip = Origin
      BY <1>2, <3>1, NoOpen
    <3> QED
      BY <3>1, <3>2
  <2> QED
    BY <1>6, <2>1, <2>2
<1>9. Spells(nodes, input, forms)
  BY DEF Spelled
<1>10. Spells(nodes, input, forms')
  <2> SUFFICES ASSUME NEW k \in 1..Len(forms')
               PROVE  \/ /\ Ruined(Texts(nodes)[forms'[k].node])
                         /\ ~HasDatum(input, StartOf(forms', k) + 1)
                      \/ Texts(nodes)[forms'[k].node]
                           = SubSeq(input, StartOf(forms', k) + 1, forms'[k].end)
    BY DEF Spells
  <2>1. k \in 1..(L + 1) /\ StartOf(forms', k) = StartOf(forms, k)
    BY <1>4, <1>5
  <2>2. CASE k = L + 1
    BY <1>3, <1>4, <1>8, <2>1, <2>2
  <2>3. CASE k # L + 1
    <3>1. k \in 1..L /\ forms'[k] = forms[k]
      BY <1>4, <2>1, <2>3
    <3> QED
      BY <1>9, <2>1, <3>1 DEF Spells, L
  <2> QED
    BY <2>2, <2>3
<1>11. Spells(nodes, input, forms)'
  BY <1>1, <1>10
<1>12. (pc = "main" => pos = Origin - 1)'
  BY <1>1, <1>2, <1>6
<1> QED
  BY <1>1, <1>11, <1>12 DEF Spelled

\* No datum is refused before it is read.
LEMMA RefusedFirst ==
  ASSUME TypeOK, Spelled, pc = "main", Peek \in {"bad", "unended"}
  PROVE  ~HasDatum(input, Origin)
<1>1. /\ Len(input) \in Nat /\ pos \in Nat
      /\ pos + 1 \in 1..Len(input) /\ input[pos + 1] \in {"bad", "unended"}
  BY PeekFacts DEF TypeOK
<1>2. pos + 1 = Origin
  BY <1>1, OriginPlace DEF Spelled
<1>3. Origin \in 1..(Len(input) + 1) /\ input[Origin] \in {"bad", "unended"}
  BY <1>1, <1>2
<1>4. {"bad", "unended"} \cap Starters = {}
  BY ParserAssumption DEF Starters
<1>5. \A b \in Origin..Len(input) : ~IsDatum(input, Origin, b)
  <2> SUFFICES ASSUME NEW b \in Origin..Len(input) PROVE ~IsDatum(input, Origin, b)
    OBVIOUS
  <2>1. b \in 0..Len(input)
    BY <1>3
  <2> DEFINE a == Origin
  <2>2. a \in 1..(Len(input) + 1) /\ input[a] \notin Starters
    BY <1>3, <1>4
  <2> HIDE DEF a
  <2>3. ~IsDatum(input, a, b)
    BY <1>1, <2>1, <2>2, FirstToken
  <2> QED
    BY <2>3 DEF a
<1> QED
  BY <1>5 DEF HasDatum

\* Every step keeps what the stacks spell.
LEMMA SpelledStep ==
  ASSUME TypeOK, Shape, Finished(nodes, Open(calls)), Spelled, Next
  PROVE  Spelled'
<1>1. CASE LexerError \/ Endless \/ Unexpected \/ Mismatch
  <2>1. pc' \in {"error", "endless"} /\ nodes' = nodes /\ UNCHANGED <<input, forms>>
    BY <1>1 DEF LexerError, Endless, Unexpected, Mismatch, Throws
  <2>2. Spells(nodes', input, forms)
    BY <2>1 DEF Spelled
  <2>3. ~HasDatum(input, Origin)
    <3>1. CASE (LexerError \/ Endless) /\ pc = "main"
      BY <3>1, RefusedFirst DEF LexerError, Endless
    <3>2. CASE ((LexerError \/ Endless) /\ pc = "parse") \/ Unexpected
      BY <3>2, RefusedReading DEF LexerError, Endless, Unexpected
    <3>3. CASE ((LexerError \/ Endless) /\ Matching) \/ Mismatch
      BY <3>3, RefusedMatching DEF LexerError, Endless, Mismatch
    <3> QED
      BY <1>1, <3>1, <3>2, <3>3 DEF LexerError, Endless, Asking
  <2> QED
    BY <2>1, <2>2, <2>3, SpelledNext
<1> QED
  BY <1>1, SpelledDatum, SpelledOpenList, SpelledCloseList, SpelledQuote, SpelledDot,
     SpelledAfterQuote, SpelledAfterDot, SpelledEndOfInput, SpelledMainLoop, SpelledTake DEF Next

(***************************************************************************)
(* The shape of the stacks, the lists that are complete, and what the stacks *)
(* spell, at every moment.                                                  *)
(***************************************************************************)
LEMMA SpelledInv == Spec => [](TypeOK /\ Shape /\ Finished(nodes, Open(calls)) /\ Spelled)
<1>1. Init => Spelled
  BY DEF Init, Spelled, Spells, Origin, StartOf
<1>2. TypeOK /\ Shape /\ Finished(nodes, Open(calls)) /\ Spelled /\ [Next]_vars => Spelled'
  <2> SUFFICES ASSUME TypeOK, Shape, Finished(nodes, Open(calls)), Spelled, [Next]_vars
               PROVE  Spelled'
    OBVIOUS
  <2>1. CASE UNCHANGED vars
    <3>1. /\ nodes' = nodes /\ input' = input /\ forms' = forms /\ calls' = calls
          /\ pos' = pos /\ pc' = pc /\ ret' = ret /\ fetched' = fetched
      BY <2>1 DEF vars
    <3>2. Origin' = Origin /\ Spells(nodes, input, forms)' = Spells(nodes, input, forms)
      BY <3>1 DEF Origin, Spells
    <3>3. Lost(pos)' = Lost(pos)
      BY <3>1, <3>2 DEF Lost
    <3>4. \A tip : Covered(nodes, Open(calls), tip)' = Covered(nodes, Open(calls), tip)
      BY <3>1, <3>2 DEF Covered, Chain, Places
    <3>5. Followed(nodes, Open(calls), ret, pos)' = Followed(nodes, Open(calls), ret, pos)
      BY <3>1, <3>4 DEF Followed
    <3> QED
      BY <3>1, <3>2, <3>3, <3>4, <3>5 DEF Spelled
  <2> QED
    BY <2>1, SpelledStep
<1> QED
  BY <1>1, <1>2, FinishedInv, PTL DEF Spec

(***************************************************************************)
(* Every variable of the parser keeps its type: the stacks hold nodes, and   *)
(* consume() is never ahead of the tokens taken from the lexer.              *)
(***************************************************************************)
THEOREM ParserTypes == Spec => []TypeOK
<1> QED
  BY ShapeInv, PTL

(***************************************************************************)
(* Each datum that parseSExp hands to main() stands for exactly the tokens   *)
(* consumed for it, for every input, nesting and number of forms.            *)
(***************************************************************************)
THEOREM DatumSpelled == Spec => []RoundTrip
<1>1. Spelled => RoundTrip
  BY RoundTripIs DEF Spelled
<1> QED
  BY <1>1, SpelledInv, PTL

(***************************************************************************)
(* A complete datum is returned to main() with the lookahead empty: peekToken *)
(* has not asked the lexer for a token behind it.                            *)
(***************************************************************************)
THEOREM NothingReadAhead == Spec => []NoReadAhead
<1>1. Spelled => NoReadAhead
  BY BrokenIs DEF Spelled, NoReadAhead
<1> QED
  BY <1>1, SpelledInv, PTL

\* What the form nodes stand for.
LEMMA FormStands ==
  ASSUME TypeOK, Shape, Finished(nodes, Open(calls)), NEW k \in 1..Len(forms)
  PROVE  Stands(Texts(nodes)[forms[k].node])
<1>1. /\ input \in Seq(Tokens) /\ Acyclic(nodes) /\ Unshared(nodes, Open(calls))
      /\ forms[k].node \in (0..Len(nodes)) \ Open(calls)
  BY PeekFacts DEF Shape
<1> DEFINE O == Open(calls)
<1>2. Unshared(nodes, O) /\ Finished(nodes, O) /\ forms[k].node \in (0..Len(nodes)) \ O
  BY <1>1
<1> HIDE DEF O
<1> QED
  BY <1>1, <1>2, ClosedStands

\* A form ends in the input.
Ended == \A k \in 1..Len(forms) : forms[k].end \in 0..Len(input)

\* The form that main() takes ends where it has read to.
LEMMA EndedInv == Spec => [](TypeOK /\ Ended)
<1>1. Init => Ended
  BY DEF Init, Ended
<1>2. TypeOK /\ Ended /\ [Next]_vars => Ended'
  <2> SUFFICES ASSUME TypeOK, Ended, [Next]_vars PROVE Ended'
    OBVIOUS
  <2>1. CASE Take
    <3> DEFINE f == [node |-> ret, end |-> pos]
    <3>1. forms' = Append(forms, f) /\ input' = input
      BY <2>1 DEF Take
    <3>2. forms \in Seq(Form) /\ f \in Form /\ f.end \in 0..Len(input)
      BY DEF TypeOK, Form
    <3> HIDE DEF f
    <3>3. ASSUME NEW k \in 1..Len(Append(forms, f))
          PROVE  Append(forms, f)[k].end \in 0..Len(input)
      <4>1. \/ k \in 1..Len(forms) /\ Append(forms, f)[k] = forms[k]
            \/ Append(forms, f)[k] = f
        BY <3>2
      <4> QED
        BY <3>2, <4>1 DEF Ended
    <3> QED
      BY <3>1, <3>3 DEF Ended
  <2>2. CASE UNCHANGED <<forms, input>>
    BY <2>2 DEF Ended
  <2>3. Take \/ UNCHANGED <<forms, input>>
    BY DEF Next, vars, Datum, OpenList, CloseList, Quote, Dot, AfterQuote, AfterDot, LexerError,
           Endless, Unexpected, Mismatch, EndOfInput, MainLoop, Throws
  <2> QED
    BY <2>1, <2>2, <2>3
<1> QED
  BY <1>1, <1>2, ShapeInv, PTL DEF Spec

\* Where a form starts and ends.
LEMMA FormPlaces ==
  ASSUME TypeOK, Ended, NEW k \in 1..Len(forms)
  PROVE  StartOf(forms, k) + 1 \in Places /\ forms[k].end \in 0..Len(input) /\ Start(k) = StartOf(forms, k)
<1>1. Len(forms) \in Nat /\ Len(input) \in Nat /\ \A j \in 1..Len(forms) : forms[j].end \in 0..Len(input)
  BY PeekFacts DEF TypeOK, Ended
<1>2. k # 1 => k - 1 \in 1..Len(forms)
  BY <1>1
<1>3. StartOf(forms, k) \in 0..Len(input)
  BY <1>1, <1>2 DEF StartOf
<1> QED
  BY <1>1, <1>3 DEF StartOf, Start, Places

(***************************************************************************)
(* parseSExp never refuses a datum: where it throws, is never answered by the *)
(* lexer, runs off the end of its loop or returns what nobody assigned, no    *)
(* datum starts behind the last good form, for every input, nesting and      *)
(* number of forms.                                                         *)
(***************************************************************************)
THEOREM NoDatumRefused == Spec => []DataAccepted
<1>1. TypeOK /\ Shape /\ Finished(nodes, Open(calls)) /\ Spelled /\ Ended => DataAccepted
  <2> SUFFICES ASSUME TypeOK, Shape, Finished(nodes, Open(calls)), Spelled, Ended
               PROVE  DataAccepted
    OBVIOUS
  <2>1. pc \in {"error", "endless", "crash"} => ~HasDatum(input, Start(Len(forms) + 1) + 1)
    BY DEF Spelled, Origin, StartOf, Start
  <2>2. ASSUME NEW k \in 1..Len(forms), Broken(forms[k].node)
        PROVE  ~HasDatum(input, Start(k) + 1)
    <3> DEFINE t == Texts(nodes)[forms[k].node]
               i == StartOf(forms, k) + 1
               j == forms[k].end
    <3>1. Stands(t) /\ i \in Places /\ j \in 0..Len(input) /\ Start(k) + 1 = i
      BY FormStands, FormPlaces
    <3>2. Ruined(t)
      BY <2>2, BrokenIs
    <3>3. (Ruined(t) /\ ~HasDatum(input, i)) \/ t = SubSeq(input, i, j)
      BY DEF Spelled, Spells
    <3> HIDE DEF t, i, j
    <3>4. t # SubSeq(input, i, j)
      <4> SUFFICES ASSUME t = SubSeq(input, i, j) PROVE FALSE
        OBVIOUS
      <4>1. i <= j /\ input \in Seq(Tokens)
        BY <3>1, PeekFacts DEF Stands
      <4>2. i <= j + 1
        BY <3>1, <4>1 DEF Places
      <4>3. t \in Seq(Tokens)
        BY <3>1, <4>1, <4>2, PartFacts
      <4>4. "garbage" \in Tokens
        <5>1. PICK m \in 1..Len(t) : t[m] = "garbage"
          BY <3>2 DEF Ruined
        <5>2. t[m] \in Tokens
          BY <4>3, <5>1, ElementOfSeq
        <5> QED
          BY <5>1, <5>2
      <4> QED
        BY <4>4, ParserAssumption DEF Tokens
    <3> QED
      BY <3>1, <3>3, <3>4
  <2> QED
    BY <2>1, <2>2 DEF DataAccepted
<1> QED
  BY <1>1, SpelledInv, EndedInv, PTL

(***************************************************************************)
(* parseSExp hands nothing to main() that is no datum of R5RS 7.1.2, except a *)
(* broken node at the end of input and lists that start with a dot.          *)
(***************************************************************************)
THEOREM OnlyDataAccepted == Spec => []OnlyData
<1>1. TypeOK /\ Shape /\ Finished(nodes, Open(calls)) /\ Spelled /\ Ended => OnlyData
  <2> SUFFICES ASSUME TypeOK, Shape, Finished(nodes, Open(calls)), Spelled, Ended,
                      NEW k \in 1..Len(forms), ~Broken(forms[k].node),
                      ~EmptyDotted(Start(k) + 1, forms[k].end)
               PROVE  IsDatum(input, Start(k) + 1, forms[k].end)
    BY DEF OnlyData
  <2> DEFINE t == Texts(nodes)[forms[k].node]
             i == StartOf(forms, k) + 1
             j == forms[k].end
  <2>1. Stands(t) /\ i \in Places /\ j \in 0..Len(input) /\ Start(k) + 1 = i
    BY FormStands, FormPlaces
  <2>2. t = SubSeq(input, i, j)
    BY BrokenIs DEF Spelled, Spells
  <2> HIDE DEF t
  <2>3. ~EmptyDotted(i, j) => IsDatum(input, i, j)
    BY <2>1, <2>2 DEF Stands
  <2> QED
    BY <2>1, <2>3
<1> QED
  BY <1>1, SpelledInv, EndedInv, PTL
=============================================================================
