----------------------------- MODULE Recursion -----------------------------
(***************************************************************************)
(* Induction and recursion over the naturals, stated without operator       *)
(* parameters: what the proofs about recursive definitions rest on.         *)
(***************************************************************************)
EXTENDS Integers, Sequences, WellFoundedInduction, TLAPS

\* Every nonempty set of naturals has a least element.
LEMMA LeastNatural ==
  ASSUME NEW M \in SUBSET Nat, M # {}
  PROVE  \E m \in M : \A j \in M : m <= j
<1>1. PICK x \in M : \A y \in M : ~(<<y, x>> \in OpToRel(<, Nat))
  BY NatLessThanWellFounded, WFMin, Zenon
<1>2. ASSUME NEW y \in M PROVE x <= y
  <2>1. x \in Nat /\ y \in Nat
    OBVIOUS
  <2>2. y < x => <<y, x>> \in OpToRel(<, Nat)
    BY <2>1 DEF OpToRel
  <2>3. ~(y < x)
    BY <1>1, <2>2, Zenon
  <2> QED
    BY <2>1, <2>3
<1> QED
  BY <1>1, <1>2

\* A set of naturals that has every number whose predecessors it has is Nat.
LEMMA NatSetInduction ==
  ASSUME NEW P, \A n \in Nat : (\A m \in 0..(n - 1) : m \in P) => n \in P
  PROVE  Nat \subseteq P
<1> SUFFICES ASSUME Nat \ P # {} PROVE FALSE
  OBVIOUS
<1>1. PICK n \in Nat \ P : \A j \in Nat \ P : n <= j
  BY LeastNatural
<1>2. \A m \in 0..(n - 1) : m \in P
  BY <1>1
<1> QED
  BY <1>1, <1>2

(***************************************************************************)
(* A definition F[h] == G[h][F] by recursion on 0..L, where G[h] looks at     *)
(* nothing but the values of F below h, defines a function.                  *)
(***************************************************************************)
Functionals(L, X) == [0..L -> [[0..L -> X] -> X]]

LooksBelow(G, L, X) ==
  \A h \in 0..L, f, g \in [0..L -> X] :
    (\A j \in 0..(h - 1) : f[j] = g[j]) => G[h][f] = G[h][g]

Fixpoint(F, G, L, X) == F \in [0..L -> X] /\ \A h \in 0..L : F[h] = G[h][F]

\* Such a definition has a solution.
LEMMA RecursiveFunction ==
  ASSUME NEW L \in Nat, NEW X, X # {}, NEW G \in Functionals(L, X), LooksBelow(G, L, X)
  PROVE  \E F : Fixpoint(F, G, L, X)
<1> DEFINE Upto(m) == \E F \in [0..L -> X] : \A h \in 0..m : F[h] = G[h][F]
           P == {m \in Nat : m <= L => Upto(m)}
<1>1. ASSUME NEW n \in Nat, \A m \in 0..(n - 1) : m \in P
      PROVE  n \in P
  <2> SUFFICES ASSUME n <= L PROVE Upto(n)
    OBVIOUS
  <2>1. PICK f \in [0..L -> X] : \A h \in 0..(n - 1) : f[h] = G[h][f]
    <3>1. CASE n = 0
      <4>1. PICK x \in X : TRUE
        OBVIOUS
      <4>2. [h \in 0..L |-> x] \in [0..L -> X]
        OBVIOUS
      <4>3. \A h \in 0..(n - 1) : FALSE
        BY <3>1
      <4> QED
        BY <4>2, <4>3
    <3>2. CASE n # 0
      <4>1. n - 1 \in 0..(n - 1) /\ n - 1 <= L
        BY <3>2
      <4> HIDE DEF Upto
      <4>2. Upto(n - 1)
        BY <1>1, <4>1
      <4> QED
        BY <4>2 DEF Upto
    <3> QED
      BY <3>1, <3>2
  <2> DEFINE g == [f EXCEPT ![n] = G[n][f]]
  <2>2. n \in 0..L /\ G[n][f] \in X
    BY DEF Functionals
  <2>3. g \in [0..L -> X] /\ g[n] = G[n][f] /\ \A j \in 0..(n - 1) : g[j] = f[j]
    BY <2>2
  <2> HIDE DEF g
  <2>4. ASSUME NEW h \in 0..n PROVE g[h] = G[h][g]
    <3>1. h \in 0..L /\ \A j \in 0..(h - 1) : g[j] = f[j]
      BY <2>3
    <3>2. G[h][g] = G[h][f]
      BY <2>3, <3>1 DEF LooksBelow
    <3> QED
      BY <2>1, <2>3, <3>2
  <2> QED
    BY <2>3, <2>4
<1> HIDE DEF P
<1>2. L \in P
  BY <1>1, NatSetInduction
<1> QED
  BY <1>2 DEF P, Fixpoint

\* A function on 1..n is a sequence of length n.
LEMMA FunctionIsSeq ==
  ASSUME NEW S, NEW n \in Nat, NEW s \in [1..n -> S]
  PROVE  s \in Seq(S) /\ Len(s) = n
  OBVIOUS

\* The length and the elements of a sequence.
LEMMA SeqFacts ==
  ASSUME NEW S, NEW s \in Seq(S)
  PROVE  Len(s) \in Nat /\ \A i \in 1..Len(s) : s[i] \in S
  OBVIOUS
=============================================================================
