----------------------------- MODULE HeapProofs -----------------------------
(***************************************************************************)
(* The runtime's heap, for heaps of any size and shape.  First lists: the     *)
(* loops of list?, length and list-ref answer for the list they are given,    *)
(* and no object refers to nothing.  Then strings and symbols, for any number *)
(* of them and any text; the theorems are at the end, since a behaviour has   *)
(* calls of both kinds.                                                     *)
(*                                                                         *)
(* The properties speak of Tails, a set found in as many rounds as there are  *)
(* objects.  TailsFacts says what that set is: the least one that follows the *)
(* cdrs.  Everything else about lists is derived from that.                  *)
(***************************************************************************)
EXTENDS Strings, Recursion, FiniteSetTheorems, SequenceTheorems

\* Heap's references as functions of the heap.
IsPair(h, y) == h[y].kind = "pair"
IsNil(h, y) == h[y].kind = "nil"
Cdr(h, y) == h[y].refs[2]
Car(h, y) == h[y].refs[1]

TailsIn(h, x) ==
  LET T[n \in 0..Len(h)] ==
        IF n = 0 THEN {x}
        ELSE T[n - 1] \cup {Cdr(h, y) : y \in {z \in T[n - 1] : IsPair(h, z)}}
  IN T[Len(h)]

EndsIn(h, x) == {y \in TailsIn(h, x) : ~IsPair(h, y)}
IsListIn(h, x) == \E y \in EndsIn(h, x) : IsNil(h, y)
LengthIn(h, x) == Cardinality(TailsIn(h, x)) - 1

ElementIn(h, x, k) ==
  Car(h, CHOOSE y \in TailsIn(h, x) : LengthIn(h, y) = LengthIn(h, x) - k)

\* Every object refers to objects.
ClosedHeap(h) ==
  \A x \in 1..Len(h) :
    /\ \A k \in 1..Len(h[x].refs) : h[x].refs[k] \in 1..Len(h)
    /\ h[x].kind = "pair" => Len(h[x].refs) = 2
    /\ h[x].kind = "vector" => h[x].val = Len(h[x].refs)

\* S has the cdr of each of its pairs.
Follows(h, S) == \A y \in S : IsPair(h, y) => Cdr(h, y) \in S

-----------------------------------------------------------------------------

\* The elements of a pair are objects.
LEMMA PairFacts ==
  ASSUME NEW h \in Seq(Object), ClosedHeap(h), NEW y \in 1..Len(h), IsPair(h, y)
  PROVE  Cdr(h, y) \in 1..Len(h) /\ Car(h, y) \in 1..Len(h)
<1>1. Len(h[y].refs) = 2
  BY DEF ClosedHeap, IsPair
<1>2. 1 \in 1..Len(h[y].refs) /\ 2 \in 1..Len(h[y].refs)
  BY <1>1
<1> QED
  BY <1>2 DEF ClosedHeap, Cdr, Car

(***************************************************************************)
(* The tails of x are the least set with x in it that follows the cdrs: as    *)
(* many rounds as there are objects find all of them.                        *)
(***************************************************************************)
LEMMA TailsFacts ==
  ASSUME NEW h \in Seq(Object), ClosedHeap(h), NEW x \in 1..Len(h)
  PROVE  /\ TailsIn(h, x) \subseteq 1..Len(h)
         /\ x \in TailsIn(h, x)
         /\ Follows(h, TailsIn(h, x))
         /\ \A S : x \in S /\ Follows(h, S) => TailsIn(h, x) \subseteq S
<1> DEFINE N == Len(h)
           X == SUBSET (1..N)
           Grown(A) == A \cup {Cdr(h, y) : y \in {z \in A : IsPair(h, z)}}
           E(n, f) == IF n = 0 THEN {x} ELSE Grown(f[n - 1])
           G == [n \in 0..N |-> [f \in [0..N -> X] |-> E(n, f)]]
           T == CHOOSE F : F = [n \in 0..N |-> E(n, F)]
<1>1. N \in Nat /\ X # {} /\ x \in 1..N
  <2>1. {} \in X
    OBVIOUS
  <2>2. N \in Nat /\ x \in 1..N
    OBVIOUS
  <2> HIDE DEF N, X
  <2> QED
    BY <2>1, <2>2
<1>2. \A A \in X : Grown(A) \in X
  BY PairFacts
<1> HIDE DEF Grown
<1>3. \A n \in 0..N, f \in [0..N -> X] : E(n, f) \in X
  BY <1>1, <1>2
<1>4. G \in Functionals(N, X)
  BY <1>3 DEF Functionals
<1>5. LooksBelow(G, N, X)
  <2>1. ASSUME NEW n \in 0..N, NEW f \in [0..N -> X], NEW g \in [0..N -> X],
               \A j \in 0..(n - 1) : f[j] = g[j]
        PROVE  E(n, f) = E(n, g)
    BY <1>1, <2>1
  <2> HIDE DEF E, X, N
  <2> QED
    BY <2>1 DEF LooksBelow
<1> HIDE DEF N
<1>6. PICK F : Fixpoint(F, G, N, X)
  <2> HIDE DEF G, X
  <2> QED
    BY <1>1, <1>4, <1>5, RecursiveFunction
<1>7. F = [n \in 0..N |-> E(n, F)]
  <2> HIDE DEF E, X
  <2> QED
    BY <1>6 DEF Fixpoint
<1>8. T = [n \in 0..N |-> E(n, T)]
  <2> HIDE DEF G
  <2> QED
    BY <1>7
<1>9. TailsIn(h, x) = T[N]
  BY DEF TailsIn, N, E, Grown
<1> HIDE DEF T, G
<1>10. T[0] = {x} /\ \A n \in 1..N : T[n] = Grown(T[n - 1])
  <2>1. \A n \in 0..N : T[n] = E(n, T)
    <3> HIDE DEF E
    <3> QED
      BY <1>8
  <2>2. 0 \in 0..N /\ \A n \in 1..N : n \in 0..N /\ n # 0
    BY <1>1
  <2> QED
    BY <2>1, <2>2
<1>11. \A A : A \subseteq Grown(A) /\ (Follows(h, A) => Grown(A) = A)
              /\ (Grown(A) = A => Follows(h, A))
  BY DEF Grown, Follows
<1>12. \A A, S : A \subseteq S /\ Follows(h, S) => Grown(A) \subseteq S
  BY DEF Grown, Follows
<1>13. \A n \in 0..N : /\ T[n] \subseteq 1..N /\ x \in T[n]
                       /\ Follows(h, T[n]) \/ Cardinality(T[n]) >= n + 1
                       /\ \A S : x \in S /\ Follows(h, S) => T[n] \subseteq S
  <2> DEFINE I(n) == /\ T[n] \subseteq 1..N /\ x \in T[n]
                     /\ Follows(h, T[n]) \/ Cardinality(T[n]) >= n + 1
                     /\ \A S : x \in S /\ Follows(h, S) => T[n] \subseteq S
             P == {n \in Nat : n <= N => I(n)}
  <2>1. I(0)
    <3>1. Cardinality({x}) = 1
      BY FS_Singleton
    <3>2. T[0] \subseteq 1..N /\ x \in T[0] /\ Cardinality(T[0]) >= 0 + 1
      BY <1>1, <1>10, <3>1
    <3>3. \A S : x \in S => T[0] \subseteq S
      BY <1>10
    <3> QED
      BY <3>2, <3>3
  <2>2. ASSUME NEW n \in 1..N, I(n - 1) PROVE I(n)
    <3>1. T[n] = Grown(T[n - 1]) /\ T[n - 1] \subseteq T[n]
      BY <1>10, <1>11
    <3>2. T[n] \subseteq 1..N /\ x \in T[n]
      BY <1>2, <2>2, <3>1
    <3>3. Follows(h, T[n - 1]) => Follows(h, T[n])
      BY <1>11, <3>1
    <3>4. ASSUME ~Follows(h, T[n - 1]) PROVE Cardinality(T[n]) >= n + 1
      <4>1. T[n] # T[n - 1]
        BY <1>11, <3>1, <3>4
      <4>2. IsFiniteSet(1..N)
        BY <1>1, FS_Interval
      <4>3. IsFiniteSet(T[n])
        BY <3>2, <4>2, FS_Subset
      <4>4. Cardinality(T[n]) \in Nat /\ Cardinality(T[n - 1]) \in Nat
            /\ Cardinality(T[n - 1]) < Cardinality(T[n])
        BY <3>1, <4>1, <4>3, FS_Subset, FS_CardinalityType
      <4>5. Cardinality(T[n - 1]) >= n
        BY <2>2, <3>4
      <4> QED
        BY <4>4, <4>5
    <3>5. \A S : x \in S /\ Follows(h, S) => T[n] \subseteq S
      BY <1>12, <2>2, <3>1
    <3> QED
      BY <3>2, <3>3, <3>4, <3>5, <2>2
  <2> HIDE DEF I
  <2>3. ASSUME NEW n \in Nat, \A m \in 0..(n - 1) : m \in P PROVE n \in P
    <3>1. CASE n = 0
      BY <2>1, <3>1
    <3>2. CASE n # 0 /\ n <= N
      <4>1. n - 1 \in 0..(n - 1) /\ n \in 1..N /\ n - 1 <= N
        BY <1>1, <3>2
      <4> QED
        BY <2>2, <2>3, <4>1
    <3> QED
      BY <3>1, <3>2
  <2> HIDE DEF P
  <2>4. Nat \subseteq P
    BY <2>3, NatSetInduction
  <2>5. \A n \in 0..N : I(n)
    BY <1>1, <2>4 DEF P
  <2> QED
    BY <2>5 DEF I
<1>14. N \in 0..N
  BY <1>1
<1>15. Follows(h, T[N])
  <2>1. T[N] \subseteq 1..N /\ (Follows(h, T[N]) \/ Cardinality(T[N]) >= N + 1)
    BY <1>13, <1>14
  <2>2. IsFiniteSet(1..N) /\ Cardinality(1..N) = N
    BY <1>1, FS_Interval
  <2>3. Cardinality(T[N]) \in Nat /\ Cardinality(T[N]) <= N
    BY <2>1, <2>2, FS_Subset, FS_CardinalityType
  <2> QED
    BY <1>1, <2>1, <2>3
<1> QED
  BY <1>9, <1>13, <1>14, <1>15 DEF N

-----------------------------------------------------------------------------

\* What is not a pair is its only tail; a pair comes before the tails of its cdr.
LEMMA TailsStep ==
  ASSUME NEW h \in Seq(Object), ClosedHeap(h), NEW x \in 1..Len(h)
  PROVE  /\ ~IsPair(h, x) => TailsIn(h, x) = {x}
         /\ IsPair(h, x) => TailsIn(h, x) = {x} \cup TailsIn(h, Cdr(h, x))
<1>1. x \in TailsIn(h, x) /\ Follows(h, TailsIn(h, x))
  BY TailsFacts
<1>2. ASSUME NEW S, x \in S, Follows(h, S) PROVE TailsIn(h, x) \subseteq S
  BY <1>2, TailsFacts
<1>3. ASSUME ~IsPair(h, x) PROVE TailsIn(h, x) = {x}
  <2>1. Follows(h, {x})
    BY <1>3 DEF Follows
  <2> QED
    BY <1>1, <1>2, <2>1
<1>4. ASSUME IsPair(h, x) PROVE TailsIn(h, x) = {x} \cup TailsIn(h, Cdr(h, x))
  <2>1. Cdr(h, x) \in 1..Len(h)
    BY <1>4, PairFacts
  <2>2. /\ Cdr(h, x) \in TailsIn(h, Cdr(h, x))
        /\ Follows(h, TailsIn(h, Cdr(h, x)))
        /\ \A S : Cdr(h, x) \in S /\ Follows(h, S) => TailsIn(h, Cdr(h, x)) \subseteq S
    BY <2>1, TailsFacts
  <2>3. TailsIn(h, Cdr(h, x)) \subseteq TailsIn(h, x)
    BY <1>1, <1>4, <2>2 DEF Follows
  <2>4. Follows(h, {x} \cup TailsIn(h, Cdr(h, x)))
    BY <2>2 DEF Follows
  <2>5. TailsIn(h, x) \subseteq {x} \cup TailsIn(h, Cdr(h, x))
    BY <1>2, <2>4
  <2> QED
    BY <1>1, <2>3, <2>5
<1> QED
  BY <1>3, <1>4

\* The tails of a tail are tails, and of two tails one is a tail of the other.
LEMMA TailsNest ==
  ASSUME NEW h \in Seq(Object), ClosedHeap(h), NEW x \in 1..Len(h),
         NEW y \in TailsIn(h, x)
  PROVE  /\ y \in 1..Len(h)
         /\ TailsIn(h, y) \subseteq TailsIn(h, x)
         /\ \A z \in TailsIn(h, x) : z \in TailsIn(h, y) \/ y \in TailsIn(h, z)
<1>1. y \in 1..Len(h)
  BY TailsFacts
<1>2. TailsIn(h, y) \subseteq TailsIn(h, x)
  <2>1. Follows(h, TailsIn(h, x))
    BY TailsFacts
  <2> QED
    BY <1>1, <2>1, TailsFacts
<1>3. ASSUME NEW z \in TailsIn(h, x)
      PROVE  z \in TailsIn(h, y) \/ y \in TailsIn(h, z)
  <2> DEFINE S == {w \in 1..Len(h) : z \in TailsIn(h, w) \/ w \in TailsIn(h, z)}
  <2>1. x \in S
    OBVIOUS
  <2>2. ASSUME NEW w \in S, IsPair(h, w) PROVE Cdr(h, w) \in S
    <3>1. Cdr(h, w) \in 1..Len(h) /\ z \in 1..Len(h)
      BY <2>2, PairFacts, TailsFacts
    <3>2. CASE w \in TailsIn(h, z)
      <4>1. Follows(h, TailsIn(h, z))
        BY <3>1, TailsFacts
      <4> QED
        BY <2>2, <3>1, <3>2, <4>1 DEF Follows
    <3>3. CASE z \in TailsIn(h, w) /\ w \notin TailsIn(h, z)
      <4>1. z = w \/ z \in TailsIn(h, Cdr(h, w))
        BY <2>2, <3>3, TailsStep
      <4>2. z # w
        BY <3>1, <3>3, TailsFacts
      <4> QED
        BY <3>1, <4>1, <4>2
    <3> QED
      BY <3>2, <3>3
  <2>3. Follows(h, S)
    BY <2>2 DEF Follows
  <2>4. TailsIn(h, x) \subseteq S
    <3> HIDE DEF S
    <3> QED
      BY <2>1, <2>3, TailsFacts
  <2> QED
    BY <2>4
<1> QED
  BY <1>1, <1>2, <1>3

\* A tail has the ends of the whole, of which there is one at most.
LEMMA EndsFacts ==
  ASSUME NEW h \in Seq(Object), ClosedHeap(h), NEW x \in 1..Len(h),
         NEW y \in TailsIn(h, x)
  PROVE  /\ EndsIn(h, y) = EndsIn(h, x)
         /\ IsListIn(h, y) <=> IsListIn(h, x)
         /\ ~IsPair(h, y) => EndsIn(h, x) = {y}
<1>1. y \in 1..Len(h) /\ TailsIn(h, y) \subseteq TailsIn(h, x)
  BY TailsNest
<1>2. ASSUME NEW e \in TailsIn(h, x), ~IsPair(h, e)
      PROVE  e \in TailsIn(h, y)
  <2>1. e \in TailsIn(h, y) \/ y \in TailsIn(h, e)
    BY TailsNest
  <2>2. e \in 1..Len(h) /\ TailsIn(h, e) = {e}
    BY <1>2, TailsNest, TailsStep
  <2> QED
    BY <1>1, <2>1, <2>2, TailsFacts
<1>3. EndsIn(h, y) = EndsIn(h, x)
  BY <1>1, <1>2 DEF EndsIn
<1>4. ~IsPair(h, y) => EndsIn(h, y) = {y}
  BY <1>1, TailsStep DEF EndsIn
<1> QED
  BY <1>3, <1>4 DEF IsListIn

\* A pair that is a tail of its own cdr has no end.
LEMMA NoReturn ==
  ASSUME NEW h \in Seq(Object), ClosedHeap(h), NEW x \in 1..Len(h),
         IsPair(h, x), x \in TailsIn(h, Cdr(h, x))
  PROVE  EndsIn(h, x) = {}
<1> DEFINE c == Cdr(h, x)
           S == {w \in 1..Len(h) : IsPair(h, w) /\ x \in TailsIn(h, w)}
<1>1. c \in 1..Len(h)
  BY PairFacts
<1>2. ASSUME NEW w \in 1..Len(h), x \in TailsIn(h, w) PROVE w \in S
  <2>1. IsPair(h, w)
    <3> SUFFICES ASSUME ~IsPair(h, w) PROVE FALSE
      OBVIOUS
    <3>1. TailsIn(h, w) = {w}
      BY TailsStep
    <3> QED
      BY <1>2, <3>1
  <2> QED
    BY <1>2, <2>1
<1>3. ASSUME NEW w \in S PROVE Cdr(h, w) \in S
  <2>1. w \in 1..Len(h) /\ Cdr(h, w) \in 1..Len(h)
    BY <1>3, PairFacts
  <2>2. x = w \/ x \in TailsIn(h, Cdr(h, w))
    BY <1>3, <2>1, TailsStep
  <2> HIDE DEF S
  <2> QED
    BY <1>2, <2>1, <2>2
<1>4. x \in S
  <2>1. x \in TailsIn(h, x)
    BY TailsFacts
  <2> HIDE DEF S
  <2> QED
    BY <1>2, <2>1
<1>5. Follows(h, S)
  BY <1>3 DEF Follows
<1>6. TailsIn(h, x) \subseteq S
  <2> HIDE DEF S
  <2> QED
    BY <1>4, <1>5, TailsFacts
<1> QED
  BY <1>6 DEF EndsIn

(***************************************************************************)
(* Lengths: each cdr makes a list that ends shorter by one, so that two tails *)
(* of the same length are the same.                                         *)
(***************************************************************************)
LEMMA LengthFacts ==
  ASSUME NEW h \in Seq(Object), ClosedHeap(h), NEW x \in 1..Len(h)
  PROVE  /\ LengthIn(h, x) \in Nat /\ LengthIn(h, x) < Len(h)
         /\ ~IsPair(h, x) => LengthIn(h, x) = 0
         /\ IsPair(h, x) /\ EndsIn(h, x) # {} =>
              LengthIn(h, x) = LengthIn(h, Cdr(h, x)) + 1
<1>1. Len(h) \in Nat /\ TailsIn(h, x) \subseteq 1..Len(h) /\ x \in TailsIn(h, x)
  BY TailsFacts
<1>2. IsFiniteSet(1..Len(h)) /\ Cardinality(1..Len(h)) = Len(h)
  <2> DEFINE N == Len(h)
  <2>1. N \in Nat
    OBVIOUS
  <2> HIDE DEF N
  <2>2. IsFiniteSet(1..N) /\ Cardinality(1..N) = N
    BY <2>1, FS_Interval
  <2> QED
    BY <2>2 DEF N
<1>3. IsFiniteSet(TailsIn(h, x)) /\ Cardinality(TailsIn(h, x)) <= Len(h)
  BY <1>1, <1>2, FS_Subset
<1>4. Cardinality(TailsIn(h, x)) \in Nat /\ Cardinality(TailsIn(h, x)) # 0
  BY <1>1, <1>3, FS_CardinalityType, FS_EmptySet
<1>5. ASSUME ~IsPair(h, x) PROVE LengthIn(h, x) = 0
  <2>1. TailsIn(h, x) = {x}
    BY <1>5, TailsStep
  <2>2. Cardinality({x}) = 1
    BY FS_Singleton
  <2> QED
    BY <2>1, <2>2 DEF LengthIn
<1>6. ASSUME IsPair(h, x), EndsIn(h, x) # {}
      PROVE  LengthIn(h, x) = LengthIn(h, Cdr(h, x)) + 1
  <2> DEFINE R == TailsIn(h, Cdr(h, x))
  <2>1. TailsIn(h, x) = R \cup {x}
    BY <1>6, TailsStep
  <2>2. x \notin R
    BY <1>6, NoReturn
  <2>3. IsFiniteSet(R)
    BY <1>3, <2>1, FS_Subset
  <2>4. Cardinality(R \cup {x}) = Cardinality(R) + 1 /\ Cardinality(R) \in Nat
    <3> HIDE DEF R
    <3> QED
      BY <2>2, <2>3, FS_AddElement, FS_CardinalityType
  <2> QED
    BY <2>1, <2>4 DEF LengthIn
<1> QED
  BY <1>1, <1>3, <1>4, <1>5, <1>6 DEF LengthIn

\* Longer tails have the shorter ones for tails.
LEMMA LengthTells ==
  ASSUME NEW h \in Seq(Object), ClosedHeap(h), NEW x \in 1..Len(h),
         NEW y \in TailsIn(h, x)
  PROVE  /\ LengthIn(h, y) <= LengthIn(h, x)
         /\ EndsIn(h, x) # {} /\ LengthIn(h, y) = LengthIn(h, x) => y = x
<1>1. y \in 1..Len(h) /\ TailsIn(h, y) \subseteq TailsIn(h, x)
  BY TailsNest
<1>2. IsFiniteSet(TailsIn(h, x))
  <2> DEFINE N == Len(h)
  <2>1. TailsIn(h, x) \subseteq 1..N /\ N \in Nat
    BY TailsFacts
  <2> HIDE DEF N
  <2>2. IsFiniteSet(1..N)
    BY <2>1, FS_Interval
  <2> QED
    BY <2>1, <2>2, FS_Subset
<1>3. /\ IsFiniteSet(TailsIn(h, y))
      /\ Cardinality(TailsIn(h, y)) <= Cardinality(TailsIn(h, x))
  BY <1>1, <1>2, FS_Subset
<1>4. Cardinality(TailsIn(h, y)) \in Nat /\ Cardinality(TailsIn(h, x)) \in Nat
  BY <1>2, <1>3, FS_CardinalityType
<1>5. ASSUME EndsIn(h, x) # {}, LengthIn(h, y) = LengthIn(h, x) PROVE y = x
  <2>1. TailsIn(h, y) = TailsIn(h, x)
    BY <1>1, <1>2, <1>4, <1>5, FS_Subset DEF LengthIn
  <2>2. x \in TailsIn(h, y) /\ (IsPair(h, x) => x \notin TailsIn(h, Cdr(h, x)))
    BY <1>5, <2>1, TailsFacts, NoReturn
  <2>3. CASE ~IsPair(h, x)
    BY <2>3, TailsStep
  <2>4. CASE IsPair(h, x) /\ y # x
    <3>1. Cdr(h, x) \in 1..Len(h) /\ y \in TailsIn(h, Cdr(h, x))
      BY <2>4, TailsStep, PairFacts
    <3>2. TailsIn(h, y) \subseteq TailsIn(h, Cdr(h, x))
      BY <3>1, TailsNest
    <3> QED
      BY <2>2, <2>4, <3>2
  <2> QED
    BY <2>3, <2>4
<1> QED
  BY <1>3, <1>4, <1>5 DEF LengthIn

\* Two tails of a list that ends are the same when their lengths are.
LEMMA SameLength ==
  ASSUME NEW h \in Seq(Object), ClosedHeap(h), NEW x \in 1..Len(h), EndsIn(h, x) # {},
         NEW y \in TailsIn(h, x), NEW z \in TailsIn(h, x),
         LengthIn(h, y) = LengthIn(h, z)
  PROVE  y = z
<1>1. y \in 1..Len(h) /\ z \in 1..Len(h) /\ (z \in TailsIn(h, y) \/ y \in TailsIn(h, z))
  BY TailsNest
<1>2. EndsIn(h, y) # {} /\ EndsIn(h, z) # {}
  BY EndsFacts
<1> QED
  BY <1>1, <1>2, LengthTells

-----------------------------------------------------------------------------

\* Objects that are made later are not among the tails of earlier ones.
LEMMA TailsKept ==
  ASSUME NEW h \in Seq(Object), ClosedHeap(h), NEW g \in Seq(Object), ClosedHeap(g),
         Len(h) <= Len(g), \A y \in 1..Len(h) : g[y] = h[y], NEW x \in 1..Len(h)
  PROVE  /\ TailsIn(g, x) = TailsIn(h, x)
         /\ EndsIn(g, x) = EndsIn(h, x)
         /\ IsListIn(g, x) <=> IsListIn(h, x)
         /\ LengthIn(g, x) = LengthIn(h, x)
<1>1. x \in 1..Len(g) /\ TailsIn(h, x) \subseteq 1..Len(h)
  BY TailsFacts
<1>2. \A y \in 1..Len(h) : /\ IsPair(g, y) <=> IsPair(h, y)
                           /\ IsNil(g, y) <=> IsNil(h, y)
                           /\ Cdr(g, y) = Cdr(h, y)
  BY DEF IsPair, IsNil, Cdr
<1>3. Follows(g, TailsIn(h, x))
  BY <1>1, <1>2, TailsFacts DEF Follows
<1>4. TailsIn(g, x) \subseteq TailsIn(h, x)
  BY <1>1, <1>3, TailsFacts
<1>5. Follows(h, TailsIn(g, x))
  BY <1>1, <1>2, <1>4, TailsFacts DEF Follows
<1>6. TailsIn(h, x) \subseteq TailsIn(g, x)
  BY <1>1, <1>5, TailsFacts
<1>7. TailsIn(g, x) = TailsIn(h, x)
  BY <1>4, <1>6
<1>8. EndsIn(g, x) = EndsIn(h, x)
  BY <1>1, <1>2, <1>7 DEF EndsIn
<1>9. IsListIn(g, x) <=> IsListIn(h, x)
  BY <1>1, <1>2, <1>8 DEF IsListIn, EndsIn
<1> QED
  BY <1>7, <1>8, <1>9 DEF LengthIn

-----------------------------------------------------------------------------

\* The properties speak of the present heap.
LEMMA InHeap ==
  /\ \A x : Tails(x) = TailsIn(heap, x) /\ Tails(x)' = TailsIn(heap', x)
  /\ \A x : Ends(x) = EndsIn(heap, x) /\ Ends(x)' = EndsIn(heap', x)
  /\ \A x : (IsList(x) <=> IsListIn(heap, x)) /\ (IsList(x)' <=> IsListIn(heap', x))
  /\ \A x : LengthOf(x) = LengthIn(heap, x) /\ LengthOf(x)' = LengthIn(heap', x)
  /\ \A x, k : /\ Element(x, k) = ElementIn(heap, x, k)
               /\ Element(x, k)' = ElementIn(heap', x, k)
  BY DEF Tails, Ends, IsList, LengthOf, Element, TailsIn, EndsIn, IsListIn, LengthIn,
         ElementIn, Is, IsPair, IsNil, cdr, car, Cdr, Car

\* Well-formed heaps, which have the globals at least.
HeapIn(h) == h \in Seq(Object) /\ ClosedHeap(h) /\ Len(h) >= 3

HeapOK == HeapIn(heap) /\ program \in Programs /\ Len(heap) <= program.max

(***************************************************************************)
(* The loop of _listp and _length: it is a tail of the argument, and len is   *)
(* how far it is from the beginning, unless the list is a circle.            *)
(***************************************************************************)
WalkAt(h, c, y, n) ==
  LET x == c.args[1] IN
  /\ c.op \in {"list?", "length", "list-ref"}
  /\ x \in 1..Len(h) /\ y \in TailsIn(h, x)
  /\ c.op = "list-ref" => c.args[2] \in 1..Len(h)
  /\ c.op # "list?" /\ EndsIn(h, x) # {} => n = LengthIn(h, x) - LengthIn(h, y)

(***************************************************************************)
(* The loop of list-ref: the argument is a list, and there are idx pairs from *)
(* it to the position asked for.                                            *)
(***************************************************************************)
RefAt(h, c, y, n) ==
  LET x == c.args[1]
      i == h[c.args[2]]
  IN
  /\ c.op = "list-ref"
  /\ x \in 1..Len(h) /\ y \in TailsIn(h, x) /\ IsListIn(h, x)
  /\ n < LengthIn(h, y)
  /\ i.kind = "small" => /\ i.val \in 0..(LengthIn(h, x) - 1)
                         /\ LengthIn(h, y) - n = LengthIn(h, x) - i.val

LoopsOK ==
  /\ pc = "walk" => /\ WalkAt(heap, call, it, len)
                    /\ call.op = "length" => Len(heap) < program.max
  /\ pc = "ref" => RefAt(heap, call, it, idx)

AnswersOK == LengthCorrect /\ ListRefCorrect /\ SlotsInOrder

HInv == TypeOK /\ HeapOK /\ LoopsOK /\ AnswersOK

-----------------------------------------------------------------------------

\* What HInv says of the variables.
LEMMA HInvFacts ==
  ASSUME HInv
  PROVE  /\ heap \in Seq(Object) /\ ClosedHeap(heap) /\ Len(heap) \in Nat /\ Len(heap) >= 3
         /\ program \in Programs /\ program.max \in Nat /\ Len(heap) <= program.max
         /\ program.max < IntMax /\ IntMax \in Nat
         /\ it \in 0..Len(heap) /\ len \in Int /\ idx \in Nat /\ ret \in 0..Len(heap)
         /\ call.args \in Seq(Nat)
<1>1. program \in [calls : SUBSET Ops, given : Seq(Object), max : 0..(IntMax - 1)]
      /\ IntMax \in Nat
  BY HeapAssumption DEF HInv, HeapOK
<1> QED
  BY <1>1 DEF HInv, HeapOK, HeapIn, TypeOK

\* Arguments are objects of the program.
LEMMA ArgsFacts ==
  ASSUME HInv, NEW n \in Nat, NEW a \in Args(n)
  PROVE  /\ a \in Seq(Nat) /\ Len(a) = n
         /\ \A k \in 1..n : a[k] \in 1..Len(heap) /\ a[k] \in 4..Len(heap)
<1>1. a \in [1..n -> 4..Len(heap)]
  BY DEF Args, Globals
<1> QED
  BY <1>1, HInvFacts

\* New objects that refer to objects leave the heap well-formed.
LEMMA GrownHeap ==
  ASSUME NEW h, HeapIn(h), NEW os \in Seq(Object),
         \A j \in 1..Len(os) :
           /\ \A k \in 1..Len(os[j].refs) : os[j].refs[k] \in 1..(Len(h) + Len(os))
           /\ os[j].kind = "pair" => Len(os[j].refs) = 2
           /\ os[j].kind = "vector" => os[j].val = Len(os[j].refs)
  PROVE  /\ HeapIn(h \o os) /\ Len(h \o os) = Len(h) + Len(os)
         /\ \A y \in 1..Len(h) : (h \o os)[y] = h[y]
         /\ \A j \in 1..Len(os) : (h \o os)[Len(h) + j] = os[j]
<1> DEFINE g == h \o os
           N == Len(h)
           M == Len(os)
<1>1. /\ h \in Seq(Object) /\ N \in Nat /\ M \in Nat /\ N >= 3
      /\ g \in Seq(Object) /\ Len(g) = N + M
      /\ \A y \in 1..N : g[y] = h[y]
      /\ \A j \in 1..M : g[N + j] = os[j]
  BY DEF HeapIn
<1>2. ASSUME NEW x \in 1..Len(g)
      PROVE  /\ \A k \in 1..Len(g[x].refs) : g[x].refs[k] \in 1..Len(g)
             /\ g[x].kind = "pair" => Len(g[x].refs) = 2
             /\ g[x].kind = "vector" => g[x].val = Len(g[x].refs)
  <2> HIDE DEF g
  <2>1. CASE x \in 1..N
    <3>1. g[x] = h[x]
      BY <1>1, <2>1
    <3>2. \A r \in 1..N : r \in 1..Len(g)
      BY <1>1
    <3> QED
      BY <2>1, <3>1, <3>2 DEF HeapIn, ClosedHeap
  <2>2. CASE x \notin 1..N
    <3>1. x - N \in 1..M /\ x = N + (x - N)
      BY <1>1, <2>2
    <3>2. g[x] = os[x - N]
      BY <1>1, <3>1
    <3> QED
      BY <1>1, <3>1, <3>2
  <2> QED
    BY <2>1, <2>2
<1>3. ClosedHeap(g)
  BY <1>2 DEF ClosedHeap
<1> QED
  BY <1>1, <1>3 DEF HeapIn

\* Where new objects go.
LEMMA NewObjects ==
  ASSUME HInv, NEW os \in Seq(Object), lsrt_new_object(os), UNCHANGED program,
         \A j \in 1..Len(os) :
           /\ \A k \in 1..Len(os[j].refs) : os[j].refs[k] \in 1..(Len(heap) + Len(os))
           /\ os[j].kind = "pair" => Len(os[j].refs) = 2
           /\ os[j].kind = "vector" => os[j].val = Len(os[j].refs)
  PROVE  /\ HeapOK' /\ pc' = "idle" /\ Len(heap') = Len(heap) + Len(os)
         /\ ret' = Len(heap') /\ ret' \in 0..Len(heap')
         /\ \A y \in 1..Len(heap) : heap'[y] = heap[y]
         /\ \A j \in 1..Len(os) : heap'[Len(heap) + j] = os[j]
<1>1. /\ heap' = heap \o os /\ Len(heap) + Len(os) <= program.max
      /\ pc' = "idle" /\ ret' = Len(heap) + Len(os)
  BY DEF lsrt_new_object, Return
<1>2. HeapIn(heap)
  BY DEF HInv, HeapOK
<1>3. /\ HeapIn(heap') /\ Len(heap') = Len(heap) + Len(os)
      /\ \A y \in 1..Len(heap) : heap'[y] = heap[y]
      /\ \A j \in 1..Len(os) : heap'[Len(heap) + j] = os[j]
  BY <1>1, <1>2, GrownHeap
<1>4. Len(heap) + Len(os) \in 0..(Len(heap) + Len(os))
  BY HInvFacts
<1> QED
  BY <1>1, <1>3, <1>4, HInvFacts DEF HeapOK

\* A builtin that is one step and leaves a well-formed heap preserves HInv.
LEMMA AtomicStep ==
  ASSUME HInv, HeapOK', Atomic, pc' = "idle", ret' \in 0..Len(heap')
  PROVE  HInv'
<1>1. /\ call' = NoCall /\ it' = 0 /\ len' = 0 /\ idx' = 0 /\ program' = program
  BY DEF Atomic, NULL
<1>2. NoCall \in [op : Loops \cup StringOps \cup {"none"}, args : Seq(Nat)]
  BY DEF NoCall
<1>3. 0 \in 0..Len(heap')
  BY DEF HeapOK, HeapIn
<1>4. TypeOK'
  BY <1>1, <1>2, <1>3, HInvFacts DEF TypeOK, HeapOK, HeapIn
<1>5. LoopsOK'
  BY DEF LoopsOK
<1>6. AnswersOK'
  BY <1>1 DEF AnswersOK, LengthCorrect, ListRefCorrect, SlotsInOrder, Done, NoCall
<1> QED
  BY <1>4, <1>5, <1>6 DEF HInv

-----------------------------------------------------------------------------

\* The elements of two sequences one after the other.
LEMMA ConcatFacts ==
  ASSUME NEW S, NEW s \in Seq(S), NEW r \in Seq(S)
  PROVE  /\ s \o r \in Seq(S) /\ Len(s \o r) = Len(s) + Len(r)
         /\ \A k \in 1..Len(s) : (s \o r)[k] = s[k]
         /\ \A k \in 1..Len(r) : (s \o r)[Len(s) + k] = r[k]
  OBVIOUS

\* Assigning an element of a pair leaves the heap well-formed.
LEMMA AssignedHeap ==
  ASSUME HInv, NEW x \in 1..Len(heap), heap[x].kind = "pair", NEW y \in 1..Len(heap),
         NEW i \in {1, 2}, heap' = [heap EXCEPT ![x].refs[i] = y], UNCHANGED program
  PROVE  HeapOK' /\ Len(heap') = Len(heap)
<1> DEFINE N == Len(heap)
           o == [heap[x] EXCEPT !.refs = [heap[x].refs EXCEPT ![i] = y]]
<1>1. heap \in Seq(Object) /\ N \in Nat /\ Len(heap[x].refs) = 2 /\ y \in Nat
      /\ \A w \in 1..N : heap[w] \in Object
  BY HInvFacts DEF ClosedHeap
<1>2. heap[x] \in Object /\ heap[x].refs \in Seq(Nat)
  BY <1>1 DEF Object
<1>3. /\ o \in Object /\ o.kind = "pair" /\ Len(o.refs) = 2
      /\ \A k \in 1..2 : o.refs[k] = IF k = i THEN y ELSE heap[x].refs[k]
  <2> DEFINE q == heap[x].refs
             rs == [q EXCEPT ![i] = y]
  <2>1. rs \in Seq(Nat) /\ Len(rs) = 2
        /\ \A k \in 1..2 : rs[k] = IF k = i THEN y ELSE q[k]
    <3>1. q \in [1..2 -> Nat] /\ i \in 1..2 /\ y \in Nat
      <4>1. i \in 1..2 /\ y \in Nat /\ q \in Seq(Nat) /\ Len(q) = 2
        BY <1>1, <1>2
      <4> HIDE DEF q
      <4> QED
        BY <4>1
    <3> HIDE DEF q
    <3>2. rs \in [1..2 -> Nat] /\ \A k \in 1..2 : rs[k] = IF k = i THEN y ELSE q[k]
      BY <3>1
    <3> HIDE DEF rs
    <3>3. rs \in Seq(Nat) /\ Len(rs) = 2
      BY <3>2, FunctionIsSeq
    <3> QED
      BY <3>2, <3>3
  <2> HIDE DEF rs
  <2>2. o = [heap[x] EXCEPT !.refs = rs]
    BY DEF rs
  <2> QED
    BY <1>2, <2>1, <2>2 DEF Object
<1>4. heap' = [heap EXCEPT ![x] = o]
  OBVIOUS
<1> HIDE DEF o
<1>5. /\ heap' \in Seq(Object) /\ Len(heap') = N
      /\ \A w \in 1..N : heap'[w] = IF w = x THEN o ELSE heap[w]
  <2>1. heap \in [1..N -> Object] /\ x \in 1..N
    BY <1>1
  <2> HIDE DEF N
  <2>2. heap' \in [1..N -> Object] /\ \A w \in 1..N : heap'[w] = IF w = x THEN o ELSE heap[w]
    BY <1>3, <1>4, <2>1
  <2> QED
    BY <1>1, <2>2, FunctionIsSeq
<1>6. ASSUME NEW w \in 1..N
      PROVE  /\ \A k \in 1..Len(heap'[w].refs) : heap'[w].refs[k] \in 1..N
             /\ heap'[w].kind = "pair" => Len(heap'[w].refs) = 2
             /\ heap'[w].kind = "vector" => heap'[w].val = Len(heap'[w].refs)
  <2>0. \A z \in 1..N :
           /\ \A k \in 1..Len(heap[z].refs) : heap[z].refs[k] \in 1..N
           /\ heap[z].kind = "pair" => Len(heap[z].refs) = 2
           /\ heap[z].kind = "vector" => heap[z].val = Len(heap[z].refs)
    BY HInvFacts DEF ClosedHeap
  <2>3. x \in 1..N /\ y \in 1..N
    OBVIOUS
  <2> HIDE DEF N
  <2>1. CASE w # x
    <3>1. heap'[w] = heap[w]
      BY <1>5, <2>1
    <3> QED
      BY <2>0, <3>1
  <2>2. CASE w = x
    <3>1. \A k \in 1..2 : heap[x].refs[k] \in 1..N
      BY <1>1, <2>0, <2>3
    <3>2. heap'[w] = o
      BY <1>5, <2>2
    <3> QED
      BY <1>3, <2>3, <3>1, <3>2
  <2> QED
    BY <2>1, <2>2
<1> QED
  BY <1>5, <1>6, HInvFacts DEF HeapOK, HeapIn, ClosedHeap

\* The list that listOf makes of objects: nil, and pairs from the last element on.
LEMMA ListOfFacts ==
  ASSUME HInv, NEW xs \in Seq(Nat), \A k \in 1..Len(xs) : xs[k] \in 1..Len(heap)
  PROVE  /\ listOf(xs) \in Seq(Object) /\ Len(listOf(xs)) = Len(xs) + 1
         /\ listOf(xs)[1] = Obj("nil", 0, <<>>)
         /\ \A k \in 1..Len(xs) :
              listOf(xs)[k + 1] = Obj("pair", 0, <<xs[Len(xs) + 1 - k], Len(heap) + k>>)
         /\ \A j \in 1..Len(listOf(xs)) :
              /\ \A k \in 1..Len(listOf(xs)[j].refs) :
                   listOf(xs)[j].refs[k] \in 1..(Len(heap) + Len(listOf(xs)))
              /\ listOf(xs)[j].kind = "pair" => Len(listOf(xs)[j].refs) = 2
              /\ listOf(xs)[j].kind = "vector" => listOf(xs)[j].val = Len(listOf(xs)[j].refs)
<1> DEFINE N == Len(heap)
           M == Len(xs)
<1>1. N \in Nat /\ M \in Nat /\ \A k \in 1..M : xs[k] \in 1..N
  BY HInvFacts
<1> HIDE DEF N, M
<1>2. \A k \in 1..M : M + 1 - k \in 1..M /\ xs[M + 1 - k] \in 1..N
  <2>1. \A k \in 1..M : M + 1 - k \in 1..M
    BY <1>1
  <2> QED
    BY <1>1, <2>1
<1> DEFINE z == <<Obj("nil", 0, <<>>)>>
           o(k) == Obj("pair", 0, <<xs[M + 1 - k], N + k>>)
           ps == [k \in 1..M |-> o(k)]
           l == listOf(xs)
<1> HIDE DEF z, ps, l
<1>3. ASSUME NEW k \in 1..M
      PROVE  o(k) \in Object /\ o(k).kind = "pair" /\ Len(o(k).refs) = 2
             /\ o(k).refs[1] \in 1..N /\ o(k).refs[2] = N + k
  <2>1. xs[M + 1 - k] \in Nat /\ N + k \in Nat
    BY <1>1, <1>2
  <2> QED
    BY <1>2, <2>1 DEF Obj, Object, Kind
<1> HIDE DEF o
<1>4. l = z \o ps
  BY DEF listOf, l, z, ps, o, N, M
<1>5. z \in Seq(Object) /\ Len(z) = 1 /\ z[1] = Obj("nil", 0, <<>>)
  BY DEF z, Obj, Object, Kind
<1>6. ps \in [1..M -> Object] /\ \A k \in 1..M : ps[k] = o(k)
  BY <1>3 DEF ps
<1>7. ps \in Seq(Object) /\ Len(ps) = M
  BY <1>1, <1>6, FunctionIsSeq
<1>8. /\ l \in Seq(Object) /\ Len(l) = M + 1 /\ l[1] = Obj("nil", 0, <<>>)
      /\ \A k \in 1..M : l[k + 1] = o(k)
  <2>1. l \in Seq(Object) /\ Len(l) = 1 + M /\ l[1] = z[1]
        /\ \A k \in 1..M : l[1 + k] = ps[k]
    <3>1. /\ z \o ps \in Seq(Object) /\ Len(z \o ps) = Len(z) + Len(ps)
          /\ \A k \in 1..Len(z) : (z \o ps)[k] = z[k]
          /\ \A k \in 1..Len(ps) : (z \o ps)[Len(z) + k] = ps[k]
      <4>1. z \in Seq(Object) /\ ps \in Seq(Object)
        BY <1>5, <1>7
      <4>2. z \o ps \in Seq(Object)
        BY <4>1
      <4>3. Len(z \o ps) = Len(z) + Len(ps)
        BY <4>1
      <4>4. \A k \in 1..Len(z) : (z \o ps)[k] = z[k]
        BY <4>1
      <4>5. \A k \in 1..Len(ps) : (z \o ps)[Len(z) + k] = ps[k]
        BY <4>1
      <4> QED
        BY <4>2, <4>3, <4>4, <4>5
    <3>2. /\ l \in Seq(Object) /\ Len(l) = 1 + M
          /\ \A k \in 1..1 : l[k] = z[k]
          /\ \A k \in 1..M : l[1 + k] = ps[k]
      BY <1>4, <1>5, <1>7, <3>1
    <3> QED
      BY <3>2
  <2>2. \A k \in 1..M : k + 1 = 1 + k
    BY <1>1
  <2> QED
    BY <1>1, <1>5, <1>6, <2>1, <2>2
<1>9. ASSUME NEW j \in 1..Len(l)
      PROVE  /\ \A k \in 1..Len(l[j].refs) : l[j].refs[k] \in 1..(N + Len(l))
             /\ l[j].kind = "pair" => Len(l[j].refs) = 2
             /\ l[j].kind = "vector" => l[j].val = Len(l[j].refs)
  <2>1. CASE j = 1
    <3>1. l[j].kind = "nil" /\ Len(l[j].refs) = 0
      BY <1>8, <2>1 DEF Obj
    <3> QED
      BY <3>1
  <2>2. CASE j # 1
    <3>1. j - 1 \in 1..M /\ j = (j - 1) + 1 /\ j \in 1..(M + 1)
      BY <1>1, <1>8, <2>2
    <3>2. l[j] = o(j - 1)
      BY <1>8, <3>1
    <3>3. l[j].kind = "pair" /\ Len(l[j].refs) = 2 /\ l[j].refs[1] \in 1..N
          /\ l[j].refs[2] = N + (j - 1)
      BY <1>3, <3>1, <3>2
    <3>4. \A r \in 1..N : r \in 1..(N + (M + 1))
      BY <1>1
    <3>5. N + (j - 1) \in 1..(N + (M + 1))
      BY <1>1, <3>1
    <3> QED
      BY <1>8, <3>3, <3>4, <3>5
  <2> QED
    BY <2>1, <2>2
<1> QED
  BY <1>8, <1>9 DEF l, o, N, M

\* A vector that has been filled.
LEMMA FilledVector ==
  ASSUME NEW n \in Nat, NEW x \in [1..n -> Nat]
  PROVE  /\ fill(vector_new(n), n, x) \in Object
         /\ fill(vector_new(n), n, x).kind = "vector"
         /\ fill(vector_new(n), n, x).val = n
         /\ Len(fill(vector_new(n), n, x).refs) = n
         /\ \A k \in 1..n : fill(vector_new(n), n, x).refs[k] = x[k]
<1>1. fill(vector_new(n), n, x) = Obj("vector", n, [k \in 1..n |-> x[k]])
  <2> DEFINE v == vector_new(n)
             f == [k \in 1..v.val |-> IF k <= n THEN x[k] ELSE v.refs[k]]
  <2>1. v = Obj("vector", n, v.refs) /\ v.val = n
    BY DEF vector_new, Obj
  <2>2. f = [k \in 1..n |-> x[k]]
    <3> HIDE DEF v
    <3> QED
      BY <2>1
  <2>3. fill(v, n, x) = [v EXCEPT !.refs = f]
    BY DEF fill
  <2>4. \A rs, g : [Obj("vector", n, rs) EXCEPT !.refs = g] = Obj("vector", n, g)
    BY DEF Obj
  <2>5. [v EXCEPT !.refs = f] = Obj("vector", n, f)
    <3> HIDE DEF v, f
    <3> QED
      BY <2>1, <2>4
  <2> QED
    BY <2>2, <2>3, <2>5
<1>2. [k \in 1..n |-> x[k]] \in Seq(Nat) /\ Len([k \in 1..n |-> x[k]]) = n
  OBVIOUS
<1> QED
  BY <1>1, <1>2 DEF Obj, Object, Kind

-----------------------------------------------------------------------------

\* A builtin that is one step and makes no object preserves HInv.
LEMMA SameHeap ==
  ASSUME HInv, Atomic, UNCHANGED heap, pc' = "idle", ret' \in 0..Len(heap)
  PROVE  HInv'
<1>1. HeapOK'
  BY DEF HInv, HeapOK, Atomic
<1> QED
  BY <1>1, AtomicStep

\* One that makes one object that refers to objects does too.
LEMMA OneObject ==
  ASSUME HInv, Atomic, NEW o \in Object, lsrt_new_object(<<o>>),
         \A k \in 1..Len(o.refs) : o.refs[k] \in 1..Len(heap),
         o.kind = "pair" => Len(o.refs) = 2,
         o.kind = "vector" => o.val = Len(o.refs)
  PROVE  HInv'
<1> DEFINE os == <<o>>
<1>1. os \in Seq(Object) /\ Len(os) = 1 /\ os[1] = o /\ lsrt_new_object(os)
      /\ \A j \in 1..Len(os) : os[j] = o
  OBVIOUS
<1> HIDE DEF os
<1>2. \A r \in 1..Len(heap) : r \in 1..(Len(heap) + Len(os))
  BY <1>1, HInvFacts
<1>3. /\ HeapOK' /\ pc' = "idle" /\ ret' \in 0..Len(heap')
  BY <1>1, <1>2, NewObjects DEF Atomic
<1> QED
  BY <1>3, AtomicStep

\* The steps of the builtins that are one step, with the arguments they take.
LEMMA PairSteps ==
  ASSUME HInv, NEW x \in 4..Len(heap), NEW y \in 4..Len(heap),
         CarCdr(x) \/ Predicate(x) \/ VectorLength(x) \/ Cons(x, y) \/ SetCarCdr(x, y)
  PROVE  HInv'
<1>1. x \in 1..Len(heap) /\ y \in 1..Len(heap) /\ x \in Nat /\ y \in Nat
      /\ unspec \in 0..Len(heap) /\ Bool(TRUE) \in 0..Len(heap)
      /\ Bool(FALSE) \in 0..Len(heap)
  BY HInvFacts DEF unspec, Bool
<1>2. CASE CarCdr(x)
  <2>1. heap[x].kind = "pair" /\ Atomic /\ UNCHANGED heap /\ pc' = "idle"
        /\ ret' \in {Car(heap, x), Cdr(heap, x)}
    BY <1>2 DEF CarCdr, Called, Checked, Is, Return, car, cdr, Car, Cdr
  <2>2. ret' \in 1..Len(heap)
    BY <1>1, <2>1, PairFacts, HInvFacts DEF IsPair
  <2>3. ret' \in 0..Len(heap)
    BY <2>2
  <2> QED
    BY <2>1, <2>3, SameHeap
<1>3. CASE Predicate(x)
  <2>1. CASE \/ Return(Bool(Is("nil", x))) /\ UNCHANGED heap
             \/ Return(Bool(Is("pair", x))) /\ UNCHANGED heap
    <3>1. Atomic /\ UNCHANGED heap /\ pc' = "idle" /\ ret' \in 0..Len(heap)
      BY <1>1, <1>3, <2>1 DEF Predicate, Return, Bool
    <3> QED
      BY <3>1, SameHeap
  <2>2. ASSUME NEW v \in {0, 1}, lsrt_new_object(<<Obj("boolean", v, <<>>)>>) PROVE HInv'
    <3>1. /\ Obj("boolean", v, <<>>) \in Object
          /\ Len(Obj("boolean", v, <<>>).refs) = 0
          /\ Obj("boolean", v, <<>>).kind = "boolean" /\ Atomic
      BY <1>3 DEF Obj, Object, Kind, Predicate
    <3> QED
      BY <2>2, <3>1, OneObject
  <2> QED
    BY <1>3, <2>1, <2>2 DEF Predicate
<1>4. CASE VectorLength(x)
  <2> DEFINE o == Obj("small", heap[x].val, <<>>)
  <2>1. heap[x].val \in Int
    <3>1. heap[x] \in Object
      BY <1>1, HInvFacts
    <3> QED
      BY <3>1 DEF Object
  <2>2. o \in Object /\ Len(o.refs) = 0 /\ o.kind = "small" /\ Atomic
        /\ lsrt_new_object(<<o>>)
    BY <1>4, <2>1 DEF Obj, Object, Kind, VectorLength
  <2> HIDE DEF o
  <2> QED
    BY <2>2, OneObject
<1>5. CASE Cons(x, y)
  <2> DEFINE o == Obj("pair", 0, <<x, y>>)
  <2>1. /\ o \in Object /\ Len(o.refs) = 2 /\ o.kind = "pair" /\ Atomic
        /\ o.refs[1] = x /\ o.refs[2] = y /\ lsrt_new_object(<<o>>)
    BY <1>1, <1>5 DEF Obj, Object, Kind, Cons
  <2> HIDE DEF o
  <2>2. \A k \in 1..Len(o.refs) : o.refs[k] \in 1..Len(heap)
    BY <1>1, <2>1
  <2> QED
    BY <2>1, <2>2, OneObject
<1>6. CASE SetCarCdr(x, y)
  <2>1. heap[x].kind = "pair" /\ Atomic /\ pc' = "idle" /\ ret' = unspec
        /\ \E i \in {1, 2} : heap' = [heap EXCEPT ![x].refs[i] = y]
    BY <1>6 DEF SetCarCdr, Called, Checked, Is, Return
  <2>2. HeapOK' /\ Len(heap') = Len(heap)
    BY <1>1, <2>1, AssignedHeap DEF Atomic
  <2> QED
    BY <1>1, <2>1, <2>2, AtomicStep
<1> QED
  BY <1>2, <1>3, <1>4, <1>5, <1>6

\* vector-ref gives an object that the vector has, or an error.
LEMMA VectorRefStep ==
  ASSUME HInv, NEW x \in 4..Len(heap), NEW i \in 4..Len(heap), VectorRef(x, i)
  PROVE  HInv'
<1>1. x \in 1..Len(heap) /\ i \in 1..Len(heap) /\ heap[i] \in Object /\ heap[x] \in Object
  BY HInvFacts
<1>2. lso_simplenumber_get(i) \subseteq Int
  <2>1. heap[i].val \in Int
    BY <1>1 DEF Object
  <2>2. PointerBits \subseteq Int
    BY HeapAssumption
  <2> QED
    BY <2>1, <2>2 DEF lso_simplenumber_get
<1>3. PICK k \in lso_simplenumber_get(i) :
        IF k < 0 \/ k >= heap[x].val THEN lsrt_error ELSE Return(heap[x].refs[k + 1])
  BY DEF VectorRef
<1>4. heap[x].kind = "vector" /\ Atomic /\ UNCHANGED heap
  BY DEF VectorRef, Called, Checked, Is
<1>5. heap[x].val = Len(heap[x].refs) /\ heap[x].val \in Nat
  <2>1. heap[x].refs \in Seq(Nat)
    BY <1>1 DEF Object
  <2>2. heap[x].val = Len(heap[x].refs)
    BY <1>1, <1>4, HInvFacts DEF ClosedHeap
  <2> QED
    BY <2>1, <2>2
<1>6. pc' = "idle" /\ ret' \in 0..Len(heap)
  <2>1. CASE k < 0 \/ k >= heap[x].val
    BY <1>3, <2>1, HInvFacts DEF lsrt_error, Return, NULL
  <2>2. CASE ~(k < 0 \/ k >= heap[x].val)
    <3>1. k + 1 \in 1..Len(heap[x].refs)
      BY <1>2, <1>5, <2>2
    <3>2. heap[x].refs[k + 1] \in 1..Len(heap)
      BY <1>1, <3>1, HInvFacts DEF ClosedHeap
    <3>3. heap[x].refs[k + 1] \in 0..Len(heap)
      BY <3>2
    <3> QED
      BY <1>3, <2>2, <3>3 DEF Return
  <2> QED
    BY <2>1, <2>2
<1> QED
  BY <1>4, <1>6, SameHeap

\* The builtins that take any number of arguments.
LEMMA ListSteps ==
  ASSUME HInv, NEW n \in Nat, NEW a \in Args(n), List(a) \/ Vector(a)
  PROVE  HInv'
<1>1. a \in Seq(Nat) /\ Len(a) = n /\ \A k \in 1..n : a[k] \in 1..Len(heap)
  BY ArgsFacts
<1>2. CASE List(a)
  <2>1. lsrt_new_object(listOf(a)) /\ Atomic
    BY <1>2 DEF List
  <2>2. HeapOK' /\ pc' = "idle" /\ ret' \in 0..Len(heap')
    BY <1>1, <2>1, ListOfFacts, NewObjects DEF Atomic
  <2> QED
    BY <2>1, <2>2, AtomicStep
<1>3. CASE Vector(a)
  <2> DEFINE o == fill(vector_new(Len(a)), Len(a), a)
  <2>1. a \in [1..n -> Nat]
    BY <1>1
  <2>2. /\ o \in Object /\ o.kind = "vector" /\ o.val = n /\ Len(o.refs) = n
        /\ \A k \in 1..n : o.refs[k] = a[k]
    BY <1>1, <2>1, FilledVector
  <2>3. lsrt_new_object(<<o>>) /\ Atomic
    BY <1>3 DEF Vector
  <2> HIDE DEF o
  <2> QED
    BY <1>1, <2>2, <2>3, OneObject
<1> QED
  BY <1>2, <1>3

\* make-vector fills each slot with an object.
LEMMA MakeVectorStep ==
  ASSUME HInv, NEW n \in 1..2, NEW a \in Args(n), MakeVector(a)
  PROVE  HInv'
<1>1. a \in Seq(Nat) /\ Len(a) = n /\ \A k \in 1..n : a[k] \in 1..Len(heap)
  BY ArgsFacts
<1>2. Atomic
  BY DEF MakeVector
<1>3. PICK m \in lso_simplenumber_get(a[1]) :
       \/ m < 0 /\ lsrt_error /\ UNCHANGED heap
       \/ /\ m \in 0..MaxArgs
          /\ LET x == IF Len(a) = 1 THEN unspec ELSE a[2]
             IN lsrt_new_object(<<fill(vector_new(m), m, [k \in 1..m |-> x])>>)
  BY DEF MakeVector
<1>4. CASE lsrt_error /\ UNCHANGED heap
  BY <1>2, <1>4, SameHeap, HInvFacts DEF lsrt_error, Return, NULL
<1>5. ASSUME m \in 0..MaxArgs, NEW x \in 1..Len(heap),
             lsrt_new_object(<<fill(vector_new(m), m, [k \in 1..m |-> x])>>)
      PROVE  HInv'
  <2> DEFINE f == [k \in 1..m |-> x]
             o == fill(vector_new(m), m, f)
  <2>1. m \in Nat /\ f \in [1..m -> Nat] /\ \A k \in 1..m : f[k] = x
    BY <1>5, HeapAssumption
  <2> HIDE DEF f
  <2>2. /\ o \in Object /\ o.kind = "vector" /\ o.val = m /\ Len(o.refs) = m
        /\ \A k \in 1..m : o.refs[k] = f[k]
    BY <2>1, FilledVector
  <2>3. lsrt_new_object(<<o>>)
    BY <1>5 DEF f
  <2> HIDE DEF o
  <2> QED
    BY <1>2, <2>1, <2>2, <2>3, OneObject
<1>6. unspec \in 1..Len(heap) /\ (Len(a) # 1 => a[2] \in 1..Len(heap))
  BY <1>1, HInvFacts DEF unspec
<1> QED
  BY <1>3, <1>4, <1>5, <1>6

-----------------------------------------------------------------------------

\* m pairs lie one after the other on top of object N + 1, which is none.
PairsFrom(h, N, m) ==
  /\ Len(h) = N + (m + 1) /\ ~IsPair(h, N + 1)
  /\ \A k \in 1..m : IsPair(h, (N + 1) + k) /\ Cdr(h, (N + 1) + k) = N + k

\* The tails of each are itself and those below it.
LEMMA FreshList ==
  ASSUME NEW h \in Seq(Object), ClosedHeap(h), NEW N \in Nat, NEW m \in Nat, PairsFrom(h, N, m)
  PROVE  \A k \in 0..m : /\ TailsIn(h, (N + 1) + k) = (N + 1)..((N + 1) + k)
                         /\ LengthIn(h, (N + 1) + k) = k
<1> DEFINE P == {k \in Nat : k <= m =>
                   TailsIn(h, (N + 1) + k) = (N + 1)..((N + 1) + k)}
<1>1. ASSUME NEW k \in Nat, \A j \in 0..(k - 1) : j \in P
      PROVE  k \in P
  <2> SUFFICES ASSUME k <= m
               PROVE  TailsIn(h, (N + 1) + k) = (N + 1)..((N + 1) + k)
    OBVIOUS
  <2>1. (N + 1) + k \in 1..Len(h)
    BY DEF PairsFrom
  <2>2. CASE k = 0
    <3>1. (N + 1) + k = N + 1 /\ {N + 1} = (N + 1)..(N + 1)
      BY <2>2
    <3> QED
      BY <2>1, <3>1, TailsStep DEF PairsFrom
  <2>3. CASE k # 0
    <3>1. k \in 1..m /\ k - 1 \in 0..(k - 1) /\ k - 1 \in Nat /\ k - 1 <= m
          /\ (N + 1) + (k - 1) = N + k
      BY <2>3
    <3>2. TailsIn(h, N + k) = (N + 1)..(N + k)
      BY <1>1, <3>1
    <3>3. TailsIn(h, (N + 1) + k) = {(N + 1) + k} \cup ((N + 1)..(N + k))
      <4> DEFINE y == (N + 1) + k
      <4>1. y \in 1..Len(h) /\ IsPair(h, y) /\ Cdr(h, y) = N + k
        BY <2>1, <3>1 DEF PairsFrom
      <4> HIDE DEF y
      <4>2. TailsIn(h, y) = {y} \cup TailsIn(h, N + k)
        BY <4>1, TailsStep
      <4> QED
        BY <3>2, <4>2 DEF y
    <3>4. {(N + 1) + k} \cup ((N + 1)..(N + k)) = (N + 1)..((N + 1) + k)
      BY <3>1
    <3> QED
      BY <3>3, <3>4
  <2> QED
    BY <2>2, <2>3
<1> HIDE DEF P
<1>2. Nat \subseteq P
  BY <1>1, NatSetInduction
<1>3. ASSUME NEW k \in 0..m
      PROVE  /\ TailsIn(h, (N + 1) + k) = (N + 1)..((N + 1) + k)
             /\ LengthIn(h, (N + 1) + k) = k
  <2>1. k \in P /\ k \in Nat /\ k <= m
    BY <1>2
  <2>2. TailsIn(h, (N + 1) + k) = (N + 1)..((N + 1) + k)
    BY <2>1 DEF P
  <2>3. Cardinality((N + 1)..((N + 1) + k)) = k + 1
    <3>1. N + 1 \in Int /\ (N + 1) + k \in Int /\ ~(N + 1 > (N + 1) + k)
          /\ ((N + 1) + k) - (N + 1) + 1 = k + 1
      BY <2>1
    <3> QED
      BY <3>1, FS_Interval
  <2> QED
    BY <2>1, <2>2, <2>3 DEF LengthIn
<1> QED
  BY <1>3

\* vector->list makes a new list of the slots.
LEMMA VectorToListStep ==
  ASSUME HInv, NEW x \in 4..Len(heap), VectorToList(x)
  PROVE  HInv'
<1> DEFINE N == Len(heap)
           v == heap[x]
           l == listOf(v.refs)
           m == Len(v.refs)
<1>1. /\ x \in 1..N /\ x \in Nat /\ v \in Object /\ N \in Nat
      /\ lsrt_new_object(l) /\ UNCHANGED program
      /\ call' = [op |-> "vector->list", args |-> <<x>>]
      /\ it' = 0 /\ len' = 0 /\ idx' = 0
  BY HInvFacts DEF VectorToList, NULL
<1>2. v.kind = "vector"
  BY DEF VectorToList, Called, Checked, Is
<1>3. v.refs \in Seq(Nat) /\ m \in Nat /\ v.val = m
      /\ \A k \in 1..m : v.refs[k] \in 1..N
  <2>1. v.refs \in Seq(Nat)
    BY <1>1 DEF Object
  <2>2. v.val = m /\ \A k \in 1..m : v.refs[k] \in 1..N
    BY <1>1, <1>2, HInvFacts DEF ClosedHeap
  <2> QED
    BY <2>1, <2>2
<1>4. /\ l \in Seq(Object) /\ Len(l) = m + 1
      /\ l[1] = Obj("nil", 0, <<>>)
      /\ \A k \in 1..m : l[k + 1] = Obj("pair", 0, <<v.refs[m + 1 - k], N + k>>)
  BY <1>3, ListOfFacts
<1>5. /\ HeapOK' /\ pc' = "idle" /\ Len(heap') = N + Len(l)
      /\ ret' = Len(heap') /\ ret' \in 0..Len(heap')
      /\ \A y \in 1..N : heap'[y] = heap[y]
      /\ \A j \in 1..Len(l) : heap'[N + j] = l[j]
  BY <1>1, <1>3, ListOfFacts, NewObjects
<1>6. heap' \in Seq(Object) /\ ClosedHeap(heap') /\ Len(heap') \in Nat /\ Len(heap') >= 3
  BY <1>5 DEF HeapOK, HeapIn
<1> HIDE DEF N, l, m
<1>7. Len(heap') = N + (m + 1) /\ ret' = (N + 1) + m
  BY <1>1, <1>3, <1>4, <1>5
<1>8. /\ IsNil(heap', N + 1) /\ ~IsPair(heap', N + 1)
      /\ \A k \in 1..m : /\ IsPair(heap', (N + 1) + k)
                         /\ Cdr(heap', (N + 1) + k) = N + k
                         /\ Car(heap', (N + 1) + k) = v.refs[m + 1 - k]
  <2>1. 1 \in 1..Len(l) /\ \A k \in 1..m : k + 1 \in 1..Len(l) /\ N + (k + 1) = (N + 1) + k
    BY <1>1, <1>3, <1>4
  <2>2. heap'[N + 1] = Obj("nil", 0, <<>>)
    BY <1>4, <1>5, <2>1
  <2>3. \A k \in 1..m : heap'[(N + 1) + k] = Obj("pair", 0, <<v.refs[m + 1 - k], N + k>>)
    BY <1>4, <1>5, <2>1
  <2>4. IsNil(heap', N + 1) /\ ~IsPair(heap', N + 1)
    BY <2>2 DEF Obj, IsNil, IsPair
  <2>5. ASSUME NEW k \in 1..m
        PROVE  /\ IsPair(heap', (N + 1) + k)
               /\ Cdr(heap', (N + 1) + k) = N + k
               /\ Car(heap', (N + 1) + k) = v.refs[m + 1 - k]
    <3> DEFINE o == heap'[(N + 1) + k]
    <3>1. o = Obj("pair", 0, <<v.refs[m + 1 - k], N + k>>)
      BY <2>3
    <3>2. o.kind = "pair" /\ o.refs = <<v.refs[m + 1 - k], N + k>>
      <4> HIDE DEF o
      <4> QED
        BY <3>1 DEF Obj
    <3> QED
      BY <3>2 DEF IsPair, Cdr, Car
  <2> QED
    BY <2>4, <2>5
<1>9. \A k \in 0..m : /\ TailsIn(heap', (N + 1) + k) = (N + 1)..((N + 1) + k)
                      /\ LengthIn(heap', (N + 1) + k) = k
  <2>1. PairsFrom(heap', N, m)
    BY <1>7, <1>8 DEF PairsFrom
  <2> QED
    BY <1>1, <1>3, <1>6, <2>1, FreshList
<1>10. /\ TailsIn(heap', ret') = (N + 1)..ret' /\ LengthIn(heap', ret') = m
       /\ N + 1 \in (N + 1)..ret' /\ ret' \in 1..Len(heap')
  <2>1. m \in 0..m /\ N + 1 \in (N + 1)..((N + 1) + m)
    BY <1>1, <1>3
  <2> QED
    BY <1>1, <1>3, <1>7, <1>9, <2>1
<1>11. IsListIn(heap', ret')
  BY <1>8, <1>10 DEF IsListIn, EndsIn
<1>12. ASSUME NEW k \in 1..m PROVE ElementIn(heap', ret', k - 1) = v.refs[k]
  <2> DEFINE j == m + 1 - k
             y == (N + 1) + j
  <2>1. j \in 1..m /\ j \in 0..m /\ m - (k - 1) = j /\ m + 1 - j = k /\ y \in (N + 1)..ret'
    BY <1>1, <1>3, <1>7
  <2>2. LengthIn(heap', y) = j
    BY <1>9, <2>1
  <2> HIDE DEF j, y
  <2>3. EndsIn(heap', ret') # {}
    BY <1>11 DEF IsListIn
  <2>4. \A z \in TailsIn(heap', ret') : LengthIn(heap', z) = j => z = y
    BY <1>6, <1>10, <2>1, <2>2, <2>3, SameLength
  <2>5. (CHOOSE z \in TailsIn(heap', ret') : LengthIn(heap', z) = j) = y
    BY <1>10, <2>1, <2>2, <2>4
  <2>6. LengthIn(heap', ret') - (k - 1) = j
    BY <1>10, <2>1
  <2>7. ElementIn(heap', ret', k - 1) = Car(heap', y)
    BY <2>5, <2>6 DEF ElementIn
  <2>8. Car(heap', y) = v.refs[m + 1 - j]
    BY <1>8, <2>1 DEF y
  <2> QED
    BY <2>1, <2>7, <2>8
<1>13. ASSUME NEW y \in 1..Len(heap'), NEW k \in 1..Len(heap'[y].refs),
              heap'[y].refs[k] \in TailsIn(heap', ret')
       PROVE  y \in TailsIn(heap', ret')
  <2>1. CASE y \in 1..N
    <3>1. heap'[y].refs[k] \in 1..N
      BY <1>5, <2>1, HInvFacts DEF ClosedHeap, N
    <3> QED
      BY <1>1, <1>7, <1>10, <1>13, <3>1
  <2>2. CASE y \notin 1..N
    BY <1>1, <1>3, <1>7, <1>10, <2>2
  <2> QED
    BY <2>1, <2>2
<1>14. SlotsInOrder'
  <2>1. call'.args[1] = x /\ heap'[x] = v
    BY <1>1, <1>5
  <2> HIDE DEF v
  <2> QED
    BY <1>3, <1>10, <1>11, <1>12, <1>13, <2>1, InHeap DEF SlotsInOrder
<1>15. LengthCorrect' /\ ListRefCorrect'
  BY <1>1 DEF LengthCorrect, ListRefCorrect, Done
<1>16. LoopsOK'
  BY <1>5 DEF LoopsOK
<1>17. call' \in [op : Loops \cup StringOps \cup {"none"}, args : Seq(Nat)]
  BY <1>1 DEF Loops
<1>18. TypeOK'
  <2>1. 0 \in 0..Len(heap')
    BY <1>6
  <2> QED
    BY <1>1, <1>5, <1>6, <1>17, <2>1, HInvFacts DEF TypeOK
<1> QED
  BY <1>5, <1>14, <1>15, <1>16, <1>18 DEF HInv, AnswersOK

-----------------------------------------------------------------------------

\* Each loop starts at the beginning of its argument.
LEMMA StartWalkStep ==
  ASSUME HInv, NEW n \in 1..2, NEW a \in Args(n), NEW op \in Loops, StartWalk(op, a)
  PROVE  HInv'
<1>1. a \in Seq(Nat) /\ Len(a) = n /\ \A k \in 1..n : a[k] \in 1..Len(heap)
  BY ArgsFacts
<1>2. /\ op \in {"list?", "length", "list-ref"} /\ Called(op, a)
      /\ op = "length" => Len(heap) < program.max
      /\ pc' = "walk" /\ call' = [op |-> op, args |-> a]
      /\ it' = a[1] /\ len' = 0 /\ idx' = 0 /\ ret' = 0
      /\ UNCHANGED <<program, heap>>
  BY DEF StartWalk, NULL
<1>3. op = "list-ref" => n = 2
  <2>1. Arity("list-ref") = <<2, 2>>
    BY DEF Arity
  <2> QED
    BY <1>1, <1>2, <2>1 DEF Called, Counted, lsrt_check_args_count
<1>4. a[1] \in 1..Len(heap) /\ (op = "list-ref" => a[2] \in 1..Len(heap))
  BY <1>1, <1>3
<1>5. a[1] \in TailsIn(heap, a[1]) /\ LengthIn(heap, a[1]) \in Nat
  BY <1>4, TailsFacts, LengthFacts, HInvFacts
<1>6. WalkAt(heap, call', a[1], 0)
  BY <1>2, <1>4, <1>5 DEF WalkAt
<1>7. LoopsOK'
  BY <1>2, <1>6 DEF LoopsOK
<1>8. AnswersOK'
  BY <1>2 DEF AnswersOK, LengthCorrect, ListRefCorrect, SlotsInOrder, Done
<1>9. call' \in [op : Loops \cup StringOps \cup {"none"}, args : Seq(Nat)]
  BY <1>1, <1>2
<1>10. TypeOK'
  <2>1. a[1] \in 0..Len(heap) /\ 0 \in 0..Len(heap) /\ 0 \in 0..IntMax
        /\ 0 \in (-IntMax - 1)..IntMax
    BY <1>4, HInvFacts
  <2> QED
    BY <1>2, <1>9, <2>1, HInvFacts DEF TypeOK
<1>11. HeapOK'
  BY <1>2 DEF HInv, HeapOK
<1> QED
  BY <1>7, <1>8, <1>10, <1>11 DEF HInv

\* What the first loop knows where it stands.
LEMMA WalkFacts ==
  ASSUME HInv, pc = "walk", NEW x, x = call.args[1]
  PROVE  /\ call.op \in {"list?", "length", "list-ref"}
         /\ x \in 1..Len(heap) /\ it \in TailsIn(heap, x) /\ it \in 1..Len(heap)
         /\ call.op = "list-ref" => call.args[2] \in 1..Len(heap)
         /\ call.op # "list?" /\ EndsIn(heap, x) # {} =>
              len = LengthIn(heap, x) - LengthIn(heap, it)
         /\ LengthIn(heap, x) \in Nat /\ LengthIn(heap, x) < Len(heap)
         /\ LengthIn(heap, it) \in Nat /\ LengthIn(heap, it) < Len(heap)
<1>1. WalkAt(heap, call, it, len)
  BY DEF HInv, LoopsOK
<1>2. it \in 1..Len(heap)
  BY <1>1, TailsNest, HInvFacts DEF WalkAt
<1> QED
  BY <1>1, <1>2, LengthFacts, HInvFacts DEF WalkAt

\* What the second loop knows.
LEMMA RefFacts ==
  ASSUME HInv, pc = "ref", NEW x, x = call.args[1], NEW i, i = call.args[2]
  PROVE  /\ call.op = "list-ref" /\ x \in 1..Len(heap)
         /\ it \in TailsIn(heap, x) /\ it \in 1..Len(heap)
         /\ IsListIn(heap, x) /\ EndsIn(heap, x) # {} /\ EndsIn(heap, it) # {}
         /\ idx < LengthIn(heap, it) /\ LengthIn(heap, it) \in Nat
         /\ LengthIn(heap, x) \in Nat /\ IsPair(heap, it)
         /\ heap[i].kind = "small" =>
              /\ heap[i].val \in 0..(LengthIn(heap, x) - 1)
              /\ LengthIn(heap, it) - idx = LengthIn(heap, x) - heap[i].val
<1>1. RefAt(heap, call, it, idx)
  BY DEF HInv, LoopsOK
<1>2. it \in 1..Len(heap) /\ EndsIn(heap, x) # {} /\ EndsIn(heap, it) = EndsIn(heap, x)
  BY <1>1, TailsNest, EndsFacts, HInvFacts DEF RefAt, IsListIn
<1>3. IsPair(heap, it)
  <2>1. ~IsPair(heap, it) => LengthIn(heap, it) = 0
    BY <1>2, LengthFacts, HInvFacts
  <2> QED
    BY <1>1, <2>1, HInvFacts DEF RefAt
<1> QED
  BY <1>1, <1>2, <1>3, LengthFacts, HInvFacts DEF RefAt

\* A step of the first loop goes to the next tail and counts it.
LEMMA WalkPairStep ==
  ASSUME HInv, WalkPair
  PROVE  HInv'
<1> DEFINE x == call.args[1]
           c == Cdr(heap, it)
<1>1. /\ pc = "walk" /\ IsPair(heap, it) /\ it' = c
      /\ len' = IF call.op = "list?" THEN len ELSE Increment(len)
      /\ UNCHANGED <<program, heap, pc, call, idx, ret>>
  BY DEF WalkPair, Is, IsPair, cdr, Cdr
<1>2. c \in TailsIn(heap, x) /\ c \in 1..Len(heap) /\ c \in 0..Len(heap)
  <2>1. Follows(heap, TailsIn(heap, x)) /\ it \in TailsIn(heap, x) /\ it \in 1..Len(heap)
    BY <1>1, WalkFacts, TailsFacts, HInvFacts
  <2>2. c \in TailsIn(heap, x) /\ c \in 1..Len(heap)
    BY <1>1, <2>1, PairFacts, HInvFacts DEF Follows
  <2> QED
    BY <2>2
<1>3. ASSUME call.op # "list?", EndsIn(heap, x) # {}
      PROVE  len' = LengthIn(heap, x) - LengthIn(heap, c)
  <2>1. EndsIn(heap, it) # {}
    BY <1>1, <1>3, WalkFacts, EndsFacts, HInvFacts
  <2>2. LengthIn(heap, it) = LengthIn(heap, c) + 1 /\ LengthIn(heap, c) \in Nat
    BY <1>1, <1>2, <2>1, WalkFacts, LengthFacts, HInvFacts
  <2>3. /\ len = LengthIn(heap, x) - LengthIn(heap, it)
        /\ LengthIn(heap, x) \in Nat /\ LengthIn(heap, x) < Len(heap)
        /\ Len(heap) < IntMax /\ IntMax \in Nat /\ Len(heap) \in Nat
    <3>1. pc = "walk"
      BY DEF WalkPair
    <3>2. /\ len = LengthIn(heap, x) - LengthIn(heap, it)
          /\ LengthIn(heap, x) \in Nat /\ LengthIn(heap, x) < Len(heap)
      BY <1>3, <3>1, WalkFacts
    <3>3. /\ Len(heap) \in Nat /\ Len(heap) <= program.max
          /\ program.max \in Nat /\ program.max < IntMax /\ IntMax \in Nat
      BY HInvFacts
    <3> QED
      BY <3>2, <3>3
  <2>4. len + 1 = LengthIn(heap, x) - LengthIn(heap, c) /\ len # IntMax
    BY <2>2, <2>3
  <2> QED
    BY <1>1, <1>3, <2>4 DEF Increment
<1>4. WalkAt(heap', call', it', len')
  BY <1>1, <1>2, <1>3, WalkFacts DEF WalkAt
<1>5. LoopsOK'
  BY <1>1, <1>4 DEF LoopsOK, HInv
<1>6. AnswersOK'
  BY <1>1 DEF AnswersOK, LengthCorrect, ListRefCorrect, SlotsInOrder, Done
<1>7. len' \in (-IntMax - 1)..IntMax
  <2>1. len \in (-IntMax - 1)..IntMax /\ IntMax \in Nat
    BY HInvFacts DEF HInv, TypeOK
  <2> QED
    BY <1>1, <2>1 DEF Increment
<1>8. TypeOK' /\ HeapOK'
  BY <1>1, <1>2, <1>7 DEF HInv, TypeOK, HeapOK
<1> QED
  BY <1>5, <1>6, <1>8 DEF HInv

\* The end of a loop over the heap as it is: what it answers is right.
LEMMA LoopEnds ==
  ASSUME HInv, pc' = "idle", UNCHANGED <<program, heap, call, it, len, idx>>,
         call.op # "vector->list", ret' \in 0..Len(heap), LengthCorrect', ListRefCorrect'
  PROVE  HInv'
<1>1. TypeOK' /\ HeapOK'
  BY DEF HInv, TypeOK, HeapOK
<1>2. LoopsOK'
  BY DEF LoopsOK
<1>3. SlotsInOrder'
  BY DEF SlotsInOrder, Done
<1> QED
  BY <1>1, <1>2, <1>3 DEF HInv, AnswersOK

\* A tail that is neither a pair nor nil: the argument is no list.
LEMMA WalkNotAListStep ==
  ASSUME HInv, WalkNotAList
  PROVE  HInv'
<1> DEFINE x == call.args[1]
<1>1. /\ pc = "walk" /\ ~IsPair(heap, it) /\ ~IsNil(heap, it) /\ pc' = "idle"
      /\ ret' = IF call.op = "list?" THEN Bool(FALSE) ELSE NULL
      /\ UNCHANGED <<program, heap, call, it, len, idx>>
  BY DEF WalkNotAList, Is, IsPair, IsNil, Return, lsrt_error
<1>2. EndsIn(heap, x) = {it}
  BY <1>1, WalkFacts, EndsFacts, HInvFacts
<1>3. ~IsListIn(heap, x)
  BY <1>1, <1>2 DEF IsListIn
<1>4. LengthCorrect' /\ ListRefCorrect'
  <2>1. ~IsList(x)' /\ call'.args[1] = x
    BY <1>1, <1>3, InHeap
  <2> QED
    BY <1>1, <2>1 DEF LengthCorrect, ListRefCorrect, Done, Bool
<1>5. ret' \in 0..Len(heap) /\ call.op # "vector->list"
  BY <1>1, WalkFacts, HInvFacts DEF Bool, NULL
<1> QED
  BY <1>1, <1>4, <1>5, LoopEnds

\* At nil: the argument is a list, and len is its length.
LEMMA AtNilFacts ==
  ASSUME HInv, NEW op, AtNil(op), NEW x, x = call.args[1]
  PROVE  /\ pc = "walk" /\ call.op = op /\ IsListIn(heap, x)
         /\ op # "list?" => len = LengthIn(heap, x)
<1>1. pc = "walk" /\ call.op = op /\ IsNil(heap, it) /\ ~IsPair(heap, it)
  BY DEF AtNil, Is, IsNil, IsPair
<1>2. EndsIn(heap, x) = {it}
  BY <1>1, WalkFacts, EndsFacts, HInvFacts
<1>3. IsListIn(heap, x)
  BY <1>1, <1>2 DEF IsListIn
<1>4. LengthIn(heap, it) = 0
  BY <1>1, WalkFacts, LengthFacts, HInvFacts
<1>5. ASSUME op # "list?" PROVE len = LengthIn(heap, x)
  <2>1. EndsIn(heap, x) # {}
    BY <1>2
  <2>2. len = LengthIn(heap, x) - LengthIn(heap, it) /\ LengthIn(heap, x) \in Nat
    BY <1>1, <1>5, <2>1, WalkFacts
  <2> QED
    BY <1>4, <2>2
<1> QED
  BY <1>1, <1>3, <1>5

\* list? at nil.
LEMMA ListpEndStep ==
  ASSUME HInv, ListpEnd
  PROVE  HInv'
<1> DEFINE x == call.args[1]
<1>1. /\ AtNil("list?") /\ pc' = "idle" /\ ret' = Bool(TRUE)
      /\ UNCHANGED <<program, heap, call, it, len, idx>>
  BY DEF ListpEnd, Return
<1>2. call.op = "list?" /\ IsListIn(heap, x)
  BY <1>1, AtNilFacts
<1>3. IsList(x)' /\ call'.args[1] = x
  BY <1>1, <1>2, InHeap
<1>4. LengthCorrect' /\ ListRefCorrect'
  BY <1>1, <1>2, <1>3 DEF LengthCorrect, ListRefCorrect, Done
<1>5. ret' \in 0..Len(heap)
  BY <1>1, HInvFacts DEF Bool
<1> QED
  BY <1>1, <1>2, <1>4, <1>5, LoopEnds

\* length at nil makes a number of what it has counted.
LEMMA LengthEndStep ==
  ASSUME HInv, LengthEnd
  PROVE  HInv'
<1> DEFINE x == call.args[1]
           o == Obj("small", len, <<>>)
           os == <<o>>
<1>1. AtNil("length") /\ lsrt_new_object(os) /\ UNCHANGED <<program, call, it, len, idx>>
  BY DEF LengthEnd
<1>2. call.op = "length" /\ IsListIn(heap, x) /\ len = LengthIn(heap, x)
      /\ x \in 1..Len(heap)
  BY <1>1, AtNilFacts, WalkFacts
<1>3. os \in Seq(Object) /\ Len(os) = 1 /\ os[1] = o /\ o.val = len /\ o.kind = "small"
      /\ Len(o.refs) = 0
  BY HInvFacts DEF Obj, Object, Kind
<1> HIDE DEF o, os
<1>4. \A j \in 1..Len(os) : os[j] = o
  BY <1>3
<1>5. /\ HeapOK' /\ pc' = "idle" /\ Len(heap') = Len(heap) + Len(os)
      /\ ret' = Len(heap') /\ ret' \in 0..Len(heap')
      /\ \A y \in 1..Len(heap) : heap'[y] = heap[y]
      /\ \A j \in 1..Len(os) : heap'[Len(heap) + j] = os[j]
  BY <1>1, <1>3, <1>4, NewObjects
<1>6. heap' \in Seq(Object) /\ ClosedHeap(heap') /\ Len(heap) <= Len(heap')
      /\ ret' = Len(heap) + 1 /\ heap'[ret'] = o /\ ret' # 0
  <2>1. Len(heap') = Len(heap) + 1 /\ 1 \in 1..Len(os) /\ Len(heap) \in Nat
    BY <1>3, <1>5, HInvFacts
  <2> QED
    BY <1>3, <1>5, <2>1 DEF HeapOK, HeapIn
<1>7. /\ IsListIn(heap', x) /\ LengthIn(heap', x) = LengthIn(heap, x)
  BY <1>2, <1>5, <1>6, TailsKept, HInvFacts
<1>8. LengthCorrect' /\ ListRefCorrect'
  <2>1. IsList(x)' /\ LengthOf(x)' = len /\ call'.args[1] = x /\ heap'[ret'].val = len
    BY <1>1, <1>2, <1>3, <1>6, <1>7, InHeap
  <2> QED
    BY <1>1, <1>2, <1>6, <2>1 DEF LengthCorrect, ListRefCorrect, Done, NULL
<1>9. SlotsInOrder' /\ LoopsOK'
  BY <1>1, <1>2, <1>5 DEF SlotsInOrder, Done, LoopsOK
<1>10. TypeOK'
  <2>1. it \in 0..Len(heap')
    BY <1>6, HInvFacts
  <2> QED
    BY <1>1, <1>5, <1>6, <2>1 DEF HInv, TypeOK
<1> QED
  BY <1>5, <1>8, <1>9, <1>10 DEF HInv, AnswersOK

\* The range test of list-ref: an error where there is no such element.
LEMMA ListRefRangeStep ==
  ASSUME HInv, ListRefRange
  PROVE  HInv'
<1> DEFINE x == call.args[1]
           i == call.args[2]
<1>1. AtNil("list-ref") /\ UNCHANGED <<program, heap, call, len>>
  BY DEF ListRefRange
<1>2. /\ call.op = "list-ref" /\ IsListIn(heap, x) /\ len = LengthIn(heap, x)
      /\ x \in 1..Len(heap) /\ i \in 1..Len(heap) /\ len \in Nat
      /\ len < Len(heap) /\ EndsIn(heap, x) # {}
  BY <1>1, AtNilFacts, WalkFacts DEF IsListIn
<1>3. PICK k \in lso_simplenumber_get(i) :
        IF k < 0 \/ k >= len THEN lsrt_error /\ UNCHANGED <<it, idx>>
        ELSE pc' = "ref" /\ it' = x /\ idx' = k /\ UNCHANGED ret
  BY DEF ListRefRange
<1>4. k \in Int /\ (heap[i].kind = "small" => k = heap[i].val)
  <2>1. heap[i] \in Object
    BY <1>2, HInvFacts
  <2>2. heap[i].val \in Int /\ PointerBits \subseteq Int
    BY <2>1, HeapAssumption DEF Object
  <2> QED
    BY <1>3, <2>2 DEF lso_simplenumber_get, Is
<1>5. CASE k < 0 \/ k >= len
  <2>1. pc' = "idle" /\ ret' = NULL /\ UNCHANGED <<it, idx>>
    BY <1>3, <1>5 DEF lsrt_error, Return
  <2>2. LengthCorrect'
    BY <1>1, <1>2 DEF LengthCorrect, Done
  <2>3. ListRefCorrect'
    <3>1. heap[i].kind = "small" => heap[i].val \notin 0..(LengthIn(heap, x) - 1)
      BY <1>2, <1>4, <1>5
    <3>2. call'.args[1] = x /\ call'.args[2] = i /\ LengthOf(x)' = LengthIn(heap, x)
      BY <1>1, InHeap
    <3> QED
      BY <1>1, <2>1, <3>1, <3>2 DEF ListRefCorrect
  <2>4. ret' \in 0..Len(heap)
    BY <2>1, HInvFacts DEF NULL
  <2> QED
    BY <1>1, <1>2, <2>1, <2>2, <2>3, <2>4, LoopEnds
<1>6. CASE ~(k < 0 \/ k >= len)
  <2>1. pc' = "ref" /\ it' = x /\ idx' = k /\ ret' = ret
    BY <1>3, <1>6
  <2>2. k \in 0..(len - 1)
    BY <1>2, <1>4, <1>6
  <2>3. x \in TailsIn(heap, x)
    BY <1>2, TailsFacts, HInvFacts
  <2>4. RefAt(heap, call, x, k)
    BY <1>2, <1>4, <2>2, <2>3 DEF RefAt
  <2>5. LoopsOK'
    BY <1>1, <2>1, <2>4 DEF LoopsOK
  <2>6. AnswersOK'
    BY <2>1 DEF AnswersOK, LengthCorrect, ListRefCorrect, SlotsInOrder, Done
  <2>7. x \in 0..Len(heap) /\ k \in 0..IntMax
    <3>1. /\ Len(heap) \in Nat /\ program.max \in Nat /\ IntMax \in Nat
          /\ Len(heap) <= program.max /\ program.max < IntMax
      BY HInvFacts
    <3>2. k < Len(heap) /\ k \in Nat
      BY <1>2, <2>2, <3>1
    <3> QED
      BY <1>2, <3>1, <3>2
  <2>8. TypeOK' /\ HeapOK'
    BY <1>1, <2>1, <2>7 DEF HInv, TypeOK, HeapOK
  <2> QED
    BY <2>5, <2>6, <2>8 DEF HInv
<1> QED
  BY <1>5, <1>6

\* The second loop of list-ref takes pairs only and stops at the one asked for.
LEMMA ListRefStepStep ==
  ASSUME HInv, ListRefStep
  PROVE  HInv'
<1> DEFINE x == call.args[1]
           i == call.args[2]
           c == Cdr(heap, it)
<1>1. pc = "ref" /\ UNCHANGED <<program, heap, call, len>>
  BY DEF ListRefStep
<1>2. /\ call.op = "list-ref" /\ x \in 1..Len(heap)
      /\ it \in TailsIn(heap, x) /\ it \in 1..Len(heap)
      /\ IsListIn(heap, x) /\ EndsIn(heap, x) # {} /\ EndsIn(heap, it) # {}
      /\ idx < LengthIn(heap, it) /\ LengthIn(heap, it) \in Nat
      /\ LengthIn(heap, x) \in Nat /\ IsPair(heap, it)
      /\ heap[i].kind = "small" =>
           /\ heap[i].val \in 0..(LengthIn(heap, x) - 1)
           /\ LengthIn(heap, it) - idx = LengthIn(heap, x) - heap[i].val
  BY <1>1, RefFacts
<1>3. c \in 1..Len(heap) /\ Car(heap, it) \in 1..Len(heap)
  BY <1>2, PairFacts, HInvFacts
<1>4. ASSUME idx > 0, it' = cdr(it), idx' = idx - 1, UNCHANGED <<pc, ret>>
      PROVE  HInv'
  <2>1. it' = c
    BY <1>4 DEF cdr, Cdr
  <2>2. c \in TailsIn(heap, x)
    BY <1>2, TailsFacts, HInvFacts DEF Follows
  <2>3. LengthIn(heap, it) = LengthIn(heap, c) + 1 /\ LengthIn(heap, c) \in Nat
    BY <1>2, <1>3, LengthFacts, HInvFacts
  <2>4. idx \in Nat
    BY HInvFacts
  <2>5. /\ idx - 1 < LengthIn(heap, c)
        /\ LengthIn(heap, c) - (idx - 1) = LengthIn(heap, it) - idx
    BY <1>2, <2>3, <2>4
  <2>6. RefAt(heap, call, c, idx - 1)
    BY <1>2, <2>2, <2>5 DEF RefAt
  <2>7. LoopsOK'
    BY <1>1, <1>4, <2>1, <2>6 DEF LoopsOK
  <2>8. AnswersOK'
    BY <1>1, <1>4 DEF AnswersOK, LengthCorrect, ListRefCorrect, SlotsInOrder, Done
  <2>9. c \in 0..Len(heap) /\ idx - 1 \in 0..IntMax
    <3>1. idx \in 0..IntMax /\ IntMax \in Nat
      BY HInvFacts DEF HInv, TypeOK
    <3> QED
      BY <1>3, <1>4, <3>1
  <2>10. TypeOK' /\ HeapOK'
    BY <1>1, <1>4, <2>1, <2>9 DEF HInv, TypeOK, HeapOK
  <2> QED
    BY <2>7, <2>8, <2>10 DEF HInv
<1>5. ASSUME idx = 0, Return(car(it)), UNCHANGED <<it, idx>>
      PROVE  HInv'
  <2>1. pc' = "idle" /\ ret' = Car(heap, it)
    BY <1>5 DEF Return, car, Car
  <2>2. LengthCorrect'
    BY <1>1, <1>2 DEF LengthCorrect, Done
  <2>3. ASSUME heap[i].kind = "small" PROVE ret' = ElementIn(heap, x, heap[i].val)
    <3> DEFINE n == LengthIn(heap, x) - heap[i].val
    <3>1. LengthIn(heap, it) = n
      BY <1>2, <1>5, <2>3
    <3> HIDE DEF n
    <3>2. \A z \in TailsIn(heap, x) : LengthIn(heap, z) = n => z = it
      BY <1>2, <3>1, SameLength, HInvFacts
    <3>3. (CHOOSE z \in TailsIn(heap, x) : LengthIn(heap, z) = n) = it
      BY <1>2, <3>1, <3>2
    <3> QED
      BY <2>1, <3>3 DEF ElementIn, n
  <2>4. ListRefCorrect'
    <3>1. /\ call'.args[1] = x /\ call'.args[2] = i /\ LengthOf(x)' = LengthIn(heap, x)
          /\ IsList(x)' /\ Element(x, heap[i].val)' = ElementIn(heap, x, heap'[i].val)
          /\ heap' = heap
      BY <1>1, <1>2, InHeap
    <3> QED
      BY <1>2, <2>3, <3>1 DEF ListRefCorrect
  <2>5. ret' \in 0..Len(heap)
    BY <1>3, <2>1
  <2> QED
    BY <1>1, <1>2, <1>5, <2>1, <2>2, <2>4, <2>5, LoopEnds
<1> QED
  BY <1>4, <1>5 DEF ListRefStep

-----------------------------------------------------------------------------

\* The heap that a program starts with.
LEMMA InitHeap == Init => HInv
<1> SUFFICES ASSUME Init PROVE HInv
  OBVIOUS
<1> DEFINE gs == program.given
<1>1. /\ program \in Programs /\ heap = Globals \o gs /\ pc = "idle"
      /\ call = NoCall /\ it = 0 /\ len = 0 /\ idx = 0 /\ ret = 1
  BY DEF Init, NULL, unspec
<1>2. /\ gs \in Seq(Object) /\ program.max \in 0..(IntMax - 1) /\ IntMax \in Nat
      /\ Len(Globals) + Len(gs) <= program.max
      /\ \A k \in 1..Len(gs) :
           /\ \A r \in 1..Len(gs[k].refs) : gs[k].refs[r] \in 1..(Len(Globals) + Len(gs))
           /\ gs[k].kind = "pair" => Len(gs[k].refs) = 2
           /\ gs[k].kind = "vector" => gs[k].val = Len(gs[k].refs)
  BY <1>1, HeapAssumption
<1>3. /\ Globals \in Seq(Object) /\ Len(Globals) = 3
      /\ \A j \in 1..3 : Len(Globals[j].refs) = 0 /\ Globals[j].kind \notin {"pair", "vector"}
  BY DEF Globals, Obj, Object, Kind
<1> HIDE DEF gs
<1>4. HeapIn(Globals)
  BY <1>3 DEF HeapIn, ClosedHeap
<1>5. HeapIn(heap) /\ Len(heap) = 3 + Len(gs)
  <2>1. HeapIn(Globals \o gs) /\ Len(Globals \o gs) = Len(Globals) + Len(gs)
    BY <1>2, <1>4, GrownHeap
  <2> QED
    BY <1>1, <1>3, <2>1
<1>6. HeapOK
  BY <1>1, <1>2, <1>3, <1>5 DEF HeapOK
<1>7. NoCall \in [op : Loops \cup StringOps \cup {"none"}, args : Seq(Nat)]
  BY DEF NoCall
<1>8. TypeOK
  <2>1. 0 \in 0..Len(heap) /\ 1 \in 0..Len(heap) /\ 0 \in 0..IntMax
        /\ 0 \in (-IntMax - 1)..IntMax
    BY <1>2, <1>5 DEF HeapIn
  <2> QED
    BY <1>1, <1>5, <1>7, <2>1 DEF TypeOK, HeapIn
<1>9. LoopsOK /\ AnswersOK
  BY <1>1 DEF LoopsOK, AnswersOK, LengthCorrect, ListRefCorrect, SlotsInOrder, Done, NoCall
<1> QED
  BY <1>6, <1>8, <1>9 DEF HInv

\* Every step of the pairs, lists and vectors preserves HInv.
LEMMA HeapStep ==
  ASSUME HInv, Next
  PROVE  HInv'
<1>1. CASE Reject
  <2>1. Atomic /\ UNCHANGED heap /\ pc' = "idle" /\ ret' \in 0..Len(heap)
    BY <1>1, HInvFacts DEF Reject, lsrt_error, Return, NULL
  <2> QED
    BY <2>1, SameHeap
<1>2. ASSUME NEW a \in Args(1),
             CarCdr(a[1]) \/ Predicate(a[1]) \/ VectorLength(a[1]) \/ VectorToList(a[1])
      PROVE  HInv'
  <2>1. a[1] \in 4..Len(heap)
    BY ArgsFacts
  <2> QED
    BY <1>2, <2>1, PairSteps, VectorToListStep
<1>3. ASSUME NEW a \in Args(2),
             Cons(a[1], a[2]) \/ SetCarCdr(a[1], a[2]) \/ VectorRef(a[1], a[2])
      PROVE  HInv'
  <2>1. a[1] \in 4..Len(heap) /\ a[2] \in 4..Len(heap)
    BY ArgsFacts
  <2> QED
    BY <1>3, <2>1, PairSteps, VectorRefStep
<1>4. ASSUME NEW n \in 0..MaxArgs, NEW a \in Args(n), List(a) \/ Vector(a)
      PROVE  HInv'
  <2>1. n \in Nat
    BY HeapAssumption
  <2> QED
    BY <1>4, <2>1, ListSteps
<1>5. ASSUME NEW n \in 1..2, NEW a \in Args(n),
             MakeVector(a) \/ \E op \in Loops \cap program.calls : StartWalk(op, a)
      PROVE  HInv'
  BY <1>5, MakeVectorStep, StartWalkStep
<1>6. CASE Walking
  BY <1>6, WalkPairStep, WalkNotAListStep, ListpEndStep, LengthEndStep,
     ListRefRangeStep, ListRefStepStep DEF Walking
<1> QED
  BY <1>1, <1>2, <1>3, <1>4, <1>5, <1>6 DEF Next, Start

-----------------------------------------------------------------------------

(***************************************************************************)
(* What strings mean survives as long as every write falls into the block     *)
(* that it is meant for.  The zero that substring writes behind its buffer    *)
(* does so only because the allocator adds a byte, so the theorems about      *)
(* meaning have Extra >= 1 for a hypothesis; those about the heap have not.   *)
(***************************************************************************)

\* A memory is an interval of addresses with bytes in it.
MemoryOK(m) ==
  /\ \E a, b \in Int : a <= b /\ DOMAIN m = a..b
  /\ m \in [DOMAIN m -> Byte]

\* The text t lies at p, with a zero behind it.
Spells(m, p, t) ==
  /\ p \in Int /\ t \in Seq(Byte \ {0})
  /\ \A k \in 1..Len(t) : p + k - 1 \in DOMAIN m /\ m[p + k - 1] = t[k]
  /\ p + Len(t) \in DOMAIN m /\ m[p + Len(t)] = 0

\* Where strlen stops.
ZerosFrom(a) == {b \in DOMAIN memory : b >= a /\ memory[b] = 0}

-----------------------------------------------------------------------------

\* The least and the greatest element of a set of integers.
LEMMA MinIs ==
  ASSUME NEW S \in SUBSET Int, NEW m \in S, \A y \in S : m <= y
  PROVE  Sets!Min(S) = m
<1>1. \E x \in S : \A y \in S : x <= y
  OBVIOUS
<1>2. Sets!Min(S) \in S /\ \A y \in S : Sets!Min(S) <= y
  BY <1>1, Zenon DEF Sets!Min
<1>3. Sets!Min(S) \in Int /\ m \in Int /\ Sets!Min(S) <= m /\ m <= Sets!Min(S)
  BY <1>2
<1> QED
  BY <1>3

LEMMA MaxIs ==
  ASSUME NEW S \in SUBSET Int, NEW m \in S, \A y \in S : m >= y
  PROVE  Sets!Max(S) = m
<1>1. \E x \in S : \A y \in S : x >= y
  OBVIOUS
<1>2. Sets!Max(S) \in S /\ \A y \in S : Sets!Max(S) >= y
  BY <1>1 DEF Sets!Max
<1>3. Sets!Max(S) \in Int /\ m \in Int /\ Sets!Max(S) >= m /\ m >= Sets!Max(S)
  BY <1>2
<1> QED
  BY <1>3

LEMMA IntervalEnds ==
  ASSUME NEW a \in Int, NEW b \in Int, a <= b
  PROVE  Sets!Min(a..b) = a /\ Sets!Max(a..b) = b
<1>1. a..b \in SUBSET Int /\ a \in a..b /\ b \in a..b
      /\ \A y \in a..b : a <= y /\ b >= y
  OBVIOUS
<1> DEFINE S == a..b
<1> HIDE DEF S
<1>2. S \in SUBSET Int /\ a \in S /\ b \in S /\ \A y \in S : a <= y /\ b >= y
  BY <1>1 DEF S
<1>3. Sets!Min(S) = a /\ Sets!Max(S) = b
  BY <1>2, MinIs, MaxIs
<1> QED
  BY <1>3 DEF S

\* strlen stops at the first zero, or at the end of the memory.
LEMMA StrlenStops ==
  ASSUME MemoryOK(memory), NEW p \in DOMAIN memory
  PROVE  /\ strlen(p) \in Nat
         /\ \A k \in 1..strlen(p) : p + k - 1 \in DOMAIN memory /\ memory[p + k - 1] \in Byte
         /\ ZerosFrom(p) # {} => /\ p + strlen(p) \in DOMAIN memory
                                 /\ memory[p + strlen(p)] = 0
                                 /\ \A k \in 1..strlen(p) : memory[p + k - 1] # 0
<1>1. PICK a \in Int, b \in Int : a <= b /\ DOMAIN memory = a..b
  BY DEF MemoryOK
<1>2. /\ p \in a..b /\ p \in Int /\ \A q \in a..b : memory[q] \in Byte
      /\ Sets!Max(DOMAIN memory) = b
  BY <1>1, IntervalEnds DEF MemoryOK
<1>3. strlen(p) = (IF ZerosFrom(p) = {} THEN Sets!Max(DOMAIN memory) + 1
                   ELSE Sets!Min(ZerosFrom(p))) - p
  BY DEF strlen, ZerosFrom
<1>4. CASE ZerosFrom(p) = {}
  <2>1. strlen(p) = b + 1 - p
    BY <1>2, <1>3, <1>4
  <2> QED
    BY <1>1, <1>2, <1>4, <2>1
<1>5. CASE ZerosFrom(p) # {}
  <2> DEFINE M == {n \in Nat : p + n \in ZerosFrom(p)}
  <2>1. \A z \in ZerosFrom(p) : z \in a..b /\ z >= p /\ memory[z] = 0
    BY <1>1 DEF ZerosFrom
  <2>2. M # {} /\ M \in SUBSET Nat
    <3>1. PICK z \in ZerosFrom(p) : TRUE
      BY <1>5
    <3>2. z - p \in Nat /\ p + (z - p) = z
      BY <1>1, <1>2, <2>1
    <3>3. z - p \in M
      BY <3>1, <3>2
    <3> QED
      BY <3>3
  <2>3. PICK n \in M : \A j \in M : n <= j
    <3> HIDE DEF M
    <3> QED
      BY <2>2, LeastNatural
  <2>4. \A z \in ZerosFrom(p) : p + n <= z
    <3>1. \A z \in ZerosFrom(p) : z - p \in Nat /\ p + (z - p) = z
      BY <1>1, <1>2, <2>1
    <3>2. \A z \in ZerosFrom(p) : z - p \in M
      BY <3>1
    <3>3. \A z \in ZerosFrom(p) : n <= z - p
      BY <2>3, <3>2
    <3> QED
      BY <1>1, <1>2, <2>1, <3>3
  <2>5. Sets!Min(ZerosFrom(p)) = p + n
    <3>1. ZerosFrom(p) \in SUBSET Int /\ p + n \in ZerosFrom(p)
      BY <1>1, <2>1
    <3> QED
      BY <2>4, <3>1, MinIs
  <2>6. strlen(p) = n /\ n \in Nat
    BY <1>2, <1>3, <1>5, <2>5
  <2>7. p + n \in a..b /\ memory[p + n] = 0
    BY <2>1
  <2>8. ASSUME NEW k \in 1..n
        PROVE  p + k - 1 \in a..b /\ memory[p + k - 1] # 0
    <3>1. p + k - 1 \in a..b /\ p + k - 1 >= p /\ ~(p + n <= p + k - 1)
      BY <1>1, <1>2, <2>6, <2>7
    <3>2. p + k - 1 \notin ZerosFrom(p)
      BY <2>4, <3>1
    <3> QED
      BY <1>1, <3>1, <3>2 DEF ZerosFrom
  <2> QED
    BY <1>1, <1>2, <2>6, <2>7, <2>8
<1> QED
  BY <1>4, <1>5

\* What strlen and Text find is what is spelled there.
LEMMA SpellsText ==
  ASSUME MemoryOK(memory), NEW p, NEW t, Spells(memory, p, t)
  PROVE  /\ p \in DOMAIN memory
         /\ strlen(p) = Len(t) /\ Text(p) = t
<1>1. /\ p \in Int /\ t \in Seq(Byte \ {0}) /\ Len(t) \in Nat
      /\ \A k \in 1..Len(t) : p + k - 1 \in DOMAIN memory /\ memory[p + k - 1] = t[k]
      /\ p + Len(t) \in DOMAIN memory /\ memory[p + Len(t)] = 0
  BY DEF Spells
<1>2. PICK a \in Int, b \in Int : a <= b /\ DOMAIN memory = a..b
  BY DEF MemoryOK
<1>3. p \in DOMAIN memory
  <2>1. CASE Len(t) = 0
    BY <1>1, <2>1
  <2>2. CASE Len(t) # 0
    <3>1. 1 \in 1..Len(t) /\ p + 1 - 1 = p
      BY <1>1, <2>2
    <3> QED
      BY <1>1, <3>1
  <2> QED
    BY <2>1, <2>2
<1>4. p + Len(t) \in ZerosFrom(p)
  BY <1>1 DEF ZerosFrom
<1>5. /\ strlen(p) \in Nat /\ p + strlen(p) \in DOMAIN memory /\ memory[p + strlen(p)] = 0
      /\ \A k \in 1..strlen(p) : memory[p + k - 1] # 0
  BY <1>3, <1>4, StrlenStops
<1>6. strlen(p) <= Len(t)
  <2> SUFFICES ASSUME Len(t) < strlen(p) PROVE FALSE
    BY <1>1, <1>5
  <2>1. Len(t) + 1 \in 1..strlen(p) /\ p + (Len(t) + 1) - 1 = p + Len(t)
    BY <1>1, <1>5
  <2> QED
    BY <1>1, <1>5, <2>1
<1>7. strlen(p) >= Len(t)
  <2> SUFFICES ASSUME strlen(p) < Len(t) PROVE FALSE
    BY <1>1, <1>5
  <2>1. strlen(p) + 1 \in 1..Len(t) /\ p + (strlen(p) + 1) - 1 = p + strlen(p)
    BY <1>1, <1>5
  <2>2. t[strlen(p) + 1] = 0 /\ t[strlen(p) + 1] \in Byte \ {0}
    BY <1>1, <1>5, <2>1
  <2> QED
    BY <2>2
<1>8. strlen(p) = Len(t)
  BY <1>1, <1>5, <1>6, <1>7
<1>9. Text(p) = [k \in 1..Len(t) |-> t[k]]
  BY <1>1, <1>8 DEF Text
<1> QED
  BY <1>1, <1>3, <1>8, <1>9

\* The rest of a text.
LEMMA SpellsRest ==
  ASSUME NEW m, NEW p, NEW t, Spells(m, p, t), NEW s \in 0..Len(t)
  PROVE  Spells(m, p + s, SubSeq(t, s + 1, Len(t)))
<1> DEFINE r == SubSeq(t, s + 1, Len(t))
<1>1. t \in Seq(Byte \ {0}) /\ Len(t) \in Nat /\ s \in Nat /\ p \in Int
  BY DEF Spells
<1>2. r \in Seq(Byte \ {0}) /\ Len(r) = Len(t) - s /\ \A k \in 1..Len(r) : r[k] = t[s + k]
  BY <1>1
<1> HIDE DEF r
<1>3. (p + s) + Len(r) = p + Len(t)
  BY <1>1, <1>2
<1>4. ASSUME NEW k \in 1..Len(r)
      PROVE  (p + s) + k - 1 \in DOMAIN m /\ m[(p + s) + k - 1] = r[k]
  <2>1. s + k \in 1..Len(t) /\ (p + s) + k - 1 = p + (s + k) - 1
    BY <1>1, <1>2
  <2> QED
    BY <1>2, <2>1 DEF Spells
<1>5. Spells(m, p + s, r)
  BY <1>1, <1>2, <1>3, <1>4 DEF Spells
<1> QED
  BY <1>5 DEF r

-----------------------------------------------------------------------------

\* A block has the bytes asked for and those that the allocator adds.
LEMMA BlockFacts ==
  ASSUME NEW n \in Nat
  PROVE  BlockSize(n) \in Nat /\ BlockSize(n) >= n + Extra /\ Extra \in Nat
<1>1. Granule \in Nat \ {0} /\ Extra \in Nat
  BY StringsAssumption
<1>2. \A k \in Nat : \A g \in Nat \ {0} :
        ((k + g - 1) \div g) * g >= k /\ ((k + g - 1) \div g) * g \in Nat
  OBVIOUS
<1> QED
  BY <1>1, <1>2 DEF BlockSize

\* A new block lies beside the memory, is cleared, and leaves the rest as it was.
LEMMA FreshBlock ==
  ASSUME MemoryOK(memory), NEW n \in Nat, n >= 1, NEW buf \in Places(n),
         NEW m, m = GC_malloc(buf, n)
  PROVE  /\ MemoryOK(m) /\ buf \in Int /\ DOMAIN memory \subseteq DOMAIN m
         /\ \A q \in DOMAIN memory : m[q] = memory[q]
         /\ \A q \in buf..(buf + BlockSize(n) - 1) :
              q \in DOMAIN m /\ q \notin DOMAIN memory /\ m[q] = 0
<1> DEFINE B == BlockSize(n)
<1>1. B \in Nat /\ B >= 1
  BY BlockFacts
<1>2. PICK a \in Int, b \in Int : a <= b /\ DOMAIN memory = a..b
  BY DEF MemoryOK
<1>3. \A q \in a..b : memory[q] \in Byte
  BY <1>2 DEF MemoryOK
<1>4. Places(n) = {a - B, b + 1}
  BY <1>2, IntervalEnds DEF Places
<1>5. m = [q \in a..b \cup buf..(buf + B - 1) |-> IF q \in a..b THEN memory[q] ELSE 0]
  BY <1>2 DEF GC_malloc
<1> HIDE DEF B
<1>6. buf \in Int /\ (buf = a - B \/ buf = b + 1)
  BY <1>1, <1>2, <1>4
<1>7. \A q \in buf..(buf + B - 1) : q \notin a..b
  BY <1>1, <1>2, <1>6
<1>8. \E c, d \in Int : c <= d /\ a..b \cup buf..(buf + B - 1) = c..d
  <2>1. CASE buf = a - B
    <3>1. a - B <= b /\ a - B \in Int /\ a..b \cup buf..(buf + B - 1) = (a - B)..b
      BY <1>1, <1>2, <2>1
    <3> QED
      BY <1>2, <3>1
  <2>2. CASE buf = b + 1
    <3>1. a <= b + B /\ b + B \in Int /\ a..b \cup buf..(buf + B - 1) = a..(b + B)
      BY <1>1, <1>2, <2>2
    <3> QED
      BY <1>2, <3>1
  <2> QED
    BY <1>6, <2>1, <2>2
<1>9. m \in [DOMAIN m -> Byte]
  <2>1. 0 \in Byte
    BY DEF Byte
  <2> QED
    BY <1>3, <1>5, <2>1
<1>10. MemoryOK(m)
  BY <1>5, <1>8, <1>9 DEF MemoryOK
<1> QED
  BY <1>2, <1>5, <1>6, <1>7, <1>10 DEF B

\* w has s at p and is m elsewhere.
Written(m, p, s, w) ==
  /\ MemoryOK(w) /\ DOMAIN w = DOMAIN m
  /\ \A k \in 1..Len(s) : p + k - 1 \in DOMAIN m => w[p + k - 1] = s[k]
  /\ \A q \in DOMAIN m : q \notin p..(p + Len(s) - 1) => w[q] = m[q]

\* Writing changes the bytes written to.
LEMMA WriteFacts ==
  ASSUME NEW m, MemoryOK(m), NEW p \in Int, NEW s \in Seq(Byte)
  PROVE  Written(m, p, s, Write(m, p, s))
<1> DEFINE w == Write(m, p, s)
<1>1. Len(s) \in Nat /\ \A k \in 1..Len(s) : s[k] \in Byte
  OBVIOUS
<1>2. w = [q \in DOMAIN m |-> IF q \in p..(p + Len(s) - 1) THEN s[q - p + 1] ELSE m[q]]
  BY DEF Write
<1> HIDE DEF w
<1>3. \A q \in p..(p + Len(s) - 1) : q - p + 1 \in 1..Len(s)
  BY <1>1
<1>4. \A k \in 1..Len(s) : p + k - 1 \in p..(p + Len(s) - 1) /\ (p + k - 1) - p + 1 = k
  BY <1>1
<1>5. DOMAIN w = DOMAIN m
  BY <1>2
<1>6. w \in [DOMAIN m -> Byte]
  BY <1>1, <1>2, <1>3 DEF MemoryOK
<1>7. MemoryOK(w)
  BY <1>5, <1>6 DEF MemoryOK
<1>8. \A k \in 1..Len(s) : p + k - 1 \in DOMAIN m => w[p + k - 1] = s[k]
  BY <1>2, <1>4
<1>9. \A q \in DOMAIN m : q \notin p..(p + Len(s) - 1) => w[q] = m[q]
  BY <1>2
<1> QED
  BY <1>5, <1>7, <1>8, <1>9 DEF Written, w

\* Sequences joined make a sequence.
LEMMA FlattenFacts ==
  ASSUME NEW S, NEW ss \in Seq(Seq(S))
  PROVE  Seqs!FlattenSeq(ss) \in Seq(S)
<1> DEFINE n == Len(ss)
           X == Seq(S)
           E(i, f) == IF i = 0 THEN <<>>
                      ELSE IF i = 1 THEN ss[i] ELSE f[i - 1] \o ss[i]
           G == [i \in 0..n |-> [f \in [0..n -> X] |-> E(i, f)]]
           D(F) == F = [i \in 1..n |-> IF i = 1 THEN ss[i] ELSE F[i - 1] \o ss[i]]
           C == CHOOSE F : D(F)
<1>1. n \in Nat /\ <<>> \in X /\ X # {} /\ \A i \in 1..n : ss[i] \in X
  OBVIOUS
<1>2. CASE n = 0
  BY <1>2 DEF Seqs!FlattenSeq
<1>3. CASE n # 0
  <2>1. Seqs!FlattenSeq(ss) = C[n]
    BY <1>3 DEF Seqs!FlattenSeq
  <2>2. \A i \in 0..n, f \in [0..n -> X] : E(i, f) \in X
    <3> SUFFICES ASSUME NEW i \in 0..n, NEW f \in [0..n -> X] PROVE E(i, f) \in X
      OBVIOUS
    <3>1. CASE i = 0
      BY <1>1, <3>1
    <3>2. CASE i = 1
      BY <1>1, <1>3, <3>2
    <3>3. CASE i > 1
      <4>1. f[i - 1] \in Seq(S) /\ ss[i] \in Seq(S)
        <5>1. i - 1 \in 0..n /\ i \in 1..n
          BY <1>1, <3>3
        <5> QED
          BY <5>1, <1>1
      <4> QED
        BY <1>1, <3>3, <4>1
    <3> QED
      BY <1>1, <3>1, <3>2, <3>3
  <2>3. G \in Functionals(n, X)
    <3> HIDE DEF E, X
    <3> QED
      BY <2>2 DEF Functionals
  <2>4. LooksBelow(G, n, X)
    <3>1. ASSUME NEW i \in 0..n, NEW f \in [0..n -> X], NEW g \in [0..n -> X],
                 \A j \in 0..(i - 1) : f[j] = g[j]
          PROVE  E(i, f) = E(i, g)
      <4>1. i > 1 => i - 1 \in 0..(i - 1)
        BY <1>1
      <4> QED
        BY <1>1, <3>1, <4>1
    <3> HIDE DEF E, X, n
    <3> QED
      BY <3>1 DEF LooksBelow
  <2>5. PICK F : Fixpoint(F, G, n, X)
    <3> HIDE DEF G, X, n
    <3> QED
      BY <1>1, <2>3, <2>4, RecursiveFunction
  <2>6. F \in [0..n -> X] /\ \A i \in 0..n : F[i] = E(i, F)
    <3> HIDE DEF E, X, n
    <3> QED
      BY <2>5 DEF Fixpoint
  <2> DEFINE H == [i \in 1..n |-> F[i]]
  <2>7. D(H)
    <3>1. ASSUME NEW i \in 1..n
          PROVE  H[i] = IF i = 1 THEN ss[i] ELSE H[i - 1] \o ss[i]
      <4>1. F[i] = IF i = 1 THEN ss[i] ELSE F[i - 1] \o ss[i]
        <5>1. F[i] = E(i, F)
          <6>1. i \in 0..n
            BY <1>1
          <6> HIDE DEF E
          <6> QED
            BY <2>6, <6>1
        <5>2. i # 0
          BY <1>1
        <5> QED
          BY <5>1, <5>2
      <4>2. i # 1 => i - 1 \in 1..n
        BY <1>1
      <4> QED
        BY <4>1, <4>2
    <3>2. H = [i \in 1..n |-> H[i]]
      OBVIOUS
    <3> HIDE DEF H, n
    <3> QED
      BY <3>1, <3>2
  <2>8. D(C)
    <3> HIDE DEF D, H
    <3> QED
      BY <2>7, Zenon
  <2> DEFINE P == {i \in Nat : i \in 1..n => C[i] \in X}
  <2>9. ASSUME NEW i \in Nat, \A j \in 0..(i - 1) : j \in P PROVE i \in P
    <3> SUFFICES ASSUME i \in 1..n PROVE C[i] \in X
      OBVIOUS
    <3>1. C[i] = IF i = 1 THEN ss[i] ELSE C[i - 1] \o ss[i]
      <4> HIDE DEF C
      <4> QED
        BY <2>8
    <3> HIDE DEF C
    <3>2. CASE i = 1
      BY <1>1, <3>1, <3>2
    <3>3. CASE i # 1
      <4>1. i - 1 \in 0..(i - 1) /\ i - 1 \in 1..n
        BY <1>1, <3>3
      <4>2. C[i - 1] \in Seq(S) /\ ss[i] \in Seq(S)
        BY <1>1, <2>9, <4>1
      <4>3. C[i - 1] \o ss[i] \in Seq(S)
        BY <4>2
      <4> QED
        BY <3>1, <3>3, <4>3
    <3> QED
      BY <3>2, <3>3
  <2>10. Nat \subseteq P
    <3> HIDE DEF P
    <3> QED
      BY <2>9, NatSetInduction
  <2>11. C[n] \in X
    <3>1. n \in 1..n
      BY <1>1, <1>3
    <3>2. n \in P
      <4> HIDE DEF P, n
      <4> QED
        BY <1>1, <2>10
    <3> QED
      BY <3>1, <3>2
  <2> QED
    BY <2>1, <2>11
<1> QED
  BY <1>2, <1>3

-----------------------------------------------------------------------------

\* Every string and symbol points into the memory and has a meaning.
NamesOK ==
  /\ MemoryOK(memory)
  /\ DOMAIN meant = Named
  /\ \A x \in Named : heap[x].val \in DOMAIN memory

SInv == HInv /\ NamesOK

\* The bytes of every string and symbol spell what it means.
Spelled == \A x \in Named : Spells(memory, heap[x].val, meant[x])

Lower(s) == [k \in 1..Len(s) |-> tolower(s[k])]

\* What was answered last went by the meaning.
StringAnswers ==
  LET x == call.args[1]
      y == call.args[2]
  IN
  /\ Done("string-length") => heap[ret].val = Len(meant[x])
  /\ Done("string=?") => ret = Bool(meant[x] = meant[y])
  /\ Done("string-ci=?") => ret = Bool(Lower(meant[x]) = Lower(meant[y]))

NamesKept == Named' = Named /\ \A x \in Named : heap'[x].val = heap[x].val

-----------------------------------------------------------------------------

\* Objects of other kinds bring no names.
LEMMA NoNewNames ==
  ASSUME HInv, NEW os \in Seq(Object), heap' = heap \o os,
         \A j \in 1..Len(os) : os[j].kind \notin {"string", "symbol"}
  PROVE  NamesKept
<1>1. /\ Len(heap) \in Nat /\ Len(os) \in Nat /\ Len(heap') = Len(heap) + Len(os)
      /\ \A y \in 1..Len(heap) : heap'[y] = heap[y]
      /\ \A j \in 1..Len(os) : heap'[Len(heap) + j] = os[j]
  BY HInvFacts, ConcatFacts
<1>2. ASSUME NEW y \in 1..Len(heap'), y \notin 1..Len(heap)
      PROVE  heap'[y].kind \notin {"string", "symbol"}
  <2>1. y - Len(heap) \in 1..Len(os) /\ y = Len(heap) + (y - Len(heap))
    BY <1>1, <1>2
  <2>2. heap'[y] = os[y - Len(heap)]
    BY <1>1, <2>1
  <2> QED
    BY <2>1, <2>2
<1>3. \A y \in 1..Len(heap) : y \in 1..Len(heap')
  BY <1>1
<1> QED
  BY <1>1, <1>2, <1>3 DEF NamesKept, Named

\* One object of another kind.
LEMMA NoNewName ==
  ASSUME HInv, NEW o \in Object, lsrt_new_object(<<o>>), o.kind \notin {"string", "symbol"}
  PROVE  NamesKept
<1>1. <<o>> \in Seq(Object) /\ \A j \in 1..Len(<<o>>) : <<o>>[j].kind \notin {"string", "symbol"}
  OBVIOUS
<1> QED
  BY <1>1, NoNewNames DEF lsrt_new_object

\* Assigning an element of a pair changes no name.
LEMMA AssignedNames ==
  ASSUME HInv, NEW x \in 1..Len(heap), heap[x].kind = "pair", NEW y \in 1..Len(heap),
         NEW i \in {1, 2}, heap' = [heap EXCEPT ![x].refs[i] = y]
  PROVE  NamesKept
<1> DEFINE o == [heap[x] EXCEPT !.refs = [heap[x].refs EXCEPT ![i] = y]]
<1>1. heap \in Seq(Object) /\ heap[x] \in Object
  BY HInvFacts
<1>2. o.kind = "pair"
  BY <1>1 DEF Object
<1>3. heap' = [heap EXCEPT ![x] = o]
  OBVIOUS
<1> HIDE DEF o
<1>4. Len(heap') = Len(heap) /\ \A w \in 1..Len(heap) : heap'[w] = IF w = x THEN o ELSE heap[w]
  BY <1>1, <1>3
<1> QED
  BY <1>2, <1>4 DEF NamesKept, Named

\* No step of the pairs, lists and vectors touches a string or a symbol.
LEMMA HeapNames ==
  ASSUME HInv, Next
  PROVE  NamesKept /\ call'.op \notin StringOps
<1> DEFINE Same == NamesKept /\ call'.op \notin StringOps
<1> SUFFICES Same
  OBVIOUS
<1>1. ASSUME Atomic \/ (UNCHANGED call /\ pc # "idle") \/ (\E op \in Loops : call'.op = op)
      PROVE  call'.op \notin StringOps
  <2>1. Loops \cap StringOps = {} /\ "none" \notin StringOps
    BY DEF Loops, StringOps
  <2>2. pc # "idle" => call.op \in Loops
    BY DEF HInv, TypeOK, LoopsOK, WalkAt, RefAt, Loops
  <2> QED
    BY <1>1, <2>1, <2>2 DEF Atomic, NoCall
<1>2. UNCHANGED heap => NamesKept
  BY DEF NamesKept, Named
<1>3. CASE Reject
  BY <1>1, <1>2, <1>3 DEF Reject
<1>4. ASSUME NEW a \in Args(1), CarCdr(a[1]) \/ Predicate(a[1]) \/ VectorLength(a[1])
      PROVE  Same
  <2> DEFINE x == a[1]
  <2>1. x \in 1..Len(heap)
    BY ArgsFacts
  <2>2. Atomic
    BY <1>4 DEF CarCdr, Predicate, VectorLength
  <2>3. CASE UNCHANGED heap
    BY <1>1, <1>2, <2>2, <2>3
  <2>4. CASE \E v \in {0, 1} : lsrt_new_object(<<Obj("boolean", v, <<>>)>>)
    <3>1. PICK v \in {0, 1} : lsrt_new_object(<<Obj("boolean", v, <<>>)>>)
      BY <2>4
    <3>2. Obj("boolean", v, <<>>) \in Object /\ Obj("boolean", v, <<>>).kind = "boolean"
      BY DEF Obj, Object, Kind
    <3> QED
      BY <1>1, <2>2, <3>1, <3>2, NoNewName
  <2>5. CASE lsrt_new_object(<<Obj("small", heap[x].val, <<>>)>>)
    <3>1. heap[x].val \in Int
      <4>1. heap[x] \in Object
        BY <2>1, HInvFacts
      <4> QED
        BY <4>1 DEF Object
    <3>2. /\ Obj("small", heap[x].val, <<>>) \in Object
          /\ Obj("small", heap[x].val, <<>>).kind = "small"
      BY <3>1 DEF Obj, Object, Kind
    <3> QED
      BY <1>1, <2>2, <2>5, <3>2, NoNewName
  <2> HIDE DEF Same
  <2> QED
    BY <1>4, <2>3, <2>4, <2>5 DEF CarCdr, Predicate, VectorLength
<1>5. ASSUME NEW xs \in Seq(Nat), \A k \in 1..Len(xs) : xs[k] \in 1..Len(heap),
             lsrt_new_object(listOf(xs))
      PROVE  NamesKept
  <2>1. listOf(xs) \in Seq(Object) /\ Len(listOf(xs)) = Len(xs) + 1
        /\ listOf(xs)[1].kind = "nil"
        /\ \A j \in 1..Len(xs) : listOf(xs)[j + 1].kind = "pair"
    <3>1. /\ listOf(xs) \in Seq(Object) /\ Len(listOf(xs)) = Len(xs) + 1
          /\ listOf(xs)[1] = Obj("nil", 0, <<>>)
          /\ \A k \in 1..Len(xs) :
               listOf(xs)[k + 1] = Obj("pair", 0, <<xs[Len(xs) + 1 - k], Len(heap) + k>>)
      BY <1>5, ListOfFacts
    <3>2. \A k, v, r : Obj(k, v, r).kind = k
      BY DEF Obj
    <3> DEFINE l == listOf(xs)
    <3> HIDE DEF l
    <3>3. /\ l[1] = Obj("nil", 0, <<>>)
          /\ \A k \in 1..Len(xs) : \E r : l[k + 1] = Obj("pair", 0, r)
      BY <3>1 DEF l
    <3>4. l[1].kind = "nil"
      BY <3>2, <3>3
    <3>5. ASSUME NEW k \in 1..Len(xs) PROVE l[k + 1].kind = "pair"
      <4>1. PICK r : l[k + 1] = Obj("pair", 0, r)
        BY <3>3
      <4> QED
        BY <3>2, <4>1
    <3> QED
      BY <3>1, <3>4, <3>5 DEF l
  <2>2. ASSUME NEW j \in 1..(Len(xs) + 1) PROVE listOf(xs)[j].kind \notin {"string", "symbol"}
    <3>1. j = 1 \/ (j - 1 \in 1..Len(xs) /\ (j - 1) + 1 = j)
      OBVIOUS
    <3> QED
      BY <2>1, <3>1
  <2> QED
    BY <1>5, <2>1, <2>2, NoNewNames DEF lsrt_new_object
<1>6. ASSUME NEW a \in Args(1), VectorToList(a[1])
      PROVE  Same
  <2>1. a[1] \in 1..Len(heap) /\ heap[a[1]] \in Object
    BY ArgsFacts, HInvFacts
  <2>2. heap[a[1]].refs \in Seq(Nat)
    BY <2>1 DEF Object
  <2>3. \A k \in 1..Len(heap[a[1]].refs) : heap[a[1]].refs[k] \in 1..Len(heap)
    BY <2>1, HInvFacts DEF ClosedHeap
  <2>4. lsrt_new_object(listOf(heap[a[1]].refs)) /\ call'.op = "vector->list"
    BY <1>6 DEF VectorToList
  <2> QED
    BY <1>1, <1>5, <2>2, <2>3, <2>4 DEF Loops
<1>7. ASSUME NEW a \in Args(2), Cons(a[1], a[2]) \/ SetCarCdr(a[1], a[2]) \/ VectorRef(a[1], a[2])
      PROVE  Same
  <2> DEFINE x == a[1]
             y == a[2]
  <2>1. x \in 1..Len(heap) /\ y \in 1..Len(heap) /\ x \in Nat /\ y \in Nat
    BY ArgsFacts
  <2>2. Atomic
    BY <1>7 DEF Cons, SetCarCdr, VectorRef
  <2>3. CASE Cons(x, y)
    <3> DEFINE o == Obj("pair", 0, <<x, y>>)
    <3>1. o \in Object /\ o.kind = "pair" /\ lsrt_new_object(<<o>>)
      BY <2>1, <2>3 DEF Obj, Object, Kind, Cons
    <3> HIDE DEF o
    <3> QED
      BY <1>1, <2>2, <3>1, NoNewName
  <2>4. CASE SetCarCdr(x, y)
    <3>1. heap[x].kind = "pair" /\ \E i \in {1, 2} : heap' = [heap EXCEPT ![x].refs[i] = y]
      BY <2>4 DEF SetCarCdr, Called, Checked, Is
    <3> QED
      BY <1>1, <2>1, <2>2, <3>1, AssignedNames
  <2>5. CASE VectorRef(x, y)
    BY <1>1, <1>2, <2>2, <2>5 DEF VectorRef
  <2> QED
    BY <1>7, <2>3, <2>4, <2>5
<1>8. ASSUME NEW n \in Nat, NEW f \in [1..n -> Nat],
             lsrt_new_object(<<fill(vector_new(n), n, f)>>)
      PROVE  NamesKept
  <2>1. fill(vector_new(n), n, f) \in Object /\ fill(vector_new(n), n, f).kind = "vector"
    BY FilledVector
  <2> QED
    BY <1>8, <2>1, NoNewName
<1>9. ASSUME NEW n \in 0..MaxArgs, NEW a \in Args(n), List(a) \/ Vector(a)
      PROVE  Same
  <2>1. n \in Nat
    BY HeapAssumption
  <2>2. a \in Seq(Nat) /\ Len(a) = n /\ \A k \in 1..n : a[k] \in 1..Len(heap)
    BY <2>1, ArgsFacts
  <2>3. a \in [1..Len(a) -> Nat] /\ Len(a) \in Nat
    BY <2>2
  <2>4. Atomic
    BY <1>9 DEF List, Vector
  <2>5. CASE List(a)
    BY <1>1, <1>5, <2>2, <2>4, <2>5 DEF List
  <2>6. CASE Vector(a)
    BY <1>1, <1>8, <2>3, <2>4, <2>6 DEF Vector
  <2> QED
    BY <1>9, <2>5, <2>6
<1>10. ASSUME NEW n \in 1..2, NEW a \in Args(n), MakeVector(a)
       PROVE  Same
  <2>1. a \in Seq(Nat) /\ Len(a) = n /\ \A k \in 1..n : a[k] \in Nat
    BY ArgsFacts
  <2>2. Atomic
    BY <1>10 DEF MakeVector
  <2>3. PICK m \in lso_simplenumber_get(a[1]) :
       \/ m < 0 /\ lsrt_error /\ UNCHANGED heap
       \/ /\ m \in 0..MaxArgs
          /\ LET x == IF Len(a) = 1 THEN unspec ELSE a[2]
             IN lsrt_new_object(<<fill(vector_new(m), m, [k \in 1..m |-> x])>>)
    BY <1>10 DEF MakeVector
  <2>4. ASSUME m \in 0..MaxArgs, NEW x \in Nat,
               lsrt_new_object(<<fill(vector_new(m), m, [k \in 1..m |-> x])>>)
        PROVE  NamesKept
    <3>1. m \in Nat /\ [k \in 1..m |-> x] \in [1..m -> Nat]
      BY <2>4, HeapAssumption
    <3> QED
      BY <1>8, <2>4, <3>1
  <2>5. unspec \in Nat /\ (Len(a) # 1 => a[2] \in Nat)
    BY <2>1 DEF unspec
  <2>6. NamesKept
    BY <1>2, <2>3, <2>4, <2>5
  <2> QED
    BY <1>1, <2>2, <2>6
<1>11. ASSUME NEW n \in 1..2, NEW a \in Args(n), NEW op \in Loops, StartWalk(op, a)
       PROVE  Same
  BY <1>1, <1>2, <1>11 DEF StartWalk
<1>12. CASE Walking
  <2>1. UNCHANGED call /\ pc # "idle"
    BY <1>12 DEF Walking, WalkPair, WalkNotAList, ListpEnd, LengthEnd, ListRefRange,
                 ListRefStep, AtNil
  <2>2. CASE LengthEnd
    <3> DEFINE o == Obj("small", len, <<>>)
    <3>1. o \in Object /\ o.kind = "small" /\ lsrt_new_object(<<o>>)
      BY <2>2, HInvFacts DEF Obj, Object, Kind, LengthEnd
    <3> HIDE DEF o
    <3> QED
      BY <1>1, <2>1, <3>1, NoNewName
  <2>3. CASE ~LengthEnd
    <3>1. UNCHANGED heap
      BY <1>12, <2>3 DEF Walking, WalkPair, WalkNotAList, ListpEnd, ListRefRange, ListRefStep
    <3> QED
      BY <1>1, <1>2, <2>1, <3>1
  <2> QED
    BY <2>2, <2>3
<1> HIDE DEF Same
<1> QED
  BY <1>3, <1>4, <1>6, <1>7, <1>9, <1>10, <1>11, <1>12 DEF Next, Start

-----------------------------------------------------------------------------

\* What names are: objects that point to bytes.
LEMMA NameFacts ==
  ASSUME SInv, NEW x \in Named
  PROVE  /\ x \in 1..Len(heap) /\ x \in Nat /\ heap[x].val \in DOMAIN memory /\ heap[x].val \in Int
         /\ Text(heap[x].val) \in Seq(Byte) /\ Len(Text(heap[x].val)) = strlen(heap[x].val)
         /\ strlen(heap[x].val) \in Nat
<1>1. x \in 1..Len(heap) /\ heap[x] \in Object /\ MemoryOK(memory)
      /\ heap[x].val \in DOMAIN memory
  BY HInvFacts DEF SInv, NamesOK, Named
<1>2. heap[x].val \in Int
  BY <1>1 DEF Object
<1> DEFINE p == heap[x].val
           n == strlen(p)
<1>3. n \in Nat /\ \A k \in 1..n : memory[p + k - 1] \in Byte
  BY <1>1, StrlenStops
<1>4. Text(p) = [k \in 1..n |-> memory[p + k - 1]]
  BY DEF Text
<1> HIDE DEF p, n
<1>5. Text(p) \in Seq(Byte) /\ Len(Text(p)) = n
  BY <1>3, <1>4
<1> QED
  BY <1>1, <1>2, <1>3, <1>5 DEF p, n

\* What lso_simplenumber_get gives is an integer.
LEMMA IndexFacts ==
  ASSUME HInv, NEW i \in 1..Len(heap)
  PROVE  lso_simplenumber_get(i) \subseteq Int
<1>1. heap[i] \in Object
  BY HInvFacts
<1>2. heap[i].val \in Int /\ PointerBits \subseteq Int
  BY <1>1, HeapAssumption DEF Object
<1> QED
  BY <1>2 DEF lso_simplenumber_get

\* A string builtin that is recorded and leaves a well-formed heap preserves HInv.
LEMMA RecordedStep ==
  ASSUME HInv, HeapOK', NEW op \in StringOps, NEW args \in Seq(Nat), Recorded(op, args),
         pc' = "idle", ret' \in 0..Len(heap')
  PROVE  HInv'
<1>1. /\ call' = [op |-> op, args |-> args] /\ it' = 0 /\ len' = 0 /\ idx' = 0
      /\ program' = program
  BY DEF Recorded, NULL
<1>2. call' \in [op : Loops \cup StringOps \cup {"none"}, args : Seq(Nat)]
  BY <1>1
<1>3. 0 \in 0..Len(heap') /\ 0 \in 0..IntMax /\ 0 \in (-IntMax - 1)..IntMax
  BY HeapAssumption DEF HeapOK, HeapIn
<1>4. TypeOK'
  BY <1>1, <1>2, <1>3 DEF TypeOK, HeapOK, HeapIn
<1>5. LoopsOK'
  BY DEF LoopsOK
<1>6. call'.op \notin {"list?", "length", "list-ref", "vector->list"}
  BY <1>1 DEF StringOps
<1>7. AnswersOK'
  BY <1>6 DEF AnswersOK, LengthCorrect, ListRefCorrect, SlotsInOrder, Done
<1> QED
  BY <1>4, <1>5, <1>7 DEF HInv

\* A step that keeps the names and the memory keeps what they spell.
LEMMA NamesStay ==
  ASSUME SInv, HInv', NamesKept, UNCHANGED <<memory, meant>>
  PROVE  SInv' /\ (Spelled => Spelled')
<1>1. Named' = Named /\ \A x \in Named : heap'[x].val = heap[x].val
  BY DEF NamesKept
<1>2. NamesOK'
  BY <1>1 DEF SInv, NamesOK
<1>3. Spelled => Spelled'
  BY <1>1 DEF Spelled
<1> QED
  BY <1>2, <1>3 DEF SInv

\* A predicate or a comparison.
LEMMA AnswerStep ==
  ASSUME SInv, NEW op \in StringOps, NEW args \in Seq(Nat), NEW b, Answer(op, args, b)
  PROVE  SInv' /\ (Spelled => Spelled')
<1>1. /\ Recorded(op, args) /\ UNCHANGED <<heap, memory, meant>> /\ pc' = "idle"
      /\ ret' = Bool(b)
  BY DEF Answer, Return
<1>2. HeapOK' /\ ret' \in 0..Len(heap')
  BY <1>1, HInvFacts DEF SInv, HInv, HeapOK, Recorded, Bool
<1>3. HInv'
  BY <1>1, <1>2, RecordedStep DEF SInv
<1>4. NamesKept
  BY <1>1 DEF NamesKept, Named
<1> QED
  BY <1>1, <1>3, <1>4, NamesStay

\* The length of a string.
LEMMA StringLengthStep ==
  ASSUME SInv, NEW x \in 1..Len(heap), StringLength(x)
  PROVE  /\ SInv' /\ (Spelled => Spelled')
         /\ x \in Named /\ heap'[ret'].val = strlen(heap[x].val)
<1> DEFINE o == Obj("small", strlen(heap[x].val), <<>>)
           os == <<o>>
<1>1. x \in Named
  BY DEF StringLength, Called, Checked, Is, Named
<1>2. o \in Object /\ Len(o.refs) = 0 /\ o.kind = "small" /\ o.val = strlen(heap[x].val)
  BY <1>1, NameFacts DEF Obj, Object, Kind
<1>3. lsrt_new_object(<<o>>) /\ Recorded("string-length", <<x>>) /\ UNCHANGED <<memory, meant>>
  BY DEF StringLength, lso_string_get
<1> HIDE DEF o
<1>4. os \in Seq(Object) /\ Len(os) = 1 /\ os[1] = o /\ \A j \in 1..Len(os) : os[j] = o
  BY <1>2
<1>5. lsrt_new_object(os)
  BY <1>3
<1> HIDE DEF os
<1>6. /\ HeapOK' /\ pc' = "idle" /\ ret' \in 0..Len(heap') /\ ret' = Len(heap')
      /\ Len(heap') = Len(heap) + 1 /\ heap'[Len(heap) + 1] = o
  <2>1. \A j \in 1..Len(os) :
          /\ \A k \in 1..Len(os[j].refs) : os[j].refs[k] \in 1..(Len(heap) + Len(os))
          /\ os[j].kind = "pair" => Len(os[j].refs) = 2
          /\ os[j].kind = "vector" => os[j].val = Len(os[j].refs)
    BY <1>2, <1>4
  <2>2. HInv /\ UNCHANGED program /\ 1 \in 1..Len(os)
    BY <1>3, <1>4 DEF SInv, Recorded
  <2> QED
    BY <1>4, <1>5, <2>1, <2>2, NewObjects
<1>7. <<x>> \in Seq(Nat) /\ "string-length" \in StringOps
  BY <1>1, NameFacts DEF StringOps
<1>8. HInv'
  BY <1>3, <1>6, <1>7, RecordedStep DEF SInv
<1>9. NamesKept
  BY <1>2, <1>3, NoNewName DEF SInv
<1> QED
  BY <1>1, <1>2, <1>3, <1>6, <1>8, <1>9, NamesStay

\* A new string.
LEMMA NewStringStep ==
  ASSUME SInv, NEW buf \in Int, NEW text, NewString(buf, text), MemoryOK(memory'),
         DOMAIN memory \subseteq DOMAIN memory', buf \in DOMAIN memory'
  PROVE  /\ SInv' /\ call' = NoCall
         /\ (/\ Spelled /\ \A q \in DOMAIN memory : memory'[q] = memory[q]
             /\ Spells(memory', buf, text)) => Spelled'
<1> DEFINE o == Obj("string", buf, <<>>)
           N == Len(heap)
<1>1. o \in Object /\ Len(o.refs) = 0 /\ o.kind = "string" /\ o.val = buf
  BY DEF Obj, Object, Kind
<1>2. /\ lsrt_new_object(<<o>>) /\ Atomic
      /\ meant' = [x \in Named \cup {N + 1} |-> IF x \in Named THEN meant[x] ELSE text]
  BY DEF NewString
<1> HIDE DEF o
<1>3. HInv'
  BY <1>1, <1>2, OneObject DEF SInv
<1>4. /\ N \in Nat /\ Len(heap') = N + 1 /\ heap'[N + 1] = o
      /\ \A y \in 1..N : heap'[y] = heap[y]
  <2>1. heap \in Seq(Object) /\ heap' = heap \o <<o>>
    BY <1>2, HInvFacts DEF SInv, lsrt_new_object
  <2> QED
    BY <1>1, <2>1
<1> HIDE DEF N
<1>5. Named \subseteq 1..N /\ N + 1 \notin Named
  BY <1>4 DEF Named, N
<1>6. Named' = Named \cup {N + 1}
  <2>1. \A y \in 1..(N + 1) : y \in 1..N \/ y = N + 1
    BY <1>4
  <2>2. \A y \in 1..N : y \in 1..(N + 1)
    BY <1>4
  <2>3. N + 1 \in 1..(N + 1)
    BY <1>4
  <2>4. Named' = {y \in 1..(N + 1) : heap'[y].kind \in {"string", "symbol"}}
    BY <1>4 DEF Named
  <2>5. Named = {y \in 1..N : heap[y].kind \in {"string", "symbol"}}
    BY DEF Named, N
  <2> QED
    BY <1>1, <1>4, <2>1, <2>2, <2>3, <2>4, <2>5
<1>7. ASSUME NEW y \in Named
      PROVE  heap'[y].val = heap[y].val /\ meant'[y] = meant[y] /\ heap[y].val \in DOMAIN memory
  BY <1>2, <1>4, <1>5 DEF SInv, NamesOK
<1>8. heap'[N + 1].val = buf /\ meant'[N + 1] = text /\ DOMAIN meant' = Named'
  BY <1>1, <1>2, <1>4, <1>5, <1>6
<1>9. NamesOK'
  BY <1>6, <1>7, <1>8 DEF NamesOK
<1>10. ASSUME Spelled, \A q \in DOMAIN memory : memory'[q] = memory[q],
              Spells(memory', buf, text)
       PROVE  Spelled'
  <2>1. ASSUME NEW y \in Named PROVE Spells(memory', heap'[y].val, meant'[y])
    <3>1. Spells(memory, heap[y].val, meant[y])
      BY <1>10 DEF Spelled
    <3>2. Spells(memory', heap[y].val, meant[y])
      BY <1>10, <3>1 DEF Spells
    <3> QED
      BY <1>7, <3>2
  <2>2. \A y \in Named' : Spells(memory', heap'[y].val, meant'[y])
    BY <1>6, <1>8, <1>10, <2>1
  <2> QED
    BY <2>2 DEF Spelled
<1> QED
  BY <1>2, <1>3, <1>9, <1>10 DEF SInv, Atomic

\* A string that shares a symbol's name.
LEMMA SymbolToStringStep ==
  ASSUME SInv, NEW x \in 1..Len(heap), SymbolToString(x)
  PROVE  SInv' /\ call' = NoCall /\ (Spelled => Spelled')
<1>1. /\ x \in Named /\ NewString(heap[x].val, meant[x]) /\ UNCHANGED memory
  BY DEF SymbolToString, Called, Checked, Is, Named, lso_string_get
<1>2. heap[x].val \in Int /\ heap[x].val \in DOMAIN memory /\ MemoryOK(memory)
  BY <1>1, NameFacts DEF SInv, NamesOK
<1>3. Spelled => Spells(memory, heap[x].val, meant[x])
  BY <1>1 DEF Spelled
<1> QED
  BY <1>1, <1>2, <1>3, NewStringStep

\* What a new string at buf, with the bytes from s to e of p, leaves of the memory.
Copied(p, s, e, buf, w) ==
  /\ MemoryOK(w) /\ DOMAIN memory \subseteq DOMAIN w /\ buf \in Int /\ buf \in DOMAIN w
  /\ Extra >= 1 => \A q \in DOMAIN memory : w[q] = memory[q]
  /\ \A t : Extra >= 1 /\ Spells(memory, p, t) => Spells(w, buf, SubSeq(t, s + 1, e))

(***************************************************************************)
(* What substring writes.  The zero behind the block's n bytes stays within   *)
(* the block because the allocator adds a byte at least.                     *)
(***************************************************************************)
LEMMA SubstringBytes ==
  ASSUME MemoryOK(memory), NEW p \in DOMAIN memory,
         NEW s \in Nat, NEW e \in Nat, s <= e, e <= strlen(p),
         NEW n, n = e - s + 1, NEW buf \in Places(n)
  PROVE  Copied(p, s, e, buf, copySubstring(GC_malloc(buf, n), buf, p, s, e))
<1> DEFINE w == copySubstring(GC_malloc(buf, n), buf, p, s, e)
           B == BlockSize(n)
           m == GC_malloc(buf, n)
           c == [k \in 1..(n - 1) |->
                   IF k <= strlen(p + s) THEN memory[(p + s) + k - 1] ELSE 0]
           v == Write(m, buf, c)
<1>1. n \in Nat /\ n >= 1 /\ n - 1 = e - s /\ p \in Int /\ strlen(p) \in Nat
  BY StrlenStops DEF MemoryOK
<1>2. B \in Nat /\ B >= n + Extra /\ Extra \in Nat
  BY <1>1, BlockFacts
<1>3. w = Write(v, buf + n, <<0>>)
  BY DEF copySubstring, strncpy
<1> HIDE DEF w
<1>4. /\ MemoryOK(m) /\ buf \in Int /\ DOMAIN memory \subseteq DOMAIN m
      /\ \A q \in DOMAIN memory : m[q] = memory[q]
      /\ \A q \in buf..(buf + B - 1) : q \in DOMAIN m /\ q \notin DOMAIN memory /\ m[q] = 0
  BY <1>1, FreshBlock
<1> HIDE DEF B, m
<1>5. c \in Seq(Byte) /\ Len(c) = n - 1
  <2>1. ASSUME NEW k \in 1..(n - 1), k <= strlen(p + s)
        PROVE  memory[(p + s) + k - 1] \in Byte
    <3>1. s + k \in 1..strlen(p) /\ p + (s + k) - 1 = (p + s) + k - 1
      BY <1>1
    <3>2. memory[p + (s + k) - 1] \in Byte
      BY <3>1, StrlenStops
    <3> QED
      BY <3>1, <3>2
  <2>2. 0 \in Byte
    BY DEF Byte
  <2>3. c \in [1..(n - 1) -> Byte] /\ n - 1 \in Nat
    BY <1>1, <2>1, <2>2
  <2> HIDE DEF c
  <2> QED
    BY <2>3, FunctionIsSeq
<1> HIDE DEF c
<1>6. /\ MemoryOK(v) /\ DOMAIN v = DOMAIN m
      /\ \A k \in 1..Len(c) : buf + k - 1 \in DOMAIN m => v[buf + k - 1] = c[k]
      /\ \A q \in DOMAIN m : q \notin buf..(buf + Len(c) - 1) => v[q] = m[q]
  BY <1>4, <1>5, WriteFacts DEF Written
<1> HIDE DEF v
<1>7. /\ MemoryOK(w) /\ DOMAIN w = DOMAIN m
      /\ buf + n \in DOMAIN m => w[buf + n] = 0
      /\ \A q \in DOMAIN m : q # buf + n => w[q] = v[q]
  <2> DEFINE z == <<0>>
             end == buf + n
  <2>1. z \in Seq(Byte) /\ Len(z) = 1 /\ z[1] = 0 /\ end \in Int
    BY <1>1, <1>4 DEF Byte
  <2>2. w = Write(v, end, z)
    BY <1>3
  <2> HIDE DEF z, end
  <2> DEFINE u == Write(v, end, z)
  <2>3. /\ MemoryOK(u) /\ DOMAIN u = DOMAIN v
        /\ \A k \in 1..Len(z) : end + k - 1 \in DOMAIN v => u[end + k - 1] = z[k]
        /\ \A q \in DOMAIN v : q \notin end..(end + Len(z) - 1) => u[q] = v[q]
    BY <1>6, <2>1, WriteFacts DEF Written
  <2> HIDE DEF u
  <2>4. 1 \in 1..Len(z) /\ end + 1 - 1 = end /\ end..(end + Len(z) - 1) = {end}
    BY <2>1
  <2> QED
    BY <1>6, <2>1, <2>2, <2>3, <2>4 DEF end, u
<1>8. buf \in buf..(buf + B - 1)
  BY <1>1, <1>2, <1>4
<1>9. Extra >= 1 => buf + n \in buf..(buf + B - 1)
  BY <1>1, <1>2, <1>4
<1>10. buf..(buf + Len(c) - 1) \subseteq buf..(buf + B - 1)
  BY <1>1, <1>2, <1>4, <1>5
<1>11. ASSUME Extra >= 1, NEW q \in DOMAIN memory PROVE w[q] = memory[q]
  BY <1>4, <1>6, <1>7, <1>9, <1>10, <1>11
<1>12. ASSUME Extra >= 1, NEW t, Spells(memory, p, t)
       PROVE  Spells(w, buf, SubSeq(t, s + 1, e))
  <2> DEFINE r == SubSeq(t, s + 1, e)
  <2>1. t \in Seq(Byte \ {0}) /\ strlen(p) = Len(t) /\ s \in 0..Len(t)
    BY <1>12, SpellsText DEF Spells
  <2>2. /\ r \in Seq(Byte \ {0}) /\ Len(r) = n - 1
        /\ \A k \in 1..(n - 1) : r[k] = t[s + k]
    BY <1>1, <2>1
  <2>3. strlen(p + s) = Len(t) - s
    <3>1. Spells(memory, p + s, SubSeq(t, s + 1, Len(t)))
      BY <1>12, <2>1, SpellsRest
    <3>2. Len(SubSeq(t, s + 1, Len(t))) = Len(t) - s
      BY <2>1
    <3> QED
      BY <3>1, <3>2, SpellsText
  <2> HIDE DEF r
  <2>4. ASSUME NEW k \in 1..(n - 1)
        PROVE  buf + k - 1 \in DOMAIN w /\ w[buf + k - 1] = r[k]
    <3>1. /\ k \in 1..Len(c) /\ buf + k - 1 \in buf..(buf + B - 1) /\ buf + k - 1 # buf + n
          /\ k <= strlen(p + s)
      BY <1>1, <1>2, <1>4, <1>5, <2>1, <2>3
    <3>2. w[buf + k - 1] = c[k] /\ buf + k - 1 \in DOMAIN w
      BY <1>4, <1>6, <1>7, <3>1
    <3>3. c[k] = memory[(p + s) + k - 1]
      BY <3>1 DEF c
    <3>4. s + k \in 1..Len(t) /\ p + (s + k) - 1 = (p + s) + k - 1
      BY <1>1, <2>1
    <3>5. memory[p + (s + k) - 1] = t[s + k]
      BY <1>12, <3>4 DEF Spells
    <3> QED
      BY <2>2, <3>2, <3>3, <3>4, <3>5
  <2>5. buf + Len(r) \in DOMAIN w /\ w[buf + Len(r)] = 0
    <3>1. /\ buf + (n - 1) \in buf..(buf + B - 1) /\ buf + (n - 1) # buf + n
          /\ buf + (n - 1) \notin buf..(buf + Len(c) - 1)
      BY <1>1, <1>2, <1>4, <1>5
    <3> QED
      BY <1>4, <1>6, <1>7, <2>2, <3>1
  <2>6. Spells(w, buf, r)
    BY <1>4, <2>2, <2>4, <2>5 DEF Spells
  <2> QED
    BY <2>6 DEF r
<1> QED
  BY <1>4, <1>7, <1>8, <1>11, <1>12 DEF Copied, w

\* A substring, or an error.
LEMMA SubstringStep ==
  ASSUME SInv, NEW x \in Named, NEW i \in 1..Len(heap), NEW j \in 1..Len(heap),
         Substring(x, i, j)
  PROVE  SInv' /\ call' = NoCall /\ (Extra >= 1 /\ Spelled => Spelled')
<1> DEFINE p == heap[x].val
<1>1. PICK s \in lso_simplenumber_get(i), e \in lso_simplenumber_get(j) :
       \/ /\ s < 0 \/ s > e \/ e > strlen(p)
          /\ lsrt_error
          /\ Atomic
          /\ UNCHANGED <<heap, memory, meant>>
       \/ /\ s >= 0 /\ s <= e /\ e <= strlen(p)
          /\ \E buf \in Places(e - s + 1) :
               /\ memory' = copySubstring(GC_malloc(buf, e - s + 1), buf, p, s, e)
               /\ NewString(buf, SubSeq(meant[x], s + 1, e))
  BY DEF Substring, lso_string_get
<1>2. s \in Int /\ e \in Int
  BY IndexFacts DEF SInv
<1>3. p \in DOMAIN memory /\ strlen(p) \in Nat /\ MemoryOK(memory)
      /\ (Spelled => Spells(memory, p, meant[x]))
  BY NameFacts DEF SInv, NamesOK, Spelled
<1> HIDE DEF p
<1>4. CASE lsrt_error /\ Atomic /\ UNCHANGED <<heap, memory, meant>>
  <2>1. HInv'
    BY <1>4, SameHeap, HInvFacts DEF SInv, lsrt_error, Return, NULL
  <2>2. NamesKept
    BY <1>4 DEF NamesKept, Named
  <2> QED
    BY <1>4, <2>1, <2>2, NamesStay DEF Atomic
<1>5. ASSUME s >= 0, s <= e, e <= strlen(p), NEW buf \in Places(e - s + 1),
             memory' = copySubstring(GC_malloc(buf, e - s + 1), buf, p, s, e),
             NewString(buf, SubSeq(meant[x], s + 1, e))
      PROVE  SInv' /\ call' = NoCall /\ (Extra >= 1 /\ Spelled => Spelled')
  <2>1. s \in Nat /\ e \in Nat
    BY <1>2, <1>3, <1>5
  <2>2. /\ MemoryOK(memory') /\ DOMAIN memory \subseteq DOMAIN memory'
        /\ buf \in Int /\ buf \in DOMAIN memory'
        /\ Extra >= 1 => \A q \in DOMAIN memory : memory'[q] = memory[q]
        /\ \A t : Extra >= 1 /\ Spells(memory, p, t) =>
             Spells(memory', buf, SubSeq(t, s + 1, e))
    <3> DEFINE n == e - s + 1
               w == copySubstring(GC_malloc(buf, n), buf, p, s, e)
    <3>1. buf \in Places(n) /\ memory' = w
      BY <1>5
    <3>2. Copied(p, s, e, buf, w)
      BY <1>3, <1>5, <2>1, <3>1, SubstringBytes
    <3> HIDE DEF w
    <3> QED
      BY <3>1, <3>2 DEF Copied
  <2> QED
    BY <1>3, <1>5, <2>2, NewStringStep
<1> QED
  BY <1>1, <1>4, <1>5

\* What string-append makes of the texts of its arguments.
LEMMA StringAppendStep ==
  ASSUME SInv, NEW n \in Nat, NEW args \in Args(n), StringAppend(args)
  PROVE  SInv' /\ call' = NoCall /\ (Spelled => Spelled')
<1> DEFINE texts == [k \in 1..Len(args) |-> Text(heap[args[k]].val)]
           means == [k \in 1..Len(args) |-> meant[args[k]]]
           all == Seqs!FlattenSeq(texts)
           L == Len(all) + 1
<1>1. args \in Seq(Nat) /\ Len(args) = n /\ \A k \in 1..n : args[k] \in 1..Len(heap)
  BY ArgsFacts DEF SInv
<1>2. \A k \in 1..Len(args) : args[k] \in Named
  <2>1. \A k \in 1..Len(args) : heap[args[k]].kind = "string"
    BY DEF StringAppend, Called, Checked, Is
  <2> QED
    BY <1>1, <2>1 DEF Named
<1>3. PICK buf \in Places(L) :
        /\ memory' = Write(GC_malloc(buf, L), buf, Append(all, 0))
        /\ NewString(buf, Seqs!FlattenSeq(means))
  BY DEF StringAppend, lso_string_get
<1>4. all \in Seq(Byte) /\ L \in Nat /\ L >= 1
  <2>1. texts \in [1..Len(args) -> Seq(Byte)] /\ Len(args) \in Nat
    BY <1>1, <1>2, NameFacts
  <2> HIDE DEF texts
  <2>2. texts \in Seq(Seq(Byte))
    BY <2>1, FunctionIsSeq
  <2>3. all \in Seq(Byte)
    BY <2>2, FlattenFacts
  <2> HIDE DEF all
  <2> QED
    BY <2>3
<1>5. Spelled => /\ all = Seqs!FlattenSeq(means)
                 /\ all \in Seq(Byte \ {0})
  <2> SUFFICES ASSUME Spelled
               PROVE  all = Seqs!FlattenSeq(means) /\ all \in Seq(Byte \ {0})
    OBVIOUS
  <2>1. ASSUME NEW k \in 1..Len(args)
        PROVE  Text(heap[args[k]].val) = meant[args[k]] /\ meant[args[k]] \in Seq(Byte \ {0})
    <3>1. Spells(memory, heap[args[k]].val, meant[args[k]]) /\ MemoryOK(memory)
      BY <1>2 DEF Spelled, SInv, NamesOK
    <3> QED
      BY <3>1, SpellsText DEF Spells
  <2>2. texts = means
    BY <2>1
  <2>3. means \in [1..Len(args) -> Seq(Byte \ {0})] /\ Len(args) \in Nat
    BY <1>1, <2>1
  <2> HIDE DEF texts, means
  <2>4. means \in Seq(Seq(Byte \ {0}))
    BY <2>3, FunctionIsSeq
  <2> QED
    BY <2>2, <2>4, FlattenFacts
<1> HIDE DEF texts, means, all
<1> DEFINE B == BlockSize(L)
           m == GC_malloc(buf, L)
           s == Append(all, 0)
<1>6. B \in Nat /\ B >= L
  BY <1>4, BlockFacts
<1>7. /\ MemoryOK(m) /\ buf \in Int /\ DOMAIN memory \subseteq DOMAIN m
      /\ \A q \in DOMAIN memory : m[q] = memory[q]
      /\ \A q \in buf..(buf + B - 1) : q \in DOMAIN m /\ q \notin DOMAIN memory /\ m[q] = 0
  BY <1>4, FreshBlock DEF SInv, NamesOK
<1> HIDE DEF B, m
<1>8. /\ s \in Seq(Byte) /\ Len(s) = L /\ s[L] = 0
      /\ \A k \in 1..Len(all) : s[k] = all[k]
  <2>1. 0 \in Byte
    BY DEF Byte
  <2> QED
    BY <1>4, <2>1
<1>9. memory' = Write(m, buf, s)
  BY <1>3 DEF m
<1> HIDE DEF s, L
<1>10. /\ MemoryOK(memory') /\ DOMAIN memory' = DOMAIN m
       /\ \A k \in 1..L : buf + k - 1 \in DOMAIN m => memory'[buf + k - 1] = s[k]
       /\ \A q \in DOMAIN m : q \notin buf..(buf + L - 1) => memory'[q] = m[q]
  <2>1. Written(m, buf, s, Write(m, buf, s))
    BY <1>7, <1>8, WriteFacts
  <2> QED
    BY <1>8, <1>9, <2>1 DEF Written
<1>11. /\ buf \in buf..(buf + B - 1)
       /\ \A q \in buf..(buf + L - 1) : q \in buf..(buf + B - 1)
       /\ \A k \in 1..L : buf + k - 1 \in buf..(buf + B - 1)
  BY <1>4, <1>6, <1>7
<1>12. \A q \in DOMAIN memory : memory'[q] = memory[q]
  BY <1>7, <1>10, <1>11
<1>13. all \in Seq(Byte \ {0}) => Spells(memory', buf, all)
  <2>1. L = Len(all) + 1 /\ Len(all) \in Nat
    BY <1>4 DEF L
  <2>2. ASSUME NEW k \in 1..Len(all)
        PROVE  buf + k - 1 \in DOMAIN memory' /\ memory'[buf + k - 1] = all[k]
    <3>1. k \in 1..L
      BY <2>1
    <3> QED
      BY <1>7, <1>8, <1>10, <1>11, <3>1
  <2>3. buf + Len(all) \in DOMAIN memory' /\ memory'[buf + Len(all)] = 0
    <3>1. L \in 1..L /\ buf + L - 1 = buf + Len(all)
      BY <1>7, <2>1
    <3> QED
      BY <1>7, <1>8, <1>10, <1>11, <3>1
  <2> QED
    BY <1>7, <2>2, <2>3 DEF Spells
<1>14. NewString(buf, Seqs!FlattenSeq(means)) /\ DOMAIN memory \subseteq DOMAIN memory'
       /\ buf \in DOMAIN memory'
  BY <1>3, <1>7, <1>10, <1>11
<1> QED
  BY <1>5, <1>7, <1>10, <1>12, <1>13, <1>14, NewStringStep

-----------------------------------------------------------------------------

\* Every program starts with strings and symbols that point to their bytes.
LEMMA InitStrings ==
  ASSUME StrInit
  PROVE  SInv /\ Spelled /\ StringAnswers
<1> DEFINE gs == program.given
           n == Cardinality(DOMAIN Data) - 1
<1>1. /\ program \in Programs /\ heap = Globals \o gs /\ call = NoCall
      /\ memory = Data /\ meant = [x \in Named |-> Text(heap[x].val)]
  BY DEF StrInit, Init, lso_string_get
<1>2. n \in Nat /\ Data \in [0..n -> Byte] /\ Data[n] = 0
  BY StringsAssumption
<1> HIDE DEF n
<1>3. MemoryOK(memory)
  <2>1. 0 \in Int /\ n \in Int /\ 0 <= n /\ DOMAIN memory = 0..n
        /\ memory \in [DOMAIN memory -> Byte]
    BY <1>1, <1>2
  <2> QED
    BY <2>1 DEF MemoryOK
<1>4. ASSUME NEW x \in Named PROVE heap[x].val \in DOMAIN memory
  <2>1. gs \in Seq(Object)
    BY <1>1, HeapAssumption
  <2>2. /\ Globals \in Seq(Object) /\ Len(Globals) = 3
        /\ \A j \in 1..3 : Globals[j].kind \notin {"string", "symbol"}
    BY DEF Globals, Obj, Object, Kind
  <2> HIDE DEF gs
  <2>3. /\ Len(heap) = 3 + Len(gs) /\ Len(gs) \in Nat
        /\ \A j \in 1..3 : heap[j] = Globals[j]
        /\ \A j \in 1..Len(gs) : heap[3 + j] = gs[j]
    <3> DEFINE g == Globals
    <3> HIDE DEF g
    <3>1. g \in Seq(Object) /\ Len(g) = 3 /\ heap = g \o gs
      BY <1>1, <2>2 DEF g
    <3> DEFINE l == gs
    <3>2. l \in Seq(Object) /\ g \in Seq(Object)
      BY <2>1, <2>2 DEF g
    <3> HIDE DEF l
    <3>4. /\ Len(g \o l) = Len(g) + Len(l)
          /\ \A j \in 1..Len(g) : (g \o l)[j] = g[j]
          /\ \A j \in 1..Len(l) : (g \o l)[Len(g) + j] = l[j]
      BY <3>2, ConcatFacts
    <3>3. Len(gs) \in Nat
      BY <2>1
    <3> QED
      BY <3>1, <3>3, <3>4 DEF g, l
  <2>4. x \in 1..Len(heap) /\ heap[x].kind \in {"string", "symbol"}
    BY DEF Named
  <2>5. x \notin 1..3
    BY <2>2, <2>3, <2>4
  <2>6. x - 3 \in 1..Len(gs) /\ x = 3 + (x - 3)
    BY <2>3, <2>4, <2>5
  <2>7. heap[x] = gs[x - 3]
    BY <2>3, <2>6
  <2> QED
    BY <1>1, <2>4, <2>6, <2>7, StringsAssumption DEF gs
<1>5. NamesOK
  BY <1>1, <1>3, <1>4 DEF NamesOK
<1>6. ASSUME NEW x \in Named PROVE Spells(memory, heap[x].val, meant[x])
  <2> DEFINE p == heap[x].val
             m == strlen(p)
             t == [k \in 1..m |-> memory[p + k - 1]]
  <2>1. p \in DOMAIN memory /\ p \in 0..n /\ p \in Int /\ meant[x] = t
    <3>1. p \in DOMAIN memory /\ DOMAIN memory = 0..n
      BY <1>1, <1>2, <1>4
    <3>2. meant[x] = Text(p)
      BY <1>1
    <3>3. Text(p) = t
      BY DEF Text
    <3> QED
      BY <1>2, <3>1, <3>2, <3>3
  <2>2. n \in ZerosFrom(p)
    <3> HIDE DEF p
    <3>1. n \in DOMAIN memory /\ memory[n] = 0
      BY <1>1, <1>2
    <3>2. n >= p
      BY <1>2, <2>1
    <3> QED
      BY <3>1, <3>2 DEF ZerosFrom
  <2>3. /\ m \in Nat /\ \A k \in 1..m : p + k - 1 \in DOMAIN memory /\ memory[p + k - 1] \in Byte
        /\ p + m \in DOMAIN memory /\ memory[p + m] = 0
        /\ \A k \in 1..m : memory[p + k - 1] # 0
    BY <1>3, <2>1, <2>2, StrlenStops
  <2> HIDE DEF p, m
  <2>4. t \in Seq(Byte \ {0}) /\ Len(t) = m /\ \A k \in 1..m : t[k] = memory[p + k - 1]
    <3>1. t \in [1..m -> Byte \ {0}]
      BY <2>3
    <3>2. \A k \in 1..m : t[k] = memory[p + k - 1]
      OBVIOUS
    <3> HIDE DEF t
    <3> QED
      BY <2>3, <3>1, <3>2, FunctionIsSeq
  <2> HIDE DEF t
  <2>5. Spells(memory, p, t)
    BY <2>1, <2>3, <2>4 DEF Spells
  <2> QED
    BY <2>1, <2>5 DEF p
<1>7. HInv
  BY InitHeap DEF StrInit
<1>8. StringAnswers
  BY <1>1 DEF StringAnswers, Done, NoCall
<1> QED
  BY <1>5, <1>6, <1>7, <1>8 DEF SInv, Spelled

\* Every step preserves what the proofs rest on; what strings spell survives
\* where the allocator adds a byte to what it is asked for.
LEMMA StrStep ==
  ASSUME SInv, StrNext
  PROVE  SInv' /\ (Extra >= 1 /\ Spelled => Spelled')
<1> DEFINE Goal == SInv' /\ (Extra >= 1 /\ Spelled => Spelled')
<1> SUFFICES Goal
  OBVIOUS
<1>1. CASE Next /\ UNCHANGED <<memory, meant>>
  <2>1. HInv' /\ NamesKept
    BY <1>1, HeapStep, HeapNames DEF SInv
  <2> QED
    BY <1>1, <2>1, NamesStay
<1>2. ASSUME NEW a \in Args(1),
             StringPredicate(a[1]) \/ SymbolToString(a[1]) \/ StringLength(a[1])
      PROVE  Goal
  <2> DEFINE x == a[1]
  <2>1. x \in 1..Len(heap) /\ <<x>> \in Seq(Nat)
    <3>1. x \in 1..Len(heap) /\ x \in Nat
      BY ArgsFacts DEF SInv
    <3> QED
      BY <3>1
  <2>2. CASE StringPredicate(x)
    <3>1. "string?" \in StringOps /\ "symbol?" \in StringOps
      BY DEF StringOps
    <3> QED
      BY <2>1, <2>2, <3>1, AnswerStep DEF StringPredicate
  <2> QED
    BY <1>2, <2>1, <2>2, SymbolToStringStep, StringLengthStep
<1>3. ASSUME NEW a \in Args(2), StringEqual(a[1], a[2]) PROVE Goal
  <2>1. <<a[1], a[2]>> \in Seq(Nat)
    <3>1. a[1] \in Nat /\ a[2] \in Nat
      BY ArgsFacts DEF SInv
    <3> QED
      BY <3>1
  <2>2. "string=?" \in StringOps /\ "string-ci=?" \in StringOps
    BY DEF StringOps
  <2>3. PICK op \in {"string=?", "string-ci=?"} : \E b : Answer(op, <<a[1], a[2]>>, b)
    BY <1>3 DEF StringEqual
  <2> QED
    BY <2>1, <2>2, <2>3, AnswerStep
<1>4. ASSUME NEW x \in Named, NEW a \in Args(2), Substring(x, a[1], a[2]) PROVE Goal
  <2>1. a[1] \in 1..Len(heap) /\ a[2] \in 1..Len(heap)
    BY ArgsFacts DEF SInv
  <2> QED
    BY <1>4, <2>1, SubstringStep
<1>5. ASSUME NEW n \in 1..MaxArgs, NEW a \in Args(n), StringAppend(a) PROVE Goal
  <2>1. n \in Nat
    BY HeapAssumption
  <2> QED
    BY <1>5, <2>1, StringAppendStep
<1> HIDE DEF Goal
<1> QED
  BY <1>1, <1>2, <1>3, <1>4, <1>5 DEF StrNext, StrStart

\* What a step answers goes by what the strings mean.
LEMMA AnswersStep ==
  ASSUME SInv, Spelled, StrNext
  PROVE  StringAnswers'
<1> DEFINE Quiet == call'.op \notin {"string-length", "string=?", "string-ci=?"}
<1>1. Quiet => StringAnswers'
  BY DEF StringAnswers, Done
<1>2. CASE Next
  <2>1. call'.op \notin StringOps
    BY <1>2, HeapNames DEF SInv
  <2> QED
    BY <1>1, <2>1 DEF StringOps
<1>3. ASSUME NEW x \in Named
      PROVE  /\ Text(heap[x].val) = meant[x] /\ strlen(heap[x].val) = Len(meant[x])
  <2>1. Spells(memory, heap[x].val, meant[x]) /\ MemoryOK(memory)
    BY DEF Spelled, SInv, NamesOK
  <2> QED
    BY <2>1, SpellsText
<1>4. ASSUME NEW a \in Args(1),
             StringPredicate(a[1]) \/ SymbolToString(a[1]) \/ StringLength(a[1])
      PROVE  StringAnswers'
  <2> DEFINE x == a[1]
  <2>1. x \in 1..Len(heap)
    BY ArgsFacts DEF SInv
  <2>2. CASE StringPredicate(x)
    BY <1>1, <2>2 DEF StringPredicate, Answer, Recorded
  <2>3. CASE SymbolToString(x)
    BY <1>1, <2>1, <2>3, SymbolToStringStep DEF NoCall
  <2>4. CASE StringLength(x)
    <3>1. /\ x \in Named /\ heap'[ret'].val = strlen(heap[x].val) /\ UNCHANGED meant
          /\ call' = [op |-> "string-length", args |-> <<x>>]
      BY <2>1, <2>4, StringLengthStep DEF StringLength, Recorded
    <3>2. heap'[ret'].val = Len(meant'[call'.args[1]])
      BY <1>3, <3>1
    <3>3. ~Done("string=?")' /\ ~Done("string-ci=?")'
      BY <3>1 DEF Done
    <3> QED
      BY <3>2, <3>3 DEF StringAnswers
  <2> QED
    BY <1>4, <2>2, <2>3, <2>4
<1>5. ASSUME NEW a \in Args(2), StringEqual(a[1], a[2]) PROVE StringAnswers'
  <2> DEFINE x == a[1]
             y == a[2]
             s == Text(heap[x].val)
             t == Text(heap[y].val)
  <2>1. \/ Answer("string=?", <<x, y>>, s = t)
        \/ Answer("string-ci=?", <<x, y>>, Lower(s) = Lower(t))
    BY <1>5 DEF StringEqual, lso_string_get, Lower
  <2>2. x \in Named /\ y \in Named
    <3>1. x \in 1..Len(heap) /\ y \in 1..Len(heap)
      BY ArgsFacts DEF SInv
    <3>2. \A k \in 1..Len(<<x, y>>) : heap[<<x, y>>[k]].kind = "string"
      BY <2>1 DEF Answer, Called, Checked, Is
    <3>3. heap[x].kind = "string" /\ heap[y].kind = "string"
      <4>1. 1 \in 1..Len(<<x, y>>) /\ 2 \in 1..Len(<<x, y>>)
            /\ <<x, y>>[1] = x /\ <<x, y>>[2] = y
        OBVIOUS
      <4> QED
        BY <3>2, <4>1
    <3> QED
      BY <3>1, <3>3 DEF Named
  <2>3. s = meant[x] /\ t = meant[y]
    BY <1>3, <2>2
  <2> HIDE DEF s, t
  <2>4. CASE Answer("string=?", <<x, y>>, s = t)
    <3>1. /\ call' = [op |-> "string=?", args |-> <<x, y>>] /\ UNCHANGED meant
          /\ ret' = Bool(s = t)
      BY <2>4 DEF Answer, Recorded, Return
    <3>2. ret' = Bool(meant'[call'.args[1]] = meant'[call'.args[2]])
      BY <2>3, <3>1
    <3>3. ~Done("string-length")' /\ ~Done("string-ci=?")'
      BY <3>1 DEF Done
    <3> QED
      BY <3>2, <3>3 DEF StringAnswers
  <2>5. CASE Answer("string-ci=?", <<x, y>>, Lower(s) = Lower(t))
    <3>1. /\ call' = [op |-> "string-ci=?", args |-> <<x, y>>] /\ UNCHANGED meant
          /\ ret' = Bool(Lower(s) = Lower(t))
      BY <2>5 DEF Answer, Recorded, Return
    <3>2. ret' = Bool(Lower(meant'[call'.args[1]]) = Lower(meant'[call'.args[2]]))
      BY <2>3, <3>1
    <3>3. ~Done("string-length")' /\ ~Done("string=?")'
      BY <3>1 DEF Done
    <3> QED
      BY <3>2, <3>3 DEF StringAnswers
  <2> QED
    BY <2>1, <2>4, <2>5
<1>6. ASSUME NEW x \in Named, NEW a \in Args(2), Substring(x, a[1], a[2])
      PROVE  StringAnswers'
  <2>1. a[1] \in 1..Len(heap) /\ a[2] \in 1..Len(heap)
    BY ArgsFacts DEF SInv
  <2>2. call' = NoCall
    BY <1>6, <2>1, SubstringStep
  <2> QED
    BY <1>1, <2>2 DEF NoCall
<1>7. ASSUME NEW n \in 1..MaxArgs, NEW a \in Args(n), StringAppend(a)
      PROVE  StringAnswers'
  <2>1. n \in Nat
    BY HeapAssumption
  <2>2. call' = NoCall
    BY <1>7, <2>1, StringAppendStep
  <2> QED
    BY <1>1, <2>2 DEF NoCall
<1> QED
  BY <1>2, <1>4, <1>5, <1>6, <1>7 DEF StrNext, StrStart

-----------------------------------------------------------------------------

\* What the proofs rest on says nothing of how the variables change.
LEMMA SInvStutter ==
  ASSUME SInv, UNCHANGED strVars
  PROVE  SInv'
<1>1. UNCHANGED <<program, heap, pc, call, it, len, idx, ret, memory, meant>>
  BY DEF strVars, vars
<1>2. TypeOK' /\ HeapOK' /\ LoopsOK'
  BY <1>1 DEF SInv, HInv, TypeOK, HeapOK, LoopsOK
<1>3. LengthCorrect'
  <2>1. \A x : (IsList(x)' <=> IsList(x)) /\ LengthOf(x)' = LengthOf(x)
    BY <1>1, InHeap
  <2> QED
    BY <1>1, <2>1 DEF SInv, HInv, AnswersOK, LengthCorrect, Done, Bool
<1>4. ListRefCorrect'
  BY <1>1, InHeap DEF SInv, HInv, AnswersOK, ListRefCorrect, Done
<1>5. SlotsInOrder'
  BY <1>1, InHeap DEF SInv, HInv, AnswersOK, SlotsInOrder, Done
<1>6. NamesOK'
  BY <1>1 DEF SInv, NamesOK, Named
<1> QED
  BY <1>2, <1>3, <1>4, <1>5, <1>6 DEF SInv, HInv, AnswersOK

\* The invariant of the heap, with the memory that strings lie in.
LEMMA AlwaysSInv == StrSpec => []SInv
<1>1. StrInit => SInv
  BY InitStrings
<1>2. SInv /\ [StrNext]_strVars => SInv'
  <2> QED
    BY SInvStutter, StrStep
<1> QED
  BY <1>1, <1>2, PTL DEF StrSpec

(***************************************************************************)
(* No object refers to nothing, whatever is built, assigned or cut in which   *)
(* order (pairlist.c, vector.c, strings.c).                                  *)
(***************************************************************************)
THEOREM HeapClosed == StrSpec => []Closed
<1>1. SInv => Closed
  BY DEF SInv, HInv, HeapOK, HeapIn, ClosedHeap, Closed, Is
<1> QED
  BY <1>1, AlwaysSInv, PTL

(***************************************************************************)
(* _listp and _length tell lists from everything else and count their pairs,  *)
(* for every heap: where the cdrs go round in a circle they do not answer.    *)
(***************************************************************************)
THEOREM LengthAnswered == StrSpec => []LengthCorrect
<1>1. SInv => LengthCorrect
  BY DEF SInv, HInv, AnswersOK
<1> QED
  BY <1>1, AlwaysSInv, PTL

\* list-ref returns the element asked for, or an error.
THEOREM ListRefAnswered == StrSpec => []ListRefCorrect
<1>1. SInv => ListRefCorrect
  BY DEF SInv, HInv, AnswersOK
<1> QED
  BY <1>1, AlwaysSInv, PTL

\* The second loop of list-ref never takes the cdr or car of what is no pair.
THEOREM RefOnPairs == StrSpec => []RefsPairs
<1>1. SInv => RefsPairs
  BY RefFacts, InHeap DEF SInv, RefsPairs, Is, IsPair
<1> QED
  BY <1>1, AlwaysSInv, PTL

\* vector->list makes a new list of the slots, in their order.
THEOREM VectorListed == StrSpec => []SlotsInOrder
<1>1. SInv => SlotsInOrder
  BY DEF SInv, HInv, AnswersOK
<1> QED
  BY <1>1, AlwaysSInv, PTL

\* The invariant of the strings.
LEMMA AlwaysSpelled ==
  ASSUME Extra >= 1
  PROVE  StrSpec => [](SInv /\ Spelled /\ StringAnswers)
<1> DEFINE I == SInv /\ Spelled /\ StringAnswers
<1>1. StrInit => I
  BY InitStrings
<1>2. I /\ [StrNext]_strVars => I'
  <2>1. I /\ StrNext => I'
    BY StrStep, AnswersStep
  <2>2. Spelled /\ StringAnswers /\ UNCHANGED strVars => Spelled' /\ StringAnswers'
    BY DEF Spelled, StringAnswers, strVars, vars, Named, Done
  <2> QED
    BY <2>1, <2>2, SInvStutter
<1> HIDE DEF I
<1>3. StrSpec => []I
  BY <1>1, <1>2, PTL DEF StrSpec
<1> QED
  BY <1>3 DEF I

(***************************************************************************)
(* With an allocator that adds a byte, every string goes on spelling what it  *)
(* means, the byte that substring writes behind its buffer notwithstanding,   *)
(* and length and comparison go by that meaning (strings.c).                *)
(***************************************************************************)
THEOREM StringsSpell == Extra >= 1 => (StrSpec => []StringsRight)
<1> SUFFICES ASSUME Extra >= 1 PROVE StrSpec => []StringsRight
  OBVIOUS
<1>1. SInv /\ Spelled /\ StringAnswers => StringsRight
  <2> SUFFICES ASSUME SInv, Spelled, StringAnswers PROVE StringsRight
    OBVIOUS
  <2>1. \A z \in Named : Text(lso_string_get(z)) = meant[z]
    BY SpellsText DEF Spelled, SInv, NamesOK, lso_string_get
  <2> QED
    BY <2>1 DEF StringsRight, StringAnswers, Lower
<1> QED
  BY <1>1, AlwaysSpelled, PTL

\* Every string and symbol points to a byte and stands for a text without a zero.
THEOREM StringTypes == Extra >= 1 => (StrSpec => []StrTypeOK)
<1> SUFFICES ASSUME Extra >= 1 PROVE StrSpec => []StrTypeOK
  OBVIOUS
<1>1. SInv /\ Spelled => StrTypeOK
  BY DEF SInv, HInv, NamesOK, MemoryOK, Spelled, Spells, StrTypeOK, lso_string_get
<1> QED
  BY <1>1, AlwaysSpelled, PTL
=============================================================================
