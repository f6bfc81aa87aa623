---------------------------- MODULE NumberProofs ----------------------------
(***************************************************************************)
(* Proofs about ints of every width and about fractions: the overflow tests   *)
(* of Fixnum, and gcd and Lowest of Number.  gcd, a recursive definition,      *)
(* divides both its arguments and is a combination of them; so Lowest is the  *)
(* only fraction of its value in lowest terms, and fractions are compared by  *)
(* cross-multiplication.                                                   *)
(***************************************************************************)
EXTENDS Number, Recursion, TLAPS

\* The remainder of a number whose quotient by m is known.
LEMMA ModFacts ==
  ASSUME NEW z \in Int, NEW m \in Nat, m > 0
  PROVE  /\ z % m \in Int /\ 0 <= z % m /\ z % m < m
         /\ 0 <= z /\ z < m => z % m = z
         /\ m <= z /\ z < 2 * m => z % m = z - m
         /\ -m <= z /\ z < 0 => z % m = z + m
  OBVIOUS

\* Wrapping yields an int, and adds or subtracts 2H at most once near the ints.
LEMMA WrapFacts ==
  ASSUME NEW x \in Int
  PROVE  /\ Wrap(x) \in Int32
         /\ x \in Int32 => Wrap(x) = x
         /\ H <= x /\ x < 3 * H => Wrap(x) = x - 2 * H
         /\ -3 * H <= x /\ x < -H => Wrap(x) = x + 2 * H
<1> DEFINE m == 2 * H
           z == x + H
<1>1. m \in Nat /\ m > 0 /\ z \in Int /\ H \in Nat
  BY HAssumption
<1>2. Wrap(x) = (z % m) - H
  BY DEF Wrap
<1> HIDE DEF z, m
<1>3. /\ z % m \in Int /\ 0 <= z % m /\ z % m < m
      /\ 0 <= z /\ z < m => z % m = z
      /\ m <= z /\ z < 2 * m => z % m = z - m
      /\ -m <= z /\ z < 0 => z % m = z + m
  BY <1>1, ModFacts
<1> QED
  BY <1>1, <1>2, <1>3 DEF Int32, z, m

(***************************************************************************)
(* __add_overflow_p tells exactly whether the sum leaves the ints, and where *)
(* it does not the wrapped sum is the sum.                                   *)
(***************************************************************************)
THEOREM AddOverflowExact ==
  ASSUME NEW a \in Int32, NEW b \in Int32
  PROVE  /\ add_overflow_p(a, b) <=> a + b \notin Int32
         /\ ~add_overflow_p(a, b) => Wrap(a + b) = a + b
<1> DEFINE t == Wrap(a + b)
<1>1. a \in Int /\ b \in Int /\ H \in Nat /\ H >= 2 /\ a + b \in Int
  BY HAssumption DEF Int32
<1>2. /\ t \in Int32
      /\ a + b \in Int32 => t = a + b
      /\ H <= a + b /\ a + b < 3 * H => t = a + b - 2 * H
      /\ -3 * H <= a + b /\ a + b < -H => t = a + b + 2 * H
  BY <1>1, WrapFacts
<1>3. add_overflow_p(a, b) <=> ((a < 0) <=> (b < 0)) /\ ~((t < 0) <=> (a < 0))
  BY DEF add_overflow_p
<1> HIDE DEF t
<1>4. add_overflow_p(a, b) <=> a + b \notin Int32
  BY <1>1, <1>2, <1>3 DEF Int32
<1> QED
  BY <1>2, <1>4 DEF t

\* The same for __sub_overflow_p.
THEOREM SubOverflowExact ==
  ASSUME NEW a \in Int32, NEW b \in Int32
  PROVE  /\ sub_overflow_p(a, b) <=> a - b \notin Int32
         /\ ~sub_overflow_p(a, b) => Wrap(a - b) = a - b
<1> DEFINE t == Wrap(a - b)
<1>1. a \in Int /\ b \in Int /\ H \in Nat /\ H >= 2 /\ a - b \in Int
  BY HAssumption DEF Int32
<1>2. /\ t \in Int32
      /\ a - b \in Int32 => t = a - b
      /\ H <= a - b /\ a - b < 3 * H => t = a - b - 2 * H
      /\ -3 * H <= a - b /\ a - b < -H => t = a - b + 2 * H
  BY <1>1, WrapFacts
<1>3. sub_overflow_p(a, b) <=> ((a < 0) <=> (b > 0)) /\ ~((t < 0) <=> (a < 0))
  BY DEF sub_overflow_p
<1> HIDE DEF t
<1>4. sub_overflow_p(a, b) <=> a - b \notin Int32
  BY <1>1, <1>2, <1>3 DEF Int32
<1> QED
  BY <1>2, <1>4 DEF t

\* Bounds of the product of two ints.
LEMMA ProductBounds ==
  ASSUME NEW a \in Int32, NEW b \in Int32
  PROVE  a * b \in Int /\ -(H * H) <= a * b /\ a * b <= H * H
<1>1. a \in Int /\ b \in Int /\ H \in Nat /\ -H <= a /\ a <= H /\ -H <= b /\ b <= H
  BY HAssumption DEF Int32
<1>2. a * b \in Int
  BY <1>1
<1>3. (H - a) * (H + b) >= 0 /\ (H + a) * (H - b) >= 0
  <2>1. \A x, y \in Nat : x * y >= 0
    OBVIOUS
  <2>2. H - a \in Nat /\ H + b \in Nat /\ H + a \in Nat /\ H - b \in Nat
    BY <1>1
  <2> QED
    BY <2>1, <2>2
<1>4. (H - a) * (H - b) >= 0 /\ (H + a) * (H + b) >= 0
  <2>1. \A x, y \in Nat : x * y >= 0
    OBVIOUS
  <2>2. H - a \in Nat /\ H + b \in Nat /\ H + a \in Nat /\ H - b \in Nat
    BY <1>1
  <2> QED
    BY <2>1, <2>2
<1> QED
  BY <1>1, <1>2, <1>3, <1>4

\* Quotients in the range of a product shifted right by the width of an int.
LEMMA ShiftFacts ==
  ASSUME NEW x \in Int, -(H * H) <= x, x <= H * H
  PROVE  /\ x \div H \in Int /\ -H <= x \div H /\ x \div H <= H
         /\ x \div H = 0 <=> 0 <= x /\ x < H
         /\ x \div H = -1 <=> -H <= x /\ x < 0
<1> DEFINE q == x \div H
<1>1. H \in Nat /\ H > 0
  BY HAssumption
<1>2. q \in Int /\ H * q <= x /\ x < H * q + H
  BY <1>1
<1> HIDE DEF q
<1>3. ASSUME NEW k \in Int, NEW n \in Int PROVE n <= k => H * n <= H * k
  <2> SUFFICES ASSUME n <= k PROVE H * n <= H * k
    OBVIOUS
  <2>1. k - n \in Nat
    OBVIOUS
  <2>2. H * (k - n) >= 0
    BY <1>1, <2>1
  <2>3. H * (k - n) = H * k - H * n
    BY <1>1
  <2>4. H * k \in Int /\ H * n \in Int
    BY <1>1
  <2> QED
    BY <2>2, <2>3, <2>4
<1>4. q >= -H
  <2>1. q + 1 <= -H => H * (q + 1) <= H * (-H)
    BY <1>1, <1>2, <1>3
  <2>2. H * (q + 1) = H * q + H /\ H * (-H) = -(H * H)
    BY <1>1, <1>2
  <2>3. H * q \in Int /\ H * H \in Int
    BY <1>1, <1>2
  <2> QED
    BY <1>1, <1>2, <2>1, <2>2, <2>3
<1>5. q <= H
  <2>1. q >= H + 1 => H * (H + 1) <= H * q
    BY <1>1, <1>2, <1>3
  <2>2. H * (H + 1) = H * H + H
    BY <1>1
  <2>3. H * q \in Int /\ H * H \in Int
    BY <1>1, <1>2
  <2> QED
    BY <1>1, <1>2, <2>1, <2>2, <2>3
<1>6. /\ q >= 1 => H <= H * q
      /\ q <= -1 => H * q <= -H
      /\ q <= -2 => H * q <= -(2 * H)
      /\ q = 0 => H * q = 0
      /\ q = -1 => H * q = -H
  <2>1. H * 1 = H /\ H * (-1) = -H /\ H * (-2) = -(2 * H) /\ H * 0 = 0
    BY <1>1
  <2>2. /\ 1 <= q => H * 1 <= H * q
        /\ q <= -1 => H * q <= H * (-1)
        /\ q <= -2 => H * q <= H * (-2)
    BY <1>2, <1>3
  <2> QED
    BY <1>1, <1>2, <2>1, <2>2
<1>7. H * q \in Int
  BY <1>1, <1>2
<1>8. q = 0 <=> 0 <= x /\ x < H
  BY <1>1, <1>2, <1>6, <1>7
<1>9. q = -1 <=> -H <= x /\ x < 0
  BY <1>1, <1>2, <1>6, <1>7
<1> QED
  BY <1>2, <1>4, <1>5, <1>8, <1>9 DEF q

(***************************************************************************)
(* __mul_overflow_p is exact as well: the upper bits of the 64-bit product    *)
(* are all equal to its sign bit exactly when the product is an int, also    *)
(* where the cast of those bits to int wraps.                               *)
(***************************************************************************)
THEOREM MulOverflowExact ==
  ASSUME NEW a \in Int32, NEW b \in Int32
  PROVE  /\ mul_overflow_p(a, b) <=> a * b \notin Int32
         /\ ~mul_overflow_p(a, b) => Wrap(a * b) = a * b
<1> DEFINE x == a * b
           q == x \div H
           y == Wrap(q)
<1>1. H \in Nat /\ H >= 2 /\ x \in Int /\ -(H * H) <= x /\ x <= H * H
  BY ProductBounds, HAssumption
<1>2. mul_overflow_p(a, b) <=> y # 0 /\ y # -1
  BY DEF mul_overflow_p
<1> HIDE DEF x
<1>3. /\ q \in Int /\ -H <= q /\ q <= H
      /\ q = 0 <=> 0 <= x /\ x < H
      /\ q = -1 <=> -H <= x /\ x < 0
  BY <1>1, ShiftFacts
<1> HIDE DEF q
<1>4. y = IF q = H THEN -H ELSE q
  BY <1>1, <1>3, WrapFacts DEF Int32
<1>5. mul_overflow_p(a, b) <=> x \notin Int32
  BY <1>1, <1>2, <1>3, <1>4 DEF Int32
<1>6. x \in Int32 => Wrap(x) = x
  BY <1>1, WrapFacts
<1> QED
  BY <1>5, <1>6 DEF x

(***************************************************************************)
(* _re_arith2 on two ints: a result that stays an int is an int and is the   *)
(* exact sum, difference or product.                                        *)
(***************************************************************************)
THEOREM FixnumExact ==
  ASSUME NEW a \in Int32, NEW b \in Int32
  PROVE  /\ StaysFixnum("+", a, b) => FixnumResult("+", a, b) = a + b
         /\ StaysFixnum("-", a, b) => FixnumResult("-", a, b) = a - b
         /\ StaysFixnum("*", a, b) => FixnumResult("*", a, b) = a * b
         /\ \A o \in {"+", "-", "*"} : FixnumResult(o, a, b) \in Int32
<1>1. a + b \in Int /\ a - b \in Int /\ a * b \in Int
  BY HAssumption DEF Int32
<1>2. \A x \in Int : Wrap(x) \in Int32
  BY WrapFacts
<1> QED
  BY <1>1, <1>2, AddOverflowExact, SubOverflowExact, MulOverflowExact
     DEF StaysFixnum, FixnumResult

(***************************************************************************)
(* The int case of _re_order2 is right about equality whatever overflows,   *)
(* and about the order whenever the difference is an int.                    *)
(***************************************************************************)
THEOREM DifferenceSignFacts ==
  ASSUME NEW a \in Int32, NEW b \in Int32
  PROVE  /\ \A r \in DifferenceSigns(a, b) : r = 0 <=> a = b
         /\ a - b \in Int32 => DifferenceSigns(a, b) = {Sgn(a - b)}
<1>1. a \in Int /\ b \in Int /\ H \in Nat /\ H >= 2 /\ a - b \in Int
  BY HAssumption DEF Int32
<1>2. /\ Wrap(a - b) \in Int32
      /\ a - b \in Int32 => Wrap(a - b) = a - b
      /\ H <= a - b /\ a - b < 3 * H => Wrap(a - b) = a - b - 2 * H
      /\ -3 * H <= a - b /\ a - b < -H => Wrap(a - b) = a - b + 2 * H
  BY <1>1, WrapFacts
<1>3. Wrap(a - b) = 0 <=> a = b
  BY <1>1, <1>2 DEF Int32
<1>4. Wrap(a - b) \in Int
  BY <1>1, <1>2 DEF Int32
<1> QED
  BY <1>1, <1>2, <1>3, <1>4 DEF DifferenceSigns, Sgn
-----------------------------------------------------------------------------

\* Division with remainder of two naturals.
LEMMA RemainderFacts ==
  ASSUME NEW m \in Nat, NEW n \in Nat, n > 0
  PROVE  /\ m % n \in 0..(n - 1)
         /\ \E k \in Nat : m = n * k + (m % n)
<1>1. m \div n \in Int /\ m = n * (m \div n) + (m % n) /\ m % n \in 0..(n - 1)
  OBVIOUS
<1>2. m \div n >= 0
  BY <1>1
<1> QED
  BY <1>1, <1>2

\* Abs and Sgn of an integer.
LEMMA SignFacts ==
  ASSUME NEW a \in Int
  PROVE  /\ Abs(a) \in Nat /\ Sgn(a) \in Int /\ Sgn(a) * Abs(a) = a /\ Sgn(a) * a = Abs(a)
         /\ Abs(a) = 0 <=> a = 0
  BY DEF Abs, Sgn

\* Euclid's equation, for arguments up to L.
Euclid(G, L) == \A n, m \in 0..L : G[n][m] = IF n = 0 THEN m ELSE G[m % n][n]

\* gcd is computed by a function that meets the equation.
LEMMA GcdSolved ==
  ASSUME NEW a \in Int, NEW b \in Int
  PROVE  \E L, G :
           /\ L \in Nat /\ Euclid(G, L)
           /\ Abs(a) \in 0..L /\ Abs(b) \in 0..L /\ gcd(a, b) = G[Abs(b)][Abs(a)]
<1> DEFINE L == Abs(a) + Abs(b)
           X == [0..L -> Nat]
           E(n, f) == [m \in 0..L |-> IF n = 0 THEN m ELSE f[m % n][n]]
           T == [n \in 0..L |-> [f \in [0..L -> X] |-> E(n, f)]]
           G == CHOOSE G : G = [n \in 0..L |-> E(n, G)]
<1>1. L \in Nat /\ Abs(a) \in 0..L /\ Abs(b) \in 0..L
  <2>1. Abs(a) \in Nat /\ Abs(b) \in Nat
    BY SignFacts
  <2> HIDE DEF X, E, T, G
  <2> QED
    BY <2>1
<1>2. gcd(a, b) = G[Abs(b)][Abs(a)]
  BY DEF gcd
<1> HIDE DEF L
<1>3. X # {}
  <2>1. [m \in 0..L |-> 0] \in X
    OBVIOUS
  <2> HIDE DEF X
  <2> QED
    BY <2>1
<1>4. \A n, m \in 0..L : n # 0 => m % n \in 0..(n - 1) /\ m % n \in 0..L
  BY <1>1, RemainderFacts
<1>5. ASSUME NEW n \in 0..L, NEW f \in [0..L -> X]
      PROVE  E(n, f) \in X
  <2> SUFFICES ASSUME NEW m \in 0..L PROVE (IF n = 0 THEN m ELSE f[m % n][n]) \in Nat
    OBVIOUS
  <2>1. n # 0 => f[m % n][n] \in Nat
    BY <1>4
  <2> QED
    BY <1>1, <2>1
<1>6. T \in Functionals(L, X)
  BY <1>5 DEF Functionals
<1>7. ASSUME NEW n \in 0..L, NEW f \in [0..L -> X], NEW e \in [0..L -> X],
             \A j \in 0..(n - 1) : f[j] = e[j]
      PROVE  E(n, f) = E(n, e)
  <2> SUFFICES ASSUME NEW m \in 0..L
               PROVE (IF n = 0 THEN m ELSE f[m % n][n]) = (IF n = 0 THEN m ELSE e[m % n][n])
    OBVIOUS
  <2>1. n # 0 => f[m % n] = e[m % n]
    BY <1>4, <1>7
  <2> QED
    BY <2>1
<1> HIDE DEF E, X
<1>8. LooksBelow(T, L, X)
  BY <1>7 DEF LooksBelow
<1>9. PICK F : Fixpoint(F, T, L, X)
  <2> HIDE DEF T, G
  <2> QED
    BY <1>1, <1>3, <1>6, <1>8, RecursiveFunction
<1>10. F = [n \in 0..L |-> E(n, F)]
  BY <1>9 DEF Fixpoint
<1>11. G = [n \in 0..L |-> E(n, G)]
  <2> HIDE DEF T
  <2> QED
    BY <1>10
<1> HIDE DEF G
<1>12. Euclid(G, L)
  <2> SUFFICES ASSUME NEW n \in 0..L, NEW m \in 0..L
               PROVE  G[n][m] = IF n = 0 THEN m ELSE G[m % n][n]
    BY DEF Euclid
  <2>1. G[n] = E(n, G)
    BY <1>11
  <2> QED
    BY <2>1 DEF E
<1> QED
  BY <1>1, <1>2, <1>12

\* g divides m and n and is a combination of them.
Common(g, m, n) ==
  /\ g \in Nat
  /\ \E p, q \in Nat : m = g * p /\ n = g * q
  /\ \E u, v \in Int : g = u * m + v * n

\* What divides n and the remainder of m divides m.
LEMMA CommonStep ==
  ASSUME NEW m \in Nat, NEW n \in Nat, n > 0, NEW g, Common(g, n, m % n)
  PROVE  Common(g, m, n)
<1>1. PICK k \in Nat : m = n * k + (m % n)
  BY RemainderFacts
<1>2. PICK p, q \in Nat : n = g * p /\ m % n = g * q
  BY DEF Common
<1>3. PICK u, v \in Int : g = u * n + v * (m % n)
  BY DEF Common
<1>4. g \in Nat /\ m % n \in Nat
  BY RemainderFacts DEF Common
<1> DEFINE r == m % n
<1> HIDE DEF r
<1>5. m = g * (p * k + q) /\ p * k + q \in Nat
  <2>1. m = n * k + r /\ n = g * p /\ r = g * q
    BY <1>1, <1>2 DEF r
  <2>2. (g * p) * k + g * q = g * (p * k + q)
    BY <1>4
  <2>3. p * k + q \in Nat
    <3>1. p * k \in Nat
      OBVIOUS
    <3> QED
      BY <3>1
  <2> QED
    BY <2>1, <2>2, <2>3
<1>6. g = v * m + (u - v * k) * n
  <2>1. r = m - n * k /\ g = u * n + v * r /\ r \in Nat /\ n * k \in Int
    BY <1>1, <1>3, <1>4 DEF r
  <2>2. u * n + v * (m - n * k) = v * m + (u - v * k) * n
    OBVIOUS
  <2> QED
    BY <2>1, <2>2
<1>7. u - v * k \in Int
  OBVIOUS
<1> QED
  BY <1>2, <1>4, <1>5, <1>6, <1>7 DEF Common

\* gcd divides its arguments and is a combination of them.
LEMMA GcdCommon ==
  ASSUME NEW a \in Int, NEW b \in Int
  PROVE  Common(gcd(a, b), Abs(a), Abs(b))
<1>1. PICK L, G :
         /\ L \in Nat /\ Euclid(G, L)
         /\ Abs(a) \in 0..L /\ Abs(b) \in 0..L /\ gcd(a, b) = G[Abs(b)][Abs(a)]
  BY GcdSolved
<1> DEFINE P == {n \in Nat : n \in 0..L => \A m \in 0..L : Common(G[n][m], m, n)}
<1>2. ASSUME NEW n \in Nat, \A k \in 0..(n - 1) : k \in P
      PROVE  n \in P
  <2> SUFFICES ASSUME n \in 0..L, NEW m \in 0..L PROVE Common(G[n][m], m, n)
    OBVIOUS
  <2>1. CASE n = 0
    <3>1. G[n][m] = m /\ m \in Nat
      BY <1>1, <2>1 DEF Euclid
    <3>2. m = m * 1 /\ 0 = m * 0 /\ m = 1 * m + 0 * 0
      BY <3>1
    <3> QED
      BY <2>1, <3>1, <3>2 DEF Common
  <2>2. CASE n # 0
    <3>1. m % n \in 0..(n - 1) /\ m % n \in 0..L
      <4>1. m \in Nat /\ n > 0
        BY <1>1, <2>2
      <4>2. m % n \in 0..(n - 1)
        BY <4>1, RemainderFacts
      <4> QED
        BY <1>1, <4>2
    <3>2. Common(G[m % n][n], n, m % n)
      BY <1>2, <3>1
    <3>3. G[n][m] = G[m % n][n]
      BY <1>1, <2>2 DEF Euclid
    <3>4. Common(G[m % n][n], m, n)
      BY <2>2, <3>2, CommonStep
    <3> QED
      BY <3>3, <3>4
  <2> QED
    BY <2>1, <2>2
<1> HIDE DEF P
<1>3. Abs(b) \in P
  BY <1>1, <1>2, NatSetInduction
<1> QED
  BY <1>1, <1>3 DEF P

\* Two factors of 1 are 1.
LEMMA UnitFactor ==
  ASSUME NEW g \in Nat, NEW k \in Int, g * k = 1
  PROVE  g = 1
<1>1. CASE g = 0
  BY <1>1
<1>2. CASE g > 1
  <2>1. k >= 1 => g * k >= g
    <3>1. k >= 1 => g * (k - 1) >= 0
      <4>1. \A x, y \in Nat : x * y >= 0
        OBVIOUS
      <4>2. k >= 1 => k - 1 \in Nat
        OBVIOUS
      <4> QED
        BY <4>1, <4>2
    <3>2. g * (k - 1) = g * k - g /\ g * k \in Int
      OBVIOUS
    <3> QED
      BY <3>1, <3>2
  <2>2. k <= 0 => g * k <= 0
    <3>1. k <= 0 => g * (-k) >= 0
      <4>1. \A x, y \in Nat : x * y >= 0
        OBVIOUS
      <4>2. k <= 0 => -k \in Nat
        OBVIOUS
      <4> QED
        BY <4>1, <4>2
    <3>2. g * (-k) = -(g * k) /\ g * k \in Int
      OBVIOUS
    <3> QED
      BY <3>1, <3>2
  <2> QED
    BY <1>2, <2>1, <2>2
<1> QED
  BY <1>1, <1>2

Coprime(a, b) == \E u, v \in Int : u * a + v * b = 1

\* gcd is 1 where a combination of its arguments is.
LEMMA CoprimeGcd ==
  ASSUME NEW a \in Int, NEW b \in Int
  PROVE  gcd(a, b) = 1 <=> Coprime(a, b)
<1> DEFINE g == gcd(a, b)
<1>1. Common(g, Abs(a), Abs(b))
  BY GcdCommon
<1> HIDE DEF g
<1>2. g \in Nat
  BY <1>1 DEF Common
<1>3. PICK p, q \in Nat : Abs(a) = g * p /\ Abs(b) = g * q
  BY <1>1 DEF Common
<1>4. PICK u, v \in Int : g = u * Abs(a) + v * Abs(b)
  BY <1>1 DEF Common
<1>5. /\ Sgn(a) \in Int /\ Sgn(b) \in Int /\ Abs(a) \in Nat /\ Abs(b) \in Nat
      /\ Sgn(a) * Abs(a) = a /\ Sgn(b) * Abs(b) = b
      /\ Sgn(a) * a = Abs(a) /\ Sgn(b) * b = Abs(b)
  BY SignFacts
<1>6. ASSUME g = 1 PROVE Coprime(a, b)
  <2>1. u * (Sgn(a) * a) + v * (Sgn(b) * b) = 1
    BY <1>4, <1>5, <1>6
  <2>2. (u * Sgn(a)) * a + (v * Sgn(b)) * b = 1
    BY <1>5, <2>1
  <2>3. u * Sgn(a) \in Int /\ v * Sgn(b) \in Int
    BY <1>5
  <2> QED
    BY <2>2, <2>3 DEF Coprime
<1>7. ASSUME Coprime(a, b) PROVE g = 1
  <2>1. PICK x, y \in Int : x * a + y * b = 1
    BY <1>7 DEF Coprime
  <2> DEFINE s == Sgn(a)
             t == Sgn(b)
  <2>2. s \in Int /\ t \in Int /\ a = s * (g * p) /\ b = t * (g * q)
    BY <1>3, <1>5
  <2> HIDE DEF s, t
  <2>3. x * (s * (g * p)) + y * (t * (g * q)) = g * (x * s * p + y * t * q)
    BY <1>2, <2>2
  <2>4. x * s * p + y * t * q \in Int
    BY <2>2
  <2>5. g * (x * s * p + y * t * q) = 1
    BY <2>1, <2>2, <2>3
  <2> HIDE DEF g
  <2> QED
    BY <1>2, <2>4, <2>5, UnitFactor
<1> QED
  BY <1>6, <1>7 DEF g

\* A product is 0 only if a factor is; factors other than 0 cancel.
LEMMA CancelFactor ==
  ASSUME NEW a \in Int, NEW b \in Int, NEW c \in Int, c # 0, c * a = c * b
  PROVE  a = b
<1>1. c * (a - b) = 0
  BY SMT
<1>2. \A x, y \in Int : x * y = 0 => x = 0 \/ y = 0
  BY SMT
<1> QED
  BY <1>1, <1>2

\* The quotient of a multiple.
LEMMA ExactQuotient ==
  ASSUME NEW g \in Nat, g > 0, NEW p \in Nat
  PROVE  (g * p) \div g = p /\ (g * p) % g = 0
<1> DEFINE x == g * p
<1>1. x \in Nat
  BY SMT
<1>2. x \div g \in Int /\ x = g * (x \div g) + (x % g) /\ x % g \in 0..(g - 1)
  BY <1>1
<1>3. x = g * p
  OBVIOUS
<1> DEFINE d == x \div g
           r == x % g
<1>4. d \in Int /\ r \in 0..(g - 1) /\ g * p = g * d + r
  BY <1>2, <1>3
<1> HIDE DEF x, d, r
<1>5. r = g * (p - d)
  BY <1>4
<1>6. p - d >= 1 => g * (p - d) >= g
  <2>1. \A k \in Nat : g * k >= 0
    OBVIOUS
  <2>2. p - d >= 1 => g * (p - d - 1) >= 0
    BY <1>4, <2>1
  <2>3. g * (p - d - 1) = g * (p - d) - g
    BY <1>4
  <2>4. g * (p - d) \in Int
    BY <1>4
  <2> QED
    BY <2>2, <2>3, <2>4
<1>7. p - d <= -1 => g * (p - d) <= -g
  <2>1. \A k \in Nat : g * k >= 0
    OBVIOUS
  <2>2. p - d <= -1 => g * (d - p - 1) >= 0
    BY <1>4, <2>1
  <2>3. g * (d - p - 1) = -(g * (p - d)) - g
    BY <1>4
  <2>4. g * (p - d) \in Int
    BY <1>4
  <2> QED
    BY <2>2, <2>3, <2>4
<1>8. p - d = 0
  BY <1>4, <1>5, <1>6, <1>7
<1>9. d = p
  BY <1>4, <1>8
<1>10. r = 0
  BY <1>4, <1>5, <1>8
<1> QED
  BY <1>9, <1>10 DEF d, r, x

\* Fractions in lowest terms with a positive denominator.
Reduced == {p \in Int \X (Nat \ {0}) : Coprime(p[1], p[2])}

\* p is n/d in lowest terms
Rat(p, n, d) == p \in Reduced /\ d # 0 /\ p[1] * d = n * p[2]

\* The components of a reduced fraction.
LEMMA ReducedParts ==
  ASSUME NEW p \in Reduced
  PROVE  /\ p[1] \in Int /\ p[2] \in Nat /\ p[2] > 0 /\ p[2] # 0 /\ p[2] \in Int
         /\ p = <<p[1], p[2]>> /\ Coprime(p[1], p[2])
  BY DEF Reduced

\* Lowest gives the fraction in lowest terms.
LEMMA LowestRat ==
  ASSUME NEW n \in Int, NEW d \in Int, d # 0
  PROVE  Rat(Lowest(n, d), n, d)
<1> DEFINE g == gcd(n, d)
           s == Sgn(n)
           t == Sgn(d)
<1>1. Common(g, Abs(n), Abs(d))
  BY GcdCommon
<1>2. Lowest(n, d) = <<t * s * (Abs(n) \div g), Abs(d) \div g>>
  BY DEF Lowest
<1>3. /\ s \in Int /\ t \in Int /\ Abs(n) \in Nat /\ Abs(d) \in Nat
      /\ s * Abs(n) = n /\ t * Abs(d) = d /\ Abs(d) # 0
  BY SignFacts
<1>4. t = 1 \/ t = -1
  BY DEF Sgn
<1>4a. s = 1 \/ s = -1 \/ (s = 0 /\ n = 0)
  BY DEF Sgn
<1> HIDE DEF g, s, t
<1>5. g \in Nat
  BY <1>1 DEF Common
<1>6. PICK p, q \in Nat : Abs(n) = g * p /\ Abs(d) = g * q
  BY <1>1 DEF Common
<1>7. PICK u, v \in Int : g = u * Abs(n) + v * Abs(d)
  BY <1>1 DEF Common
<1>8. g # 0 /\ g > 0 /\ q # 0
  <2>1. g * q # 0
    BY <1>3, <1>6
  <2>2. g = 0 => g * q = 0
    BY SMT
  <2>3. q = 0 => g * q = 0
    BY <1>5
  <2> QED
    BY <1>5, <2>1, <2>2, <2>3
<1>9. Abs(n) \div g = p /\ Abs(d) \div g = q
  BY <1>5, <1>6, <1>8, ExactQuotient
<1>10. u * p + v * q = 1
  <2>1. g * (u * p + v * q) = g * 1
    BY <1>5, <1>6, <1>7
  <2>2. u * p + v * q \in Int
    OBVIOUS
  <2> QED
    BY <1>5, <1>8, <2>1, <2>2, CancelFactor
<1> DEFINE N == t * s * p
<1>11. N \in Int /\ Lowest(n, d) = <<N, q>>
  BY <1>2, <1>3, <1>9
<1>12. Coprime(N, q)
  <2>1. CASE s = 0
    <3>1. Abs(n) = 0
      BY <1>4a, <2>1 DEF Abs
    <3>2. p = 0
      <4>1. g * p = g * 0
        BY <1>5, <1>6, <3>1
      <4> QED
        BY <1>5, <1>8, <4>1, CancelFactor
    <3>3. N = 0
      BY <1>3, <3>2
    <3>4. u * p = 0 /\ v * q = 1
      BY <1>10, <3>2
    <3>5. 0 * N + v * q = 1
      BY <3>3, <3>4
    <3> QED
      BY <3>5 DEF Coprime
  <2>2. CASE s # 0
    <3>1. CASE t * s = 1
      <4>1. N = p
        BY <3>1
      <4> QED
        BY <1>10, <4>1 DEF Coprime
    <3>2. CASE t * s = -1
      <4>1. N = -p
        BY <3>2
      <4>2. (-u) * N + v * q = 1 /\ -u \in Int
        BY <1>10, <4>1
      <4> HIDE DEF N
      <4> QED
        BY <4>2 DEF Coprime
    <3> QED
      BY <1>4, <1>4a, <2>2, <3>1, <3>2
  <2> QED
    BY <2>1, <2>2
<1>13. N * d = n * q
  <2>1. d = t * (g * q) /\ n = s * (g * p)
    BY <1>3, <1>6
  <2>2. (t * s * p) * (t * (g * q)) = (t * t) * ((s * (g * p)) * q)
    BY <1>3, <1>5
  <2>3. t * t = 1
    BY <1>4
  <2>4. (s * (g * p)) * q \in Int
    BY <1>3, <1>5
  <2> QED
    BY <2>1, <2>2, <2>3, <2>4
<1> HIDE DEF N
<1>14. <<N, q>> \in Reduced
  BY <1>8, <1>11, <1>12 DEF Reduced
<1> QED
  BY <1>11, <1>13, <1>14 DEF Rat

\* If each of two positive numbers divides the other they are equal.
LEMMA MutualDivisors ==
  ASSUME NEW a \in Nat, NEW b \in Nat, a > 0, b > 0,
         NEW k \in Int, NEW l \in Int, a = b * k, b = a * l
  PROVE  a = b
<1>1. a * (l * k) = a * 1
  BY SMT
<1>2. l * k = 1
  <2>1. l * k \in Int
    OBVIOUS
  <2> QED
    BY <1>1, <2>1, CancelFactor
<1>3. l >= 0
  <2>1. l <= -1 => a * l <= 0
    <3>1. \A x, y \in Nat : x * y >= 0
      OBVIOUS
    <3>2. l <= -1 => a * (-l) >= 0
      BY <3>1
    <3>3. a * (-l) = -(a * l) /\ a * l \in Int
      OBVIOUS
    <3> QED
      BY <3>2, <3>3
  <2> QED
    BY <2>1
<1>4. l = 1
  BY <1>2, <1>3, UnitFactor
<1> QED
  BY <1>4

\* Reduced fractions are equal where they are equal crosswise.
LEMMA CrossEqual ==
  ASSUME NEW p \in Reduced, NEW q \in Reduced
  PROVE  p = q <=> p[1] * q[2] = q[1] * p[2]
<1> SUFFICES ASSUME p[1] * q[2] = q[1] * p[2] PROVE p = q
  OBVIOUS
<1>1. /\ p[1] \in Int /\ p[2] \in Nat /\ p[2] > 0 /\ p = <<p[1], p[2]>>
      /\ q[1] \in Int /\ q[2] \in Nat /\ q[2] > 0 /\ q = <<q[1], q[2]>>
  BY ReducedParts
<1>2. PICK u, v \in Int : u * p[1] + v * p[2] = 1
  BY ReducedParts DEF Coprime
<1>3. PICK x, y \in Int : x * q[1] + y * q[2] = 1
  BY ReducedParts DEF Coprime
<1> DEFINE a == p[1]
           b == p[2]
           c == q[1]
           d == q[2]
<1>4. /\ a \in Int /\ b \in Nat /\ b > 0 /\ c \in Int /\ d \in Nat /\ d > 0
      /\ a * d = c * b /\ u * a + v * b = 1 /\ x * c + y * d = 1
  BY <1>1, <1>2, <1>3
<1> HIDE DEF a, b, c, d
<1>5. d = b * (u * c + v * d) /\ u * c + v * d \in Int
  <2>1. d * (u * a + v * b) = d
    BY <1>4
  <2>2. d * (u * a + v * b) = u * (a * d) + v * b * d
    BY <1>4
  <2>3. u * (c * b) + v * b * d = b * (u * c + v * d)
    BY <1>4
  <2>4. u * c + v * d \in Int
    BY <1>4
  <2> QED
    BY <1>4, <2>1, <2>2, <2>3, <2>4
<1>6. b = d * (x * a + y * b) /\ x * a + y * b \in Int
  <2>1. b * (x * c + y * d) = b
    BY <1>4
  <2>2. b * (x * c + y * d) = x * (c * b) + y * d * b
    BY <1>4
  <2>3. x * (a * d) + y * d * b = d * (x * a + y * b)
    BY <1>4
  <2>4. x * a + y * b \in Int
    BY <1>4
  <2> QED
    BY <1>4, <2>1, <2>2, <2>3, <2>4
<1>7. d = b
  BY <1>4, <1>5, <1>6, MutualDivisors
<1>8. a = c
  <2>1. b * a = b * c
    BY <1>4, <1>7
  <2> QED
    BY <1>4, <2>1, CancelFactor
<1> QED
  BY <1>1, <1>7, <1>8 DEF a, b, c, d

\* Two reductions of one fraction are equal.
LEMMA RatUnique ==
  ASSUME NEW n \in Int, NEW d \in Int, NEW m \in Int, NEW e \in Int,
         NEW p, Rat(p, n, d), NEW q, Rat(q, m, e), n * e = m * d
  PROVE  p = q
<1>1. p \in Reduced /\ q \in Reduced
  BY DEF Rat
<1> DEFINE a == p[1]
           b == p[2]
           x == q[1]
           y == q[2]
<1>2. /\ a \in Int /\ b \in Int /\ x \in Int /\ y \in Int
      /\ d # 0 /\ e # 0 /\ a * d = n * b /\ x * e = m * y
  BY <1>1, ReducedParts DEF Rat
<1> HIDE DEF a, b, x, y
<1>3. (d * e) * (a * y) = (d * e) * (x * b)
  <2>1. (d * e) * (a * y) = (a * d) * (e * y)
    BY <1>2
  <2>2. (n * b) * (e * y) = (n * e) * (b * y)
    BY <1>2
  <2>3. (m * d) * (b * y) = (m * y) * (d * b)
    BY <1>2
  <2>4. (x * e) * (d * b) = (d * e) * (x * b)
    BY <1>2
  <2> QED
    BY <1>2, <2>1, <2>2, <2>3, <2>4
<1>4. d * e # 0
  <2>1. \A k, l \in Int : k * l = 0 => k = 0 \/ l = 0
    BY SMT
  <2> QED
    BY <1>2, <2>1
<1>5. a * y = x * b
  <2>1. d * e \in Int /\ a * y \in Int /\ x * b \in Int
    BY <1>2
  <2> QED
    BY <1>3, <1>4, <2>1, CancelFactor
<1> QED
  BY <1>1, <1>5, CrossEqual DEF a, b, x, y

\* A reduced fraction is its own reduction.
LEMMA ReducedSelf ==
  ASSUME NEW p \in Reduced
  PROVE  Rat(p, p[1], p[2])
  BY ReducedParts DEF Rat

\* Lowest does not depend on how a fraction is written.
LEMMA LowestScale ==
  ASSUME NEW a \in Int, NEW b \in Int, b # 0,
         NEW n \in Int, NEW d \in Int, d # 0, a * d = n * b
  PROVE  Rat(Lowest(a, b), n, d)
<1>1. Rat(Lowest(a, b), a, b) /\ Rat(Lowest(n, d), n, d)
  BY LowestRat
<1>2. Lowest(a, b) = Lowest(n, d)
  BY <1>1, RatUnique
<1> QED
  BY <1>1, <1>2

\* Products of numbers other than zero.
LEMMA NonzeroProduct ==
  ASSUME NEW a \in Int, NEW b \in Int
  PROVE  a * b \in Int /\ (a * b = 0 <=> a = 0 \/ b = 0)
  BY SMT

\* A fraction whose terms are given: its numbers.
LEMMA RatParts ==
  ASSUME NEW n \in Int, NEW d \in Int, NEW p, Rat(p, n, d)
  PROVE  /\ p[1] \in Int /\ p[2] \in Int /\ p[2] > 0 /\ p[2] # 0 /\ d # 0
         /\ p[1] * d = n * p[2]
         /\ p \in Reduced
         /\ p[1] = 0 <=> n = 0
<1>1. /\ p[1] \in Int /\ p[2] \in Int /\ p[2] > 0 /\ p[2] # 0 /\ d # 0
      /\ p[1] * d = n * p[2] /\ p \in Reduced
  BY ReducedParts DEF Rat
<1>2. /\ (p[1] * d = 0 <=> p[1] = 0 \/ d = 0)
      /\ (n * p[2] = 0 <=> n = 0 \/ p[2] = 0)
  BY <1>1, NonzeroProduct
<1> QED
  BY <1>1, <1>2

\* A number is the lowest terms of itself over 1.
LEMMA LowestWhole ==
  ASSUME NEW n \in Int
  PROVE  Lowest(n, 1) = <<n, 1>>
<1>1. 0 * n + 1 * 1 = 1
  OBVIOUS
<1>2. <<n, 1>> \in Reduced
  BY <1>1 DEF Reduced, Coprime
<1>3. Rat(<<n, 1>>, n, 1)
  BY <1>2 DEF Rat
<1> QED
  BY <1>3, LowestRat, RatUnique
=============================================================================
