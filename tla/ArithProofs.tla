---------------------------- MODULE ArithProofs ----------------------------
(***************************************************************************)
(* Proofs about exact arithmetic, for arguments of every size: the numbers    *)
(* and operations of Number, and the calls of Arith.                        *)
(*   - A Standard number is one in its only representation; re_canonicalize  *)
(*     makes any number Standard, and so each branch of _re_arith2 yields a  *)
(*     Standard number with the right value, what mpz_divexact leaves, or a  *)
(*     trap, and the last two never turn into a number again.               *)
(*   - The same for _arith2 on complex numbers, and then, by an invariant,   *)
(*     for the loops of _arith and _order.                                  *)
(***************************************************************************)
EXTENDS Arith, NumberProofs

\* Sum, difference, product and quotient of fractions in lowest terms.
LEMMA RatSum ==
  ASSUME NEW n \in Int, NEW d \in Int, NEW m \in Int, NEW e \in Int,
         NEW p, Rat(p, n, d), NEW q, Rat(q, m, e)
  PROVE  /\ Rat(Plus(p, q), n * e + m * d, d * e)
         /\ Rat(Minus(p, q), n * e - m * d, d * e)
<1> DEFINE a == p[1]
           b == p[2]
           x == q[1]
           y == q[2]
<1>1. /\ a \in Int /\ b \in Int /\ x \in Int /\ y \in Int /\ b # 0 /\ y # 0
      /\ d # 0 /\ e # 0 /\ a * d = n * b /\ x * e = m * y
  BY RatParts
<1>2. /\ Plus(p, q) = Lowest(a * y + x * b, b * y)
      /\ Minus(p, q) = Lowest(a * y - x * b, b * y)
  BY DEF Plus, Minus
<1> HIDE DEF a, b, x, y
<1>3. b * y # 0 /\ d * e # 0
  BY <1>1, NonzeroProduct
<1>4. /\ (a * y + x * b) * (d * e) = (a * d) * (y * e) + (x * e) * (b * d)
      /\ (a * y - x * b) * (d * e) = (a * d) * (y * e) - (x * e) * (b * d)
  BY <1>1
<1>5. /\ (n * b) * (y * e) + (m * y) * (b * d) = (n * e + m * d) * (b * y)
      /\ (n * b) * (y * e) - (m * y) * (b * d) = (n * e - m * d) * (b * y)
  BY <1>1
<1>6. /\ a * y + x * b \in Int /\ a * y - x * b \in Int /\ b * y \in Int
      /\ d * e \in Int /\ n * e + m * d \in Int /\ n * e - m * d \in Int
  BY <1>1
<1>7. /\ (a * y + x * b) * (d * e) = (n * e + m * d) * (b * y)
      /\ (a * y - x * b) * (d * e) = (n * e - m * d) * (b * y)
  BY <1>1, <1>4, <1>5
<1>8. Rat(Lowest(a * y + x * b, b * y), n * e + m * d, d * e)
  BY <1>3, <1>6, <1>7, LowestScale
<1>9. Rat(Lowest(a * y - x * b, b * y), n * e - m * d, d * e)
  BY <1>3, <1>6, <1>7, LowestScale
<1> QED
  BY <1>2, <1>8, <1>9

\* Products and quotients of fractions.
LEMMA RatProduct ==
  ASSUME NEW n \in Int, NEW d \in Int, NEW m \in Int, NEW e \in Int,
         NEW p, Rat(p, n, d), NEW q, Rat(q, m, e)
  PROVE  /\ Rat(Times(p, q), n * m, d * e)
         /\ m # 0 => Rat(Over(p, q), n * e, d * m)
<1> DEFINE a == p[1]
           b == p[2]
           x == q[1]
           y == q[2]
<1>1. /\ a \in Int /\ b \in Int /\ x \in Int /\ y \in Int /\ b # 0 /\ y # 0
      /\ d # 0 /\ e # 0 /\ a * d = n * b /\ x * e = m * y
      /\ x = 0 <=> m = 0
  BY RatParts
<1>2. Times(p, q) = Lowest(a * x, b * y) /\ Over(p, q) = Lowest(a * y, b * x)
  BY DEF Times, Over
<1> HIDE DEF a, b, x, y
<1>3. b * y # 0 /\ d * e # 0 /\ (m # 0 => b * x # 0 /\ d * m # 0)
  BY <1>1, NonzeroProduct
<1>4. /\ a * x \in Int /\ b * y \in Int /\ a * y \in Int /\ b * x \in Int
      /\ n * m \in Int /\ d * e \in Int /\ n * e \in Int /\ d * m \in Int
  BY <1>1
<1>5. (a * x) * (d * e) = (n * m) * (b * y)
  <2>1. (a * x) * (d * e) = (a * d) * (x * e)
    BY <1>1
  <2>2. (n * b) * (m * y) = (n * m) * (b * y)
    BY <1>1
  <2> QED
    BY <1>1, <2>1, <2>2
<1>6. (a * y) * (d * m) = (n * e) * (b * x)
  <2>1. (a * y) * (d * m) = (a * d) * (m * y)
    BY <1>1
  <2>2. (n * b) * (x * e) = (n * e) * (b * x)
    BY <1>1
  <2> QED
    BY <1>1, <2>1, <2>2
<1>7. Rat(Lowest(a * x, b * y), n * m, d * e)
  BY <1>3, <1>4, <1>5, LowestScale
<1>8. m # 0 => Rat(Lowest(a * y, b * x), n * e, d * m)
  BY <1>3, <1>4, <1>6, LowestScale
<1> QED
  BY <1>2, <1>7, <1>8

-----------------------------------------------------------------------------

\* A number in one of the representations that an operation may be given: the
\* first operand of a division by a complex number may be a big number that
\* fits an int.
Whole(x) ==
  /\ x \in Part
  /\ x.type \in 0..2
  /\ x.type = 0 => x.num \in Int32
  /\ x.type = 1 => x.num # 0
  /\ x.type < 2 => x.den = 1
  /\ Frac(x) \in Reduced
  /\ x.type = 2 => x.den > 1

\* A number in its only representation.
Standard(x) == x \in Part /\ Canonical(x)

\* What Canonical says of the fraction.
LEMMA StandardWhole ==
  ASSUME NEW x, Standard(x)
  PROVE  /\ Whole(x)
         /\ x.type = 1 => x.num \notin Int32
<1>1. x \in Part /\ x.type \in Int /\ x.num \in Int /\ x.den \in Int
  BY DEF Standard, Part
<1>2. /\ x.type \in 0..2
      /\ x.type = 0 => x.num \in Int32 /\ x.den = 1
      /\ x.type = 1 => x.num \notin Int32 /\ x.den = 1
      /\ x.type = 2 => x.den > 1 /\ gcd(x.num, x.den) = 1
  BY <1>1 DEF Standard, Canonical, Part
<1>3. x.den \in Nat \ {0}
  BY <1>1, <1>2
<1>4. Coprime(x.num, x.den)
  <2>1. CASE x.type = 2
    BY <1>1, <1>2, <2>1, CoprimeGcd
  <2>2. CASE x.type # 2
    <3>1. 0 * x.num + 1 * x.den = 1
      BY <1>1, <1>2, <2>2
    <3> QED
      BY <3>1 DEF Coprime
  <2> QED
    BY <2>1, <2>2
<1>5. Frac(x) \in Reduced
  BY <1>1, <1>3, <1>4 DEF Frac, Reduced
<1>6. 0 \in Int32
  BY HAssumption DEF Int32
<1> QED
  BY <1>1, <1>2, <1>5, <1>6 DEF Whole

\* The numbers of a Whole.
LEMMA WholeParts ==
  ASSUME NEW x, Whole(x)
  PROVE  /\ x.type \in Int /\ x.num \in Int /\ x.den \in Int /\ x.den > 0
         /\ x = Rational(x.type, x.num, x.den)
         /\ Rat(Frac(x), x.num, x.den)
<1>1. x \in Part /\ Frac(x) \in Reduced
  BY DEF Whole
<1>2. x.type \in Int /\ x.num \in Int /\ x.den \in Int
  BY <1>1 DEF Part
<1>3. x = Rational(x.type, x.num, x.den)
  BY <1>1 DEF Part, Rational
<1>4. Frac(x)[1] = x.num /\ Frac(x)[2] = x.den
  BY DEF Frac
<1>5. Rat(Frac(x), x.num, x.den)
  BY <1>1, <1>4, ReducedSelf
<1> QED
  BY <1>1, <1>2, <1>3, <1>4, <1>5, ReducedParts

\* re_canonicalize leaves the only representation of the value.
LEMMA CanonicalizeFacts ==
  ASSUME NEW t \in 1..2, NEW n \in Int, NEW d \in Int, d # 0, t = 1 => d = 1
  PROVE  /\ Standard(re_canonicalize(Rational(t, n, d)))
         /\ Frac(re_canonicalize(Rational(t, n, d))) = Lowest(n, d)
<1> DEFINE x == Rational(t, n, d)
           l == Lowest(n, d)
           z == IF t = 2 /\ l[2] # 1 THEN Rational(2, l[1], l[2]) ELSE Big(l[1])
           r == IF z.type = 1 /\ z.num \in Int32 THEN Small(z.num) ELSE z
<1>1. x.type = t /\ x.num = n /\ x.den = d /\ ~Faulty(x)
  BY DEF Rational, Faulty
<1>2. re_canonicalize(x) = r
  BY <1>1 DEF re_canonicalize
<1>3. Rat(l, n, d)
  BY LowestRat
<1> HIDE DEF x
<1>3a. /\ l[1] \in Int /\ l[2] \in Int /\ l[2] > 0 /\ l \in Reduced
  <2> HIDE DEF l
  <2> QED
    BY <1>3, RatParts
<1>4. /\ l = <<l[1], l[2]>> /\ Coprime(l[1], l[2])
      /\ t = 1 => l[2] = 1
  <2>1. t = 1 => l = <<n, 1>>
    BY LowestWhole
  <2> HIDE DEF l
  <2>2. t = 1 => l[2] = 1
    BY <2>1
  <2> QED
    BY <1>3a, <2>2, ReducedParts
<1> HIDE DEF l
<1>5. CASE t = 2 /\ l[2] # 1
  <2>1. r = Rational(2, l[1], l[2])
    BY <1>5 DEF Rational
  <2>2. gcd(l[1], l[2]) = 1
    BY <1>3a, <1>4, CoprimeGcd
  <2>3. Standard(r)
    BY <1>3a, <1>5, <2>1, <2>2 DEF Standard, Part, Canonical, Rational
  <2>4. Frac(r) = l
    BY <1>4, <2>1 DEF Frac, Rational
  <2> QED
    BY <1>2, <2>3, <2>4 DEF x, l
<1>6. CASE ~(t = 2 /\ l[2] # 1)
  <2>1. z = Rational(1, l[1], 1)
    BY <1>6 DEF Big
  <2>2. r = IF l[1] \in Int32 THEN Rational(0, l[1], 1) ELSE Rational(1, l[1], 1)
    <3> HIDE DEF z
    <3> QED
      BY <2>1 DEF Rational, Small
  <2> HIDE DEF r
  <2>3. Standard(r)
    BY <1>3a, <2>2 DEF Standard, Part, Canonical, Rational
  <2>4. l[2] = 1
    BY <1>4, <1>6
  <2>5. Frac(r) = l
    BY <1>4, <2>2, <2>4 DEF Frac, Rational
  <2> QED
    BY <1>2, <2>3, <2>5 DEF x, l
<1> QED
  BY <1>5, <1>6

\* The magnitude and the sign of an int, as the macros use them.
LEMMA MagnitudeFacts ==
  ASSUME NEW b \in Int
  PROVE  /\ si_to_ui(b) = Abs(b) /\ Abs(b) \in Nat
         /\ (IF Sgn(b) = -1 THEN -1 ELSE 1) * Abs(b) = b
  BY DEF si_to_ui, Abs, Sgn

\* BigArith on + - * computes with numerators and denominators.
LEMMA BigSum ==
  ASSUME NEW x \in Part, NEW y \in Part, x.type \in 0..2, y.type \in 0..2,
         x.type < 2 => x.den = 1, y.type < 2 => y.den = 1,
         x.type # 0 \/ y.type # 0, x.den # 0
  PROVE  LET w == IF x.type = 2 \/ y.type = 2 THEN 2 ELSE 1
         IN /\ BigArith("+", x, y) = Rational(w, x.num * y.den + y.num * x.den, x.den * y.den)
            /\ BigArith("-", x, y) = Rational(w, x.num * y.den - y.num * x.den, x.den * y.den)
            /\ BigArith("*", x, y) = Rational(w, x.num * y.num, x.den * y.den)
<1> DEFINE t == x.type
           n == x.num
           d == x.den
           k == y.type
           m == y.num
           e == y.den
           w == IF t = 2 \/ k = 2 THEN 2 ELSE 1
           s == IF Sgn(m) = -1 THEN -1 ELSE 1
           u == Abs(m)
           sum == n * e + m * d
           difference == n * e - m * d
           product == n * m
           over == d * e
           Computed ==
             /\ BigArith("+", x, y) = Rational(w, sum, over)
             /\ BigArith("-", x, y) = Rational(w, difference, over)
             /\ BigArith("*", x, y) = Rational(w, product, over)
<1>1. /\ x.type = t /\ x.num = n /\ x.den = d /\ y.type = k /\ y.num = m /\ y.den = e
      /\ t \in 0..2 /\ n \in Int /\ d \in Int /\ d # 0
      /\ k \in 0..2 /\ m \in Int /\ e \in Int
      /\ t < 2 => d = 1
      /\ k < 2 => e = 1
      /\ t # 0 \/ k # 0
  BY DEF Part
<1>1a. x = Rational(t, n, d)
  BY DEF Part, Rational
<1>2. u \in Nat /\ s * u = m /\ si_to_ui(m) = u /\ s \in Int
  BY <1>1, MagnitudeFacts
<1> HIDE DEF t, n, d, k, m, e, sum, difference, product, over
<1>3. ASSUME k = 0 /\ t = 1 PROVE Computed
  <2>1. \A o : BigArith(o, x, y) = MP_ARITH_INTEGER(o, n, u, Sgn(m))
    BY <1>1, <1>2, <1>3 DEF BigArith
  <2> HIDE DEF s, u
  <2>2. /\ BigArith("+", x, y) = Big(n + s * u)
        /\ BigArith("-", x, y) = Big(n - s * u)
        /\ BigArith("*", x, y) = Big(s * (n * u))
    BY <2>1 DEF MP_ARITH_INTEGER, s
  <2>3. s * (n * u) = n * (s * u)
    BY <1>1, <1>2
  <2>4. d = 1 /\ e = 1 /\ w = 1
    BY <1>1, <1>3
  <2> HIDE DEF w
  <2>5. sum = n + m /\ difference = n - m /\ over = 1 /\ product = n * m
    BY <1>1, <2>4 DEF sum, difference, over, product
  <2> QED
    BY <1>2, <2>2, <2>3, <2>4, <2>5 DEF Big
<1>4. ASSUME k = 0 /\ t = 2 PROVE Computed
  <2>1. \A o : BigArith(o, x, y) = MP_ARITH_RATIONAL_INTEGER(o, x, u, Sgn(m))
    BY <1>1, <1>2, <1>4 DEF BigArith
  <2> HIDE DEF s, u
  <2>2. /\ BigArith("+", x, y) = Rational(2, n + s * (d * u), d)
        /\ BigArith("-", x, y) = Rational(2, n - s * (d * u), d)
        /\ BigArith("*", x, y) = Rational(2, s * (n * u), d)
    BY <1>1, <2>1 DEF MP_ARITH_RATIONAL_INTEGER, s
  <2>3. s * (n * u) = n * (s * u) /\ s * (d * u) = (s * u) * d
    BY <1>1, <1>2
  <2>4. e = 1 /\ w = 2
    BY <1>1, <1>4
  <2> HIDE DEF w
  <2>5. sum = n + m * d /\ difference = n - m * d /\ over = d /\ product = n * m
    BY <1>1, <2>4 DEF sum, difference, over, product
  <2> QED
    BY <1>2, <2>2, <2>3, <2>4, <2>5
<1>5. ASSUME k = 1 /\ t = 2 PROVE Computed
  <2>1. \A o : BigArith(o, x, y) = MP_ARITH_RATIONAL_INTEGER(o, x, m, 1)
    BY <1>1, <1>5 DEF BigArith
  <2>2. /\ BigArith("+", x, y) = Rational(2, n + 1 * (d * m), d)
        /\ BigArith("-", x, y) = Rational(2, n - 1 * (d * m), d)
        /\ BigArith("*", x, y) = Rational(2, 1 * (n * m), d)
    BY <1>1, <2>1 DEF MP_ARITH_RATIONAL_INTEGER
  <2>3. 1 * (n * m) = n * m /\ 1 * (d * m) = m * d
    BY <1>1
  <2>4. e = 1 /\ w = 2
    BY <1>1, <1>5
  <2> HIDE DEF w
  <2>5. sum = n + m * d /\ difference = n - m * d /\ over = d /\ product = n * m
    BY <1>1, <2>4 DEF sum, difference, over, product
  <2> QED
    BY <2>2, <2>3, <2>4, <2>5
<1>6. ASSUME k = 1 /\ t < 2 PROVE Computed
  <2>1. \A o : BigArith(o, x, y) = MP_ARITH_INTEGER(o, n, m, 1)
    BY <1>1, <1>6 DEF BigArith
  <2>2. /\ BigArith("+", x, y) = Big(n + 1 * m)
        /\ BigArith("-", x, y) = Big(n - 1 * m)
        /\ BigArith("*", x, y) = Big(1 * (n * m))
    BY <2>1 DEF MP_ARITH_INTEGER
  <2>3. 1 * (n * m) = n * m /\ 1 * m = m
    BY <1>1
  <2>4. d = 1 /\ e = 1 /\ w = 1
    BY <1>1, <1>6
  <2> HIDE DEF w
  <2>5. sum = n + m /\ difference = n - m /\ over = 1 /\ product = n * m
    BY <1>1, <2>4 DEF sum, difference, over, product
  <2> QED
    BY <2>2, <2>3, <2>4, <2>5 DEF Big
<1>7. ASSUME k = 2 PROVE Computed
  <2>1. \A o : BigArith(o, x, y) = MP_ARITH_RATIONAL(o, re_promote(x, 2), y)
    BY <1>1, <1>7 DEF BigArith
  <2>2. re_promote(x, 2) = Rational(2, n, d)
    <3>1. CASE t = 2
      BY <1>1, <1>1a, <3>1 DEF re_promote
    <3>2. CASE t < 2
      BY <1>1, <1>1a, <3>2 DEF re_promote, Rational
    <3> QED
      BY <1>1, <3>1, <3>2
  <2>3. Rational(2, n, d).num = n /\ Rational(2, n, d).den = d
    BY DEF Rational
  <2>4. w = 2
    BY <1>1, <1>7
  <2> HIDE DEF w
  <2> QED
    BY <1>1, <2>1, <2>2, <2>3, <2>4
       DEF MP_ARITH_RATIONAL, sum, difference, product, over
<1> HIDE DEF Computed
<1>8. Computed
  BY <1>1, <1>3, <1>4, <1>5, <1>6, <1>7
<1> QED
  BY <1>8 DEF Computed, sum, difference, product, over, t, n, d, k, m, e

\* _re_arith2 of + - *: in ints if that is exact, by GMP and canonicalized else.
LEMMA ArithSum ==
  ASSUME NEW x, Standard(x), NEW y, Standard(y), NEW o \in {"+", "-", "*"}
  PROVE  re_arith2(o, x, y) =
           IF x.type = 0 /\ y.type = 0 /\ StaysFixnum(o, x.num, y.num)
           THEN Rational(0, FixnumResult(o, x.num, y.num), 1)
           ELSE re_canonicalize(BigArith(o,
                  Rational(IF x.type = 0 /\ y.type = 0 THEN 1 ELSE x.type, x.num, x.den), y))
<1> DEFINE ints == x.type = 0 /\ y.type = 0
           d1 == IF ints THEN re_promote(x, IF o = "/" THEN 2 ELSE 1) ELSE x
           d2 == IF /\ o = "/" /\ d1.type = 1 /\ y.type < 2
                    /\ ~Divides(y.num, d1.num)
                 THEN re_promote(d1, 2) ELSE d1
           z == Rational(IF ints THEN 1 ELSE x.type, x.num, x.den)
<1>1. Whole(x) /\ Whole(y)
  BY StandardWhole
<1>2. x.type \in 0..2 /\ y.type \in 0..2 /\ o # "/" /\ ~Faulty(x) /\ ~Faulty(y)
  BY <1>1 DEF Whole, Faulty
<1>3. d2 = d1
  BY <1>2
<1>4. d1 = z
  <2>1. CASE ints
    <3>1. x.type = 0 /\ x.den = 1 /\ x = Rational(0, x.num, x.den)
      BY <1>1, <2>1, WholeParts DEF Whole
    <3>2. re_promote(x, 1) = [x EXCEPT !.type = 1]
      BY <3>1 DEF re_promote
    <3>3. re_promote(x, 1) = Rational(1, x.num, x.den)
      BY <3>1, <3>2 DEF Rational
    <3> QED
      BY <1>2, <2>1, <3>3
  <2>2. CASE ~ints
    BY <1>1, <2>2, WholeParts
  <2> QED
    BY <2>1, <2>2
<1>5. re_arith2(o, x, y) =
        IF ints /\ StaysFixnum(o, x.num, y.num)
        THEN Small(FixnumResult(o, x.num, y.num))
        ELSE re_canonicalize(BigArith(o, d2, y))
  <2> HIDE DEF z
  <2>1. CASE ints /\ StaysFixnum(o, x.num, y.num)
    BY <1>2, <2>1 DEF re_arith2
  <2>2. CASE ~(ints /\ StaysFixnum(o, x.num, y.num))
    BY <1>2, <2>2 DEF re_arith2
  <2> QED
    BY <2>1, <2>2
<1> HIDE DEF d1, d2
<1> QED
  BY <1>3, <1>4, <1>5 DEF Small

\* The sum, difference and product are standard and exact.
LEMMA SumExact ==
  ASSUME NEW x, Standard(x), NEW y, Standard(y)
  PROVE  /\ Standard(re_arith2("+", x, y))
         /\ Standard(re_arith2("-", x, y))
         /\ Standard(re_arith2("*", x, y))
         /\ Frac(re_arith2("+", x, y)) = Plus(Frac(x), Frac(y))
         /\ Frac(re_arith2("-", x, y)) = Minus(Frac(x), Frac(y))
         /\ Frac(re_arith2("*", x, y)) = Times(Frac(x), Frac(y))
<1> DEFINE n == x.num
           d == x.den
           m == y.num
           e == y.den
           Right(o, a, b) ==
             /\ Standard(re_arith2(o, x, y))
             /\ Frac(re_arith2(o, x, y)) = Lowest(a, b)
<1>1. Whole(x) /\ Whole(y)
  BY StandardWhole
<1>2. /\ n \in Int /\ d \in Int /\ d # 0 /\ m \in Int /\ e \in Int /\ e # 0
      /\ x.type \in 0..2
      /\ x.type < 2 => d = 1
      /\ y.type \in 0..2
      /\ y.type < 2 => e = 1
      /\ x.type = 0 => n \in Int32
      /\ y.type = 0 => m \in Int32
      /\ y = Rational(y.type, m, e)
  BY <1>1, WholeParts DEF Whole
<1>3. /\ Lowest(n * e + m * d, d * e) = Plus(Frac(x), Frac(y))
      /\ Lowest(n * e - m * d, d * e) = Minus(Frac(x), Frac(y))
      /\ Lowest(n * m, d * e) = Times(Frac(x), Frac(y))
  BY DEF Plus, Minus, Times, Frac
<1>4. /\ d * e \in Int /\ d * e # 0 /\ n * m \in Int
      /\ n * e + m * d \in Int /\ n * e - m * d \in Int
  <2> HIDE DEF n, d, m, e
  <2>1. d * e \in Int /\ d * e # 0
    BY <1>2, NonzeroProduct
  <2> QED
    BY <1>2, <2>1
<1>5. ASSUME x.type = 0, y.type = 0, NEW o \in {"+", "-", "*"}, StaysFixnum(o, n, m)
      PROVE  /\ Standard(re_arith2(o, x, y))
             /\ Frac(re_arith2(o, x, y)) = Lowest(FixnumResult(o, n, m), 1)
  <2>1. n \in Int32 /\ m \in Int32
    BY <1>2, <1>5
  <2> DEFINE v == FixnumResult(o, n, m)
  <2>2. v \in Int32
    BY <2>1, FixnumExact
  <2>3. re_arith2(o, x, y) = Rational(0, v, 1)
    BY <1>5, ArithSum
  <2> HIDE DEF v
  <2>4. v \in Int
    BY <2>2, HAssumption DEF Int32
  <2>5. Standard(Rational(0, v, 1))
    BY <2>2, <2>4 DEF Standard, Part, Canonical, Rational
  <2>6. Frac(Rational(0, v, 1)) = Lowest(v, 1)
    BY <2>4, LowestWhole DEF Frac, Rational
  <2> QED
    BY <2>3, <2>5, <2>6 DEF v
<1>6. ASSUME x.type = 0, y.type = 0
      PROVE  /\ StaysFixnum("+", n, m) => FixnumResult("+", n, m) = n + m
             /\ StaysFixnum("-", n, m) => FixnumResult("-", n, m) = n - m
             /\ StaysFixnum("*", n, m) => FixnumResult("*", n, m) = n * m
             /\ n * e + m * d = n + m /\ n * e - m * d = n - m /\ d * e = 1
  <2>1. n \in Int32 /\ m \in Int32
    BY <1>2, <1>6
  <2>2. d = 1 /\ e = 1
    BY <1>2, <1>6
  <2>3. n * e + m * d = n + m /\ n * e - m * d = n - m /\ d * e = 1
    BY <1>2, <2>2
  <2> QED
    BY <2>1, <2>3, FixnumExact
<1> DEFINE t == IF x.type = 0 /\ y.type = 0 THEN 1 ELSE x.type
           w == IF t = 2 \/ y.type = 2 THEN 2 ELSE 1
           Long(o) == ~(x.type = 0 /\ y.type = 0 /\ StaysFixnum(o, n, m))
           b(o) == BigArith(o, Rational(t, n, d), y)
<1>7. \A o \in {"+", "-", "*"} : Long(o) => re_arith2(o, x, y) = re_canonicalize(b(o))
  BY ArithSum
<1>8. /\ t \in 0..2 /\ w \in 1..2
      /\ t # 0 \/ y.type # 0
      /\ t < 2 => d = 1
      /\ w = 1 => d * e = 1
  BY <1>2
<1>9. /\ b("+") = Rational(w, n * e + m * d, d * e)
      /\ b("-") = Rational(w, n * e - m * d, d * e)
      /\ b("*") = Rational(w, n * m, d * e)
  <2> DEFINE z == Rational(t, n, d)
  <2>1. z \in Part /\ y \in Part /\ z.type = t /\ z.num = n /\ z.den = d
    BY <1>1, <1>2, <1>8 DEF Whole, Part, Rational
  <2> HIDE DEF z, t
  <2>2. y.type \in 0..2 /\ (y.type < 2 => y.den = 1) /\ z.type \in 0..2 /\ (z.type < 2 => z.den = 1)
        /\ (z.type # 0 \/ y.type # 0) /\ z.den # 0
    BY <1>2, <1>8, <2>1
  <2>3. /\ BigArith("+", z, y) = Rational(w, n * e + m * d, d * e)
        /\ BigArith("-", z, y) = Rational(w, n * e - m * d, d * e)
        /\ BigArith("*", z, y) = Rational(w, n * m, d * e)
    BY <2>1, <2>2, BigSum
  <2> QED
    BY <2>3 DEF z
<1> HIDE DEF n, d, m, e, t, w, b, Long
<1>10. /\ Long("+") => Right("+", n * e + m * d, d * e)
       /\ Long("-") => Right("-", n * e - m * d, d * e)
       /\ Long("*") => Right("*", n * m, d * e)
  <2>1. ASSUME NEW a \in Int PROVE
          /\ Standard(re_canonicalize(Rational(w, a, d * e)))
          /\ Frac(re_canonicalize(Rational(w, a, d * e))) = Lowest(a, d * e)
    BY <1>4, <1>8, CanonicalizeFacts
  <2> QED
    BY <1>4, <1>7, <1>9, <2>1
<1>11. /\ ~Long("+") => Right("+", n * e + m * d, d * e)
       /\ ~Long("-") => Right("-", n * e - m * d, d * e)
       /\ ~Long("*") => Right("*", n * m, d * e)
  BY <1>5, <1>6 DEF Long
<1> QED
  BY <1>3, <1>10, <1>11

\* The quotient of a division that leaves no remainder.
LEMMA QuotientFacts ==
  ASSUME NEW a \in Int, NEW b \in Int, b # 0, Divides(b, a)
  PROVE  /\ Quotient(a, b) \in Int /\ Quotient(a, b) * b = a
         /\ Divides(Abs(b), a)
         /\ (IF Sgn(b) = -1 THEN -1 ELSE 1) * Quotient(a, Abs(b)) = Quotient(a, b)
         /\ a \in Int32 /\ b \in Int32 /\ ~RemainderTraps(a, b) => Quotient(a, b) \in Int32
<1> DEFINE m == Abs(a)
           n == Abs(b)
           s == Sgn(a)
           t == Sgn(b)
           k == m \div n
<1>1. /\ m \in Nat /\ n \in Nat /\ n > 0 /\ s \in Int /\ t \in Int
      /\ s * m = a /\ t * n = b /\ t * b = n
  <2>1. /\ m \in Nat /\ n \in Nat /\ n # 0 /\ s \in Int /\ t \in Int
        /\ s * m = a /\ t * n = b /\ t * b = n
    BY SignFacts
  <2> HIDE DEF m, n, s, t
  <2> QED
    BY <2>1
<1>2. m % n = 0
  BY DEF Divides
<1>3. Quotient(a, b) = s * t * k
  BY DEF Quotient
<1>4. (s = 1 \/ s = -1 \/ (s = 0 /\ m = 0)) /\ (t = 1 \/ t = -1)
  BY DEF Sgn, Abs
<1>5. Abs(n) = n /\ Sgn(n) = 1 /\ (IF t = -1 THEN -1 ELSE 1) = t
  BY DEF Abs, Sgn
<1>6. Quotient(a, n) = s * 1 * k
  BY <1>5 DEF Quotient
<1>7. Divides(n, a)
  BY <1>1, <1>2, <1>5 DEF Divides
<1>8. m < H => a < H /\ -H < a
  BY HAssumption DEF Abs
<1>9. a \in Int32 => m <= H /\ (m = H => a = -H)
  BY HAssumption DEF Abs, Int32
<1>10. n = 1 => b = 1 \/ b = -1
  BY DEF Abs
<1> HIDE DEF m, n, s, t
<1>11. k \in Int /\ m = n * k
  BY <1>1, <1>2
<1> HIDE DEF k
<1>12. s * t * k \in Int /\ (s * t * k) * b = a
  <2>1. (s * t * k) * b = s * (k * (t * b))
    BY <1>1, <1>11
  <2>2. k * n = m
    BY <1>1, <1>11
  <2> QED
    BY <1>1, <1>11, <2>1, <2>2
<1>13. t * (s * 1 * k) = s * t * k
  BY <1>1, <1>11
<1>14. ASSUME a \in Int32, b \in Int32, ~RemainderTraps(a, b)
       PROVE  s * t * k \in Int32
  <2>1. 0 <= k /\ k <= m /\ (n >= 2 => 2 * k <= m)
    <3>1. \A x, y \in Nat : x * y >= 0
      OBVIOUS
    <3>2. k >= 0
      <4>1. k <= -1 => n * k <= -1
        <5>1. k <= -1 => n * (-k - 1) >= 0
          BY <1>1, <1>11, <3>1
        <5>2. n * (-k - 1) = -(n * k) - n /\ n * k \in Int
          BY <1>1, <1>11
        <5> QED
          BY <1>1, <5>1, <5>2
      <4> QED
        BY <1>1, <1>11, <4>1
    <3>3. (n - 1) * k >= 0 /\ (n >= 2 => (n - 2) * k >= 0)
      BY <1>1, <1>11, <3>1, <3>2
    <3>4. (n - 1) * k = n * k - k /\ (n - 2) * k = n * k - 2 * k
      BY <1>1, <1>11
    <3> QED
      BY <1>1, <1>11, <3>2, <3>3, <3>4
  <2>2. H \in Nat /\ H >= 2 /\ m <= H /\ (m = H => a = -H)
    BY <1>9, <1>14, HAssumption
  <2>3. CASE k < H
    <3>1. s * t * k = k \/ s * t * k = -k \/ s * t * k = 0
      <4>1. s * t = 1 \/ s * t = -1 \/ s * t = 0
        BY <1>4
      <4> QED
        BY <1>11, <4>1
    <3>2. -k \in Int /\ -H < -k /\ -k < H
      BY <1>11, <2>1, <2>2, <2>3
    <3> QED
      BY <1>11, <2>1, <2>2, <2>3, <3>1, <3>2 DEF Int32
  <2>4. CASE k >= H
    <3>1. k = H /\ m = H /\ n = 1 /\ a = -H
      <4>1. k = H /\ m = H
        BY <1>1, <1>11, <2>1, <2>2, <2>4
      <4>2. n < 2
        BY <1>1, <2>1, <2>2, <4>1
      <4> QED
        BY <1>1, <2>2, <4>1, <4>2
    <3>2. b = 1
      BY <1>10, <1>14, <3>1 DEF RemainderTraps
    <3>3. s * t * k = a
      <4>1. s * t * k \in Int
        BY <1>12
      <4> QED
        BY <1>12, <3>2, <4>1
    <3> QED
      BY <1>14, <3>3
  <2> QED
    BY <1>1, <1>11, <2>2, <2>3, <2>4
<1> QED
  BY <1>3, <1>5, <1>6, <1>7, <1>12, <1>13, <1>14 DEF n, t

\* A fraction with a denominator above 1 is not 0.
LEMMA FractionNotZero ==
  ASSUME NEW x, Whole(x), x.type = 2
  PROVE  x.num # 0
<1> SUFFICES ASSUME x.num = 0 PROVE FALSE
  OBVIOUS
<1>1. x.den \in Int /\ x.den > 1 /\ Frac(x) \in Reduced /\ Frac(x)[1] = 0 /\ Frac(x)[2] = x.den
  BY WholeParts DEF Whole, Frac
<1>2. PICK u, v \in Int : u * 0 + v * x.den = 1
  BY <1>1 DEF Reduced, Coprime
<1>3. x.den * v = 1 /\ x.den \in Nat
  BY <1>1, <1>2
<1>4. x.den = 1
  BY <1>3, UnitFactor
<1> QED
  BY <1>1, <1>4

\* What _re_arith2 makes of a division, case by case.
LEMMA ArithQuotient ==
  ASSUME NEW x, Whole(x), NEW y, Standard(y)
  PROVE  re_arith2("/", x, y) =
           IF x.type = 0 /\ y.type = 0
           THEN IF RemainderTraps(x.num, y.num) THEN Trap
                ELSE IF Divides(y.num, x.num) THEN Rational(0, Quotient(x.num, y.num), 1)
                ELSE re_canonicalize(Rational(2, x.num, y.num))
           ELSE IF x.type < 2 /\ y.type < 2
           THEN IF y.num # 0 /\ Divides(y.num, x.num)
                THEN re_canonicalize(Rational(1, Quotient(x.num, y.num), 1))
                ELSE IF x.type = 1 THEN re_canonicalize(Rational(2, x.num, y.num))
                ELSE Undefined
           ELSE re_canonicalize(Rational(2, x.num * y.den, x.den * y.num))
<1> DEFINE n == x.num
           d == x.den
           m == y.num
           e == y.den
           ints == x.type = 0 /\ y.type = 0
           d1 == IF ints THEN re_promote(x, 2) ELSE x
           d2 == IF d1.type = 1 /\ y.type < 2 /\ ~Divides(m, d1.num)
                 THEN re_promote(d1, 2) ELSE d1
           s == IF Sgn(m) = -1 THEN -1 ELSE 1
           u == Abs(m)
           B == BigArith("/", d2, y)
<1>1. Whole(y)
  BY StandardWhole
<1>2. /\ n \in Int /\ d \in Int /\ d # 0 /\ m \in Int /\ e \in Int /\ e # 0
      /\ x.type \in 0..2
      /\ x.type < 2 => d = 1
      /\ y.type \in 0..2
      /\ y.type < 2 => e = 1
      /\ x.type = 1 => n # 0
      /\ y.type = 1 => m # 0
      /\ y.type = 2 => m # 0
  BY <1>1, WholeParts, FractionNotZero DEF Whole
<1>3. x = Rational(x.type, n, d) /\ y = Rational(y.type, m, e)
  BY <1>1, WholeParts
<1>4. ~Faulty(x) /\ ~Faulty(y)
  BY <1>2 DEF Faulty
<1>5. re_arith2("/", x, y) =
        IF ints /\ RemainderTraps(n, m) THEN Trap
        ELSE IF ints /\ Divides(m, n) THEN Small(Quotient(n, m))
        ELSE re_canonicalize(B)
  <2> DEFINE c1 == IF ints THEN re_promote(x, IF "/" = "/" THEN 2 ELSE 1) ELSE x
             c2 == IF "/" = "/" /\ c1.type = 1 /\ y.type < 2 /\ ~Divides(m, c1.num)
                   THEN re_promote(c1, 2) ELSE c1
  <2>1. re_arith2("/", x, y) =
          IF ints /\ RemainderTraps(n, m) THEN Trap
          ELSE IF ints /\ StaysFixnum("/", n, m) THEN Small(FixnumResult("/", n, m))
          ELSE re_canonicalize(BigArith("/", c2, y))
    BY <1>4 DEF re_arith2
  <2>2. c2 = d2
    OBVIOUS
  <2>3. StaysFixnum("/", n, m) <=> Divides(m, n)
    BY DEF StaysFixnum
  <2>4. FixnumResult("/", n, m) = Quotient(n, m)
    BY DEF FixnumResult
  <2> HIDE DEF c1, c2, d1, d2
  <2> QED
    BY <2>1, <2>2, <2>3, <2>4
<1>6. u \in Nat /\ s * u = m /\ si_to_ui(m) = u /\ s \in Int /\ (m # 0 => u # 0)
  <2>1. u \in Nat /\ s * u = m /\ si_to_ui(m) = u
    BY <1>2, MagnitudeFacts
  <2>2. u = 0 <=> m = 0
    BY <1>2, SignFacts
  <2>3. s \in Int
    OBVIOUS
  <2> QED
    BY <2>1, <2>2, <2>3
<1>7. \A t \in 0..2 : Rational(t, n, d).type = t /\ Rational(t, n, d).num = n
                      /\ Rational(t, n, d).den = d
  BY DEF Rational
<1>8. ints => d1 = Rational(2, n, 1) /\ d2 = d1
  <2> SUFFICES ASSUME ints PROVE d1 = Rational(2, n, 1) /\ d2 = d1
    OBVIOUS
  <2>1. d = 1 /\ x = Rational(0, n, 1)
    BY <1>2, <1>3
  <2>2. re_promote(x, 2) = Rational(2, n, 1)
    BY <2>1 DEF re_promote, Rational
  <2>3. d1 = Rational(2, n, 1)
    BY <2>2
  <2> HIDE DEF d1
  <2>4. d1.type = 2
    BY <2>3 DEF Rational
  <2> QED
    BY <2>3, <2>4
<1>9. ~ints /\ x.type = 1 /\ y.type < 2 /\ ~Divides(m, n) => d2 = Rational(2, n, 1)
  <2> SUFFICES ASSUME ~ints, x.type = 1, y.type < 2, ~Divides(m, n) PROVE d2 = Rational(2, n, 1)
    OBVIOUS
  <2>1. d = 1 /\ x = Rational(1, n, 1)
    BY <1>2, <1>3
  <2>2. re_promote(x, 2) = Rational(2, n, 1)
    BY <2>1 DEF re_promote, Rational
  <2> QED
    BY <2>2
<1>10. ~ints /\ ~(x.type = 1 /\ y.type < 2 /\ ~Divides(m, n)) => d2 = x
  OBVIOUS
<1> HIDE DEF d1, d2
\* an int is divided by an int that does not divide it
<1>11. ASSUME ints PROVE B = Rational(2, n, m)
  <2>1. d2 = Rational(2, n, 1)
    BY <1>8, <1>11
  <2>2. d2.type = 2 /\ d2.num = n /\ d2.den = 1
    BY <2>1 DEF Rational
  <2>3. B = MP_ARITH_RATIONAL_INTEGER("/", d2, u, Sgn(m))
    BY <1>6, <1>11, <2>2 DEF BigArith
  <2> HIDE DEF u, B
  <2>4. B = Rational(2, n, s * (1 * u))
    BY <2>2, <2>3 DEF MP_ARITH_RATIONAL_INTEGER, s
  <2>5. s * (1 * u) = m
    BY <1>6
  <2> QED
    BY <2>4, <2>5
\* a big number by a whole number that does not divide it
<1>12. ASSUME ~ints, x.type = 1, y.type < 2, ~Divides(m, n)
       PROVE  B = Rational(2, n, m)
  <2>1. d2 = Rational(2, n, 1)
    BY <1>9, <1>12
  <2>2. d2.type = 2 /\ d2.num = n /\ d2.den = 1
    BY <2>1 DEF Rational
  <2>3. CASE y.type = 0
    <3>1. B = MP_ARITH_RATIONAL_INTEGER("/", d2, u, Sgn(m))
      BY <1>6, <2>2, <2>3 DEF BigArith
    <3> HIDE DEF u, B
    <3>2. B = Rational(2, n, s * (1 * u))
      BY <2>2, <3>1 DEF MP_ARITH_RATIONAL_INTEGER, s
    <3>3. s * (1 * u) = m
      BY <1>6
    <3> QED
      BY <3>2, <3>3
  <2>4. CASE y.type = 1
    <3>1. B = MP_ARITH_RATIONAL_INTEGER("/", d2, m, 1)
      BY <2>2, <2>4 DEF BigArith
    <3> HIDE DEF B
    <3>2. B = Rational(2, n, 1 * (1 * m))
      BY <2>2, <3>1 DEF MP_ARITH_RATIONAL_INTEGER
    <3>3. 1 * (1 * m) = m
      BY <1>2
    <3> QED
      BY <3>2, <3>3
  <2> QED
    BY <1>2, <1>12, <2>3, <2>4
\* a whole number by one that divides it, or an int by a big number
<1>13. ASSUME ~ints, x.type < 2, y.type < 2, x.type = 1 => Divides(m, n)
       PROVE  B = IF m # 0 /\ Divides(m, n) THEN Rational(1, Quotient(n, m), 1) ELSE Undefined
  <2>1. d2 = x
    BY <1>2, <1>10, <1>13
  <2>2. m # 0
    BY <1>2, <1>13 DEF Divides
  <2>3. Divides(m, n) =>
          /\ Divides(u, n) /\ s * Quotient(n, u) = Quotient(n, m)
          /\ Quotient(n, m) \in Int
    BY <1>2, <2>2, QuotientFacts
  <2>4. ~Faulty(Big(Quotient(n, u))) /\ Faulty(Undefined) /\ ~Faulty(Big(Quotient(n, m)))
    BY DEF Faulty, Big, Undefined, Rational
  <2>5. CASE y.type = 0
    <3>1. x.type = 1
      BY <1>2, <1>13, <2>5
    <3>2. B = MP_ARITH_INTEGER("/", n, u, Sgn(m))
      BY <1>6, <2>1, <2>5, <3>1 DEF BigArith
    <3>3. divexact(n, u) = Big(Quotient(n, u))
      BY <1>6, <1>13, <2>2, <2>3, <3>1 DEF divexact
    <3> HIDE DEF u, B
    <3>4. B = Big(s * Big(Quotient(n, u)).num)
      BY <2>4, <3>2, <3>3 DEF MP_ARITH_INTEGER, s
    <3>5. Big(Quotient(n, u)).num = Quotient(n, u)
      BY DEF Big, Rational
    <3> HIDE DEF s
    <3>6. B = Big(Quotient(n, m))
      BY <1>13, <2>3, <3>1, <3>4, <3>5
    <3> QED
      BY <1>13, <2>2, <3>1, <3>6 DEF Big
  <2>6. CASE y.type = 1
    <3>1. B = MP_ARITH_INTEGER("/", n, m, 1)
      BY <1>13, <2>1, <2>6 DEF BigArith
    <3>2. CASE Divides(m, n)
      <4>1. divexact(n, m) = Big(Quotient(n, m))
        BY <2>2, <3>2 DEF divexact
      <4> HIDE DEF B
      <4>2. B = Big(1 * Big(Quotient(n, m)).num)
        BY <2>4, <3>1, <4>1 DEF MP_ARITH_INTEGER
      <4>3. Big(Quotient(n, m)).num = Quotient(n, m)
        BY DEF Big, Rational
      <4>4. 1 * Quotient(n, m) = Quotient(n, m)
        BY <2>3, <3>2
      <4> QED
        BY <2>2, <3>2, <4>2, <4>3, <4>4 DEF Big
    <3>3. CASE ~Divides(m, n)
      <4>1. divexact(n, m) = Undefined
        BY <3>3 DEF divexact
      <4> HIDE DEF B
      <4>2. B = Undefined
        BY <2>4, <3>1, <4>1 DEF MP_ARITH_INTEGER
      <4> QED
        BY <3>3, <4>2
    <3> QED
      BY <3>2, <3>3
  <2> QED
    BY <1>2, <1>13, <2>5, <2>6
\* a fraction among the operands
<1>14. ASSUME ~(x.type < 2 /\ y.type < 2)
       PROVE  B = Rational(2, n * e, d * m)
  <2>1. d2 = x
    BY <1>2, <1>10, <1>14
  <2>2. CASE y.type = 2
    <3>1. B = MP_ARITH_RATIONAL("/", re_promote(x, 2), y)
      BY <2>1, <2>2 DEF BigArith
    <3>2. re_promote(x, 2) = Rational(2, n, d)
      <4>1. CASE x.type = 2
        BY <1>3, <4>1 DEF re_promote
      <4>2. CASE x.type < 2
        BY <1>2, <1>3, <4>2 DEF re_promote, Rational
      <4> QED
        BY <1>2, <4>1, <4>2
    <3> HIDE DEF B
    <3>3. B = Rational(2, n * e, d * m)
      BY <1>7, <3>1, <3>2 DEF MP_ARITH_RATIONAL
    <3> QED
      BY <3>3
  <2>3. CASE y.type = 0
    <3>1. x.type = 2 /\ e = 1
      BY <1>2, <1>14, <2>3
    <3>2. B = MP_ARITH_RATIONAL_INTEGER("/", x, u, Sgn(m))
      BY <1>6, <2>1, <2>3, <3>1 DEF BigArith
    <3> HIDE DEF u, B
    <3>3. B = Rational(2, n, s * (d * u))
      BY <3>2 DEF MP_ARITH_RATIONAL_INTEGER, s
    <3>4. s * (d * u) = d * (s * u) /\ n * 1 = n
      BY <1>2, <1>6
    <3> QED
      BY <1>6, <3>1, <3>3, <3>4
  <2>4. CASE y.type = 1
    <3>1. x.type = 2 /\ e = 1
      BY <1>2, <1>14, <2>4
    <3>2. B = MP_ARITH_RATIONAL_INTEGER("/", x, m, 1)
      BY <2>1, <2>4, <3>1 DEF BigArith
    <3> HIDE DEF B
    <3>3. B = Rational(2, n, 1 * (d * m))
      BY <3>2 DEF MP_ARITH_RATIONAL_INTEGER
    <3>4. 1 * (d * m) = d * m /\ n * 1 = n
      BY <1>2
    <3> QED
      BY <3>1, <3>3, <3>4
  <2> QED
    BY <1>2, <2>2, <2>3, <2>4
<1>15. re_canonicalize(Undefined) = Undefined
  BY DEF re_canonicalize, Undefined, Faulty, Rational
<1>16. Small(Quotient(n, m)) = Rational(0, Quotient(n, m), 1)
  BY DEF Small
<1> HIDE DEF B
<1>17. CASE ints
  BY <1>5, <1>11, <1>16, <1>17
<1>18. CASE ~ints /\ x.type < 2 /\ y.type < 2
  <2>1. CASE m # 0 /\ Divides(m, n)
    BY <1>5, <1>13, <1>18, <2>1
  <2>2. CASE ~(m # 0 /\ Divides(m, n)) /\ x.type = 1
    <3>1. ~Divides(m, n)
      BY <1>2, <2>2 DEF Divides
    <3> QED
      BY <1>5, <1>12, <1>18, <2>2, <3>1
  <2>3. CASE ~(m # 0 /\ Divides(m, n)) /\ x.type # 1
    <3>1. B = Undefined
      BY <1>13, <1>18, <2>3
    <3> QED
      BY <1>5, <1>15, <1>18, <2>3, <3>1
  <2> QED
    BY <2>1, <2>2, <2>3
<1>19. CASE ~(x.type < 2 /\ y.type < 2)
  <2>1. ~ints
    BY <1>19
  <2> QED
    BY <1>5, <1>14, <1>19, <2>1
<1> QED
  BY <1>17, <1>18, <1>19

\* A quotient is standard and exact, or undefined, or the process is stopped:
\* by a division by 0 and by -H / -1 only.
LEMMA QuotientExact ==
  ASSUME NEW x, Whole(x), NEW y, Standard(y)
  PROVE  LET r == re_arith2("/", x, y) IN
         /\ y.num = 0 => r = Trap
         /\ y.num # 0 => \/ r = Undefined
                         \/ Standard(r) /\ Frac(r) = Over(Frac(x), Frac(y))
                         \/ r = Trap /\ x = Small(-H) /\ y = Small(-1)
<1> DEFINE n == x.num
           d == x.den
           m == y.num
           e == y.den
           r == re_arith2("/", x, y)
           Right == Standard(r) /\ Frac(r) = Over(Frac(x), Frac(y))
<1>1. Whole(y)
  BY StandardWhole
<1>2. /\ n \in Int /\ d \in Int /\ d # 0 /\ m \in Int /\ e \in Int /\ e # 0
      /\ x.type \in 0..2
      /\ x.type < 2 => d = 1
      /\ y.type \in 0..2
      /\ y.type < 2 => e = 1
      /\ x.type = 0 => n \in Int32
      /\ y.type = 0 => m \in Int32
      /\ x.type = 1 => n # 0
      /\ y.type = 1 => m # 0
      /\ y.type = 2 => m # 0
  BY <1>1, WholeParts, FractionNotZero DEF Whole
<1>3. x = Rational(x.type, n, d) /\ y = Rational(y.type, m, e)
  BY <1>1, WholeParts
<1>4. r = IF x.type = 0 /\ y.type = 0
           THEN IF RemainderTraps(n, m) THEN Trap
                ELSE IF Divides(m, n) THEN Rational(0, Quotient(n, m), 1)
                ELSE re_canonicalize(Rational(2, n, m))
           ELSE IF x.type < 2 /\ y.type < 2
           THEN IF m # 0 /\ Divides(m, n)
                THEN re_canonicalize(Rational(1, Quotient(n, m), 1))
                ELSE IF x.type = 1 THEN re_canonicalize(Rational(2, n, m))
                ELSE Undefined
           ELSE re_canonicalize(Rational(2, n * e, d * m))
  BY ArithQuotient
<1>5. Over(Frac(x), Frac(y)) = Lowest(n * e, d * m)
  BY DEF Over, Frac
<1> HIDE DEF r
<1>6. \A a : re_canonicalize(Rational(2, a, 0)) = Trap
  BY DEF re_canonicalize, Rational, Faulty
<1>7. CASE m = 0
  <2>1. y.type = 0 /\ d * m = 0
    BY <1>2, <1>7
  <2>2. RemainderTraps(n, m)
    BY <1>7 DEF RemainderTraps
  <2>3. r = Trap
    BY <1>2, <1>4, <1>6, <1>7, <2>1, <2>2
  <2> QED
    BY <1>7, <2>3 DEF r
<1>8. CASE m # 0
  <2>1. /\ n * e \in Int /\ d * m \in Int /\ d * m # 0
        /\ x.type < 2 /\ y.type < 2 => n * e = n /\ d * m = m
    <3>1. x.type < 2 /\ y.type < 2 => n * e = n /\ d * m = m
      BY <1>2
    <3> QED
      BY <1>2, <1>8, <3>1, NonzeroProduct
  <2>2. ASSUME r = re_canonicalize(Rational(2, n * e, d * m))
        PROVE  Right
    BY <1>5, <2>1, <2>2, CanonicalizeFacts
  <2>3. ASSUME x.type < 2, y.type < 2, Divides(m, n)
        PROVE  /\ Quotient(n, m) \in Int
               /\ Lowest(Quotient(n, m), 1) = Lowest(n * e, d * m)
               /\ x.type = 0 /\ y.type = 0 /\ ~RemainderTraps(n, m) => Quotient(n, m) \in Int32
    <3> DEFINE q == Quotient(n, m)
    <3>1. /\ q \in Int /\ q * m = n
          /\ x.type = 0 /\ y.type = 0 /\ ~RemainderTraps(n, m) => q \in Int32
      BY <1>2, <1>8, <2>3, QuotientFacts
    <3> HIDE DEF q
    <3>2. q * (d * m) = (n * e) * 1
      BY <1>2, <2>1, <2>3, <3>1
    <3>3. Rat(Lowest(q, 1), q, 1) /\ Rat(Lowest(n * e, d * m), n * e, d * m)
      BY <2>1, <3>1, LowestRat
    <3>4. Lowest(q, 1) = Lowest(n * e, d * m)
      BY <2>1, <3>1, <3>2, <3>3, RatUnique
    <3> QED
      BY <3>1, <3>4 DEF q
  <2>4. CASE x.type = 0 /\ y.type = 0
    <3>1. CASE RemainderTraps(n, m)
      <4>1. n = -H /\ m = -1 /\ d = 1 /\ e = 1
        BY <1>2, <1>8, <2>4, <3>1 DEF RemainderTraps
      <4>2. x = Small(-H) /\ y = Small(-1)
        BY <1>3, <2>4, <4>1 DEF Small
      <4> QED
        BY <1>4, <1>8, <2>4, <3>1, <4>2 DEF r
    <3>2. CASE ~RemainderTraps(n, m) /\ Divides(m, n)
      <4> DEFINE q == Quotient(n, m)
      <4>1. q \in Int /\ q \in Int32 /\ Lowest(q, 1) = Lowest(n * e, d * m)
        BY <2>3, <2>4, <3>2
      <4>2. r = Rational(0, q, 1)
        BY <1>4, <2>4, <3>2
      <4> HIDE DEF q
      <4>3. Standard(r)
        BY <4>1, <4>2 DEF Standard, Part, Canonical, Rational
      <4>4. Frac(r) = Lowest(q, 1)
        BY <4>1, <4>2, LowestWhole DEF Frac, Rational
      <4> QED
        BY <1>5, <1>8, <4>1, <4>3, <4>4 DEF r
    <3>3. CASE ~RemainderTraps(n, m) /\ ~Divides(m, n)
      BY <1>4, <1>8, <2>1, <2>2, <2>4, <3>3 DEF r
    <3> QED
      BY <3>1, <3>2, <3>3
  <2>5. CASE ~(x.type = 0 /\ y.type = 0) /\ x.type < 2 /\ y.type < 2
    <3>1. CASE Divides(m, n)
      <4> DEFINE q == Quotient(n, m)
      <4>1. q \in Int /\ Lowest(q, 1) = Lowest(n * e, d * m)
        BY <2>3, <2>5, <3>1
      <4>2. r = re_canonicalize(Rational(1, q, 1))
        BY <1>4, <1>8, <2>5, <3>1
      <4> HIDE DEF q
      <4>3. Standard(r) /\ Frac(r) = Lowest(q, 1)
        BY <4>1, <4>2, CanonicalizeFacts
      <4> QED
        BY <1>5, <1>8, <4>1, <4>3 DEF r
    <3>2. CASE ~Divides(m, n) /\ x.type = 1
      BY <1>4, <1>8, <2>1, <2>2, <2>5, <3>2 DEF r
    <3>3. CASE ~Divides(m, n) /\ x.type # 1
      BY <1>4, <1>8, <2>5, <3>3 DEF r
    <3> QED
      BY <3>1, <3>2, <3>3
  <2>6. CASE ~(x.type < 2 /\ y.type < 2)
    BY <1>2, <1>4, <1>8, <2>2, <2>6 DEF r
  <2> QED
    BY <2>4, <2>5, <2>6
<1> QED
  BY <1>7, <1>8

-----------------------------------------------------------------------------

\* Opposite of a fraction.
Opposite(p) == <<-p[1], p[2]>>

\* re_neg leaves a number that may be divided: with the opposite value, unless
\* it is the least int.
LEMMA NegFacts ==
  ASSUME NEW x, Standard(x)
  PROVE  /\ Whole(re_neg(x))
         /\ x # Small(-H) => Frac(re_neg(x)) = Opposite(Frac(x))
         /\ x = Small(0) => re_neg(x) = Small(0)
<1> DEFINE n == x.num
           d == x.den
<1>1. Whole(x) /\ (x.type = 1 => n \notin Int32)
  BY StandardWhole
<1>2. /\ n \in Int /\ d \in Int /\ d > 0 /\ x = Rational(x.type, n, d) /\ Frac(x) \in Reduced
      /\ x.type \in 0..2
      /\ x.type < 2 => d = 1
      /\ x.type = 0 => n \in Int32
      /\ x.type = 1 => n # 0
      /\ x.type = 2 => d > 1
  BY <1>1, WholeParts DEF Whole
<1>3. \A v \in Int : Wrap(v) \in Int32 /\ (v \in Int32 => Wrap(v) = v)
  BY WrapFacts
<1>4. Frac(x) = <<n, d>>
  BY DEF Frac
<1>5. CASE x.type = 0
  <2> DEFINE w == Wrap(0 - n)
  <2>1. re_neg(x) = Small(w)
    BY <1>5 DEF re_neg
  <2>2. w \in Int32 /\ (n # -H => w = -n) /\ n \in Int32
    <3>1. n \in Int32
      BY <1>2, <1>5
    <3>2. n # -H => 0 - n \in Int32 /\ 0 - n = -n
      BY <1>2, <3>1, HAssumption DEF Int32
    <3> QED
      BY <1>2, <1>3, <3>1, <3>2
  <2> HIDE DEF w
  <2>3. w \in Int
    BY <2>2, HAssumption DEF Int32
  <2>4. <<w, 1>> \in Reduced
    BY <2>3, LowestWhole, LowestRat DEF Rat
  <2>5. Whole(Small(w))
    BY <2>2, <2>3, <2>4 DEF Whole, Small, Rational, Part, Frac
  <2>6. x # Small(-H) => n # -H
    BY <1>2, <1>5 DEF Small
  <2>7. n # -H => Frac(Small(w)) = Opposite(Frac(x))
    BY <1>2, <1>4, <1>5, <2>2 DEF Frac, Small, Rational, Opposite
  <2>8. x = Small(0) => n = 0
    BY DEF Small, Rational
  <2>9. n = 0 => w = 0
    BY <2>2, HAssumption
  <2> QED
    BY <2>1, <2>5, <2>6, <2>7, <2>8, <2>9
<1>6. CASE x.type # 0
  <2>1. re_neg(x) = [x EXCEPT !.num = -n]
    BY <1>2, <1>6 DEF re_neg
  <2>2. re_neg(x) = Rational(x.type, -n, d)
    BY <1>2, <2>1 DEF Rational
  <2>3. PICK u, v \in Int : u * n + v * d = 1
    BY <1>2, <1>4 DEF Reduced, Coprime
  <2>4. (-u) * (-n) + v * d = 1 /\ -u \in Int /\ -n \in Int
    <3>1. n \in Int /\ d \in Int
      BY <1>2
    <3> HIDE DEF n, d
    <3>2. (-u) * (-n) = u * n
      BY <3>1
    <3> QED
      BY <2>3, <3>1, <3>2
  <2>5. <<-n, d>> \in Reduced
    <3> DEFINE k == -n
    <3>1. k \in Int /\ d \in Nat \ {0}
      BY <1>2
    <3>1a. Coprime(k, d)
      BY <2>4 DEF Coprime
    <3> HIDE DEF k, d
    <3>2. <<k, d>> \in Reduced
      BY <3>1, <3>1a DEF Reduced
    <3> QED
      BY <3>2 DEF k, d
  <2>6. Whole(Rational(x.type, -n, d))
    <3> DEFINE k == -n
               z == Rational(x.type, k, d)
    <3>1. k \in Int /\ (x.type = 1 => k # 0) /\ <<k, d>> \in Reduced
      BY <1>2, <2>5
    <3> HIDE DEF k
    <3>2. z.type = x.type /\ z.num = k /\ z.den = d /\ z \in Part
      BY <1>2, <3>1 DEF Rational, Part
    <3>3. Frac(z) = <<k, d>>
      BY <3>2 DEF Frac
    <3> HIDE DEF z
    <3>4. Whole(z)
      BY <1>2, <1>6, <3>1, <3>2, <3>3 DEF Whole
    <3> QED
      BY <3>4 DEF z, k
  <2>7. Frac(Rational(x.type, -n, d)) = Opposite(Frac(x))
    BY <1>4 DEF Frac, Rational, Opposite
  <2>8. x # Small(0)
    BY <1>6 DEF Small, Rational
  <2> QED
    BY <2>2, <2>6, <2>7, <2>8
<1> QED
  BY <1>5, <1>6

-----------------------------------------------------------------------------

\* A number that a computation may leave, whatever went wrong.
Fine(x) == Standard(x) \/ x = Undefined \/ x = Trap

\* What is undefined or has stopped the process stays so.
LEMMA FaultyFacts ==
  ASSUME NEW o, NEW x, NEW y
  PROVE  /\ Undefined \in Part /\ Trap \in Part /\ Undefined # Trap
         /\ re_arith2(o, Undefined, y) = Undefined /\ re_arith2(o, Trap, y) = Trap
         /\ Standard(x) => /\ x \in Part /\ x # Undefined /\ x # Trap
                           /\ re_arith2(o, x, Undefined) = Undefined
                           /\ re_arith2(o, x, Trap) = Trap
         /\ Standard(Small(0)) /\ Standard(Small(1))
         /\ Fine(x) => x \in Part
<1>1. Faulty(Undefined) /\ Faulty(Trap)
  BY DEF Faulty, Undefined, Trap, Rational
<1>2. Undefined \in Part /\ Trap \in Part /\ Undefined # Trap
  BY DEF Undefined, Trap, Rational, Part
<1>3. re_arith2(o, Undefined, y) = Undefined /\ re_arith2(o, Trap, y) = Trap
  BY <1>1 DEF re_arith2
<1>4. ASSUME Standard(x)
      PROVE  /\ x \in Part /\ x # Undefined /\ x # Trap
             /\ re_arith2(o, x, Undefined) = Undefined
             /\ re_arith2(o, x, Trap) = Trap
  <2>1. x \in Part /\ x.type \in 0..2
    BY <1>4, StandardWhole DEF Whole
  <2>2. ~Faulty(x)
    BY <2>1 DEF Faulty
  <2>3. x # Undefined /\ x # Trap
    BY <1>1, <2>2
  <2> QED
    BY <1>1, <2>1, <2>2, <2>3 DEF re_arith2
<1>5. Standard(Small(0)) /\ Standard(Small(1))
  BY HAssumption DEF Standard, Small, Rational, Part, Canonical, Int32
<1> QED
  BY <1>2, <1>3, <1>4, <1>5 DEF Fine

\* An operation + - * on what may be faulty.
LEMMA SumFine ==
  ASSUME NEW x, Fine(x), NEW y, Fine(y), NEW o \in {"+", "-", "*"}
  PROVE  /\ Fine(re_arith2(o, x, y))
         /\ re_arith2(o, x, y) = Trap => x = Trap \/ y = Trap
         /\ x = Undefined => re_arith2(o, x, y) = Undefined
         /\ y = Undefined /\ x # Trap => re_arith2(o, x, y) = Undefined
         /\ Standard(re_arith2(o, x, y)) => Standard(x) /\ Standard(y)
<1>1. CASE ~Standard(x)
  <2>1. x = Undefined \/ x = Trap
    BY <1>1 DEF Fine
  <2>2. re_arith2(o, x, y) = x
    BY <2>1, FaultyFacts
  <2> QED
    BY <1>1, <2>1, <2>2, FaultyFacts DEF Fine
<1>2. CASE Standard(x) /\ ~Standard(y)
  <2>1. y = Undefined \/ y = Trap
    BY <1>2 DEF Fine
  <2>2. re_arith2(o, x, y) = y
    BY <1>2, <2>1, FaultyFacts
  <2> QED
    BY <1>2, <2>1, <2>2, FaultyFacts DEF Fine
<1>3. CASE Standard(x) /\ Standard(y)
  <2>1. Standard(re_arith2(o, x, y))
    BY <1>3, SumExact
  <2> QED
    BY <1>3, <2>1, FaultyFacts DEF Fine
<1> QED
  BY <1>1, <1>2, <1>3

\* A complex number in its only representation.
StandardNumber(z) == z \in NumberObject /\ Standard(z.re) /\ Standard(z.im)

\* The square of a standard number.
LEMMA SquareFacts ==
  ASSUME NEW x, Standard(x)
  PROVE  LET s == re_arith2("*", x, x) IN
         /\ Standard(s) /\ Frac(s) = Times(Frac(x), Frac(x))
         /\ s.num >= 0 /\ (s.num = 0 <=> x = Small(0))
<1> DEFINE s == re_arith2("*", x, x)
           n == x.num
           d == x.den
<1>1. Standard(s) /\ Frac(s) = Times(Frac(x), Frac(x))
  BY SumExact
<1>2. Whole(x) /\ Whole(s)
  BY <1>1, StandardWhole
<1>3. n \in Int /\ d \in Int /\ Rat(Frac(x), n, d)
  BY <1>2, WholeParts
<1>4. s.num \in Int /\ s.den \in Int /\ s.den > 0
  BY <1>2, WholeParts
<1>5. Rat(Frac(s), n * n, d * d)
  BY <1>1, <1>3, RatProduct
<1>6. s.num * (d * d) = (n * n) * s.den /\ d * d # 0
  BY <1>5 DEF Rat, Frac
<1>7. x = Small(0) <=> n = 0
  <2>1. n = 0 => x.type = 0
    BY <1>2, FractionNotZero DEF Whole
  <2>2. x.type = 0 => d = 1
    BY <1>2 DEF Whole
  <2>3. x = Rational(x.type, n, d)
    BY <1>2, WholeParts
  <2> QED
    BY <2>1, <2>2, <2>3 DEF Small, Rational
<1> HIDE DEF n, d
<1>8. s.num = 0 <=> n = 0
  <2>1. /\ d * d \in Int /\ n * n \in Int
        /\ (s.num * (d * d) = 0 <=> s.num = 0)
        /\ ((n * n) * s.den = 0 <=> n = 0)
    BY <1>3, <1>4, <1>6, NonzeroProduct
  <2> QED
    BY <1>6, <2>1
<1>9. s.num >= 0
  <2>1. \A a, b \in Nat : a * b >= 0
    OBVIOUS
  <2>2. n * n >= 0 /\ d * d >= 0
    <3>1. \A a \in Int : a * a >= 0
      <4> SUFFICES ASSUME NEW a \in Int PROVE a * a >= 0
        OBVIOUS
      <4>1. CASE a >= 0
        BY <2>1, <4>1
      <4>2. CASE a < 0
        <5>1. (-a) * (-a) >= 0
          BY <2>1, <4>2
        <5>2. (-a) * (-a) = a * a
          OBVIOUS
        <5> QED
          BY <5>1, <5>2
      <4> QED
        BY <4>1, <4>2
    <3> QED
      BY <1>3, <3>1
  <2> DEFINE v == s.num
             w == s.den
             a == n * n
             b == d * d
  <2>3. v \in Int /\ w \in Int /\ w > 0 /\ a \in Int /\ b \in Int /\ a >= 0 /\ b > 0 /\ v * b = a * w
    BY <1>3, <1>4, <1>6, <2>2
  <2> HIDE DEF s, v, w, a, b
  <2>4. a * w >= 0
    BY <2>1, <2>3
  <2>5. v < 0 => v * b < 0
    <3>1. v < 0 => (-v - 1) * b >= 0
      BY <2>1, <2>3
    <3>2. (-v - 1) * b = -(v * b) - b /\ v * b \in Int
      BY <2>3
    <3> QED
      BY <2>3, <3>1, <3>2
  <2>6. v >= 0
    BY <2>3, <2>4, <2>5
  <2> QED
    BY <2>6 DEF v, s
<1> QED
  BY <1>1, <1>7, <1>8, <1>9

\* What an inverse divides by: the square of the magnitude.
LEMMA NormFacts ==
  ASSUME NEW z, StandardNumber(z)
  PROVE  LET r == re_arith2("+", re_arith2("*", z.re, z.re), re_arith2("*", z.im, z.im)) IN
         /\ Standard(r) /\ Frac(r) = Norm(Value(z))
         /\ r.num >= 0 /\ (r.num = 0 <=> z = new_number(0))
<1> DEFINE s == re_arith2("*", z.re, z.re)
           t == re_arith2("*", z.im, z.im)
           r == re_arith2("+", s, t)
<1>1. /\ Standard(s) /\ Frac(s) = Times(Frac(z.re), Frac(z.re))
      /\ s.num >= 0 /\ (s.num = 0 <=> z.re = Small(0))
      /\ Standard(t) /\ Frac(t) = Times(Frac(z.im), Frac(z.im))
      /\ t.num >= 0 /\ (t.num = 0 <=> z.im = Small(0))
  <2>1. Standard(z.re) /\ Standard(z.im)
    BY DEF StandardNumber
  <2> QED
    BY <2>1, SquareFacts
<1> HIDE DEF s, t
<1>2. Standard(r) /\ Frac(r) = Plus(Frac(s), Frac(t))
  BY <1>1, SumExact
<1>3. Frac(r) = Norm(Value(z))
  BY <1>1, <1>2 DEF Norm, Value
<1>4. /\ s.num \in Int /\ s.den \in Int /\ s.den > 0 /\ Rat(Frac(s), s.num, s.den)
      /\ t.num \in Int /\ t.den \in Int /\ t.den > 0 /\ Rat(Frac(t), t.num, t.den)
  BY <1>1, StandardWhole, WholeParts
<1>5. r.num \in Int /\ r.den \in Int /\ r.den > 0
  BY <1>2, StandardWhole, WholeParts
<1>6. Rat(Frac(r), s.num * t.den + t.num * s.den, s.den * t.den)
  BY <1>2, <1>4, RatSum
<1>7. r.num * (s.den * t.den) = (s.num * t.den + t.num * s.den) * r.den
  BY <1>6 DEF Rat, Frac
<1> DEFINE a == s.num
           b == s.den
           c == t.num
           d == t.den
           v == r.num
           w == r.den
           x == a * d
           y == c * b
<1>8. /\ a \in Int /\ a >= 0 /\ b \in Int /\ b > 0 /\ c \in Int /\ c >= 0
      /\ d \in Int /\ d > 0 /\ v \in Int /\ w \in Int /\ w > 0
      /\ v * (b * d) = (a * d + c * b) * w
  BY <1>1, <1>4, <1>5, <1>7
<1> HIDE DEF a, b, c, d, v, w, r
<1>9. \A k, l \in Int : k >= 0 /\ l >= 0 => k * l >= 0
  <2>1. \A k, l \in Nat : k * l >= 0
    OBVIOUS
  <2> QED
    BY <2>1
<1>10. /\ x \in Int /\ y \in Int /\ x >= 0 /\ y >= 0
       /\ (x = 0 <=> a = 0) /\ (y = 0 <=> c = 0)
       /\ b * d \in Int /\ b * d > 0
  <2>1. /\ x \in Int /\ (x = 0 <=> a = 0 \/ d = 0)
        /\ y \in Int /\ (y = 0 <=> c = 0 \/ b = 0)
        /\ b * d \in Int /\ (b * d = 0 <=> b = 0 \/ d = 0)
    BY <1>8, NonzeroProduct
  <2>2. x >= 0 /\ y >= 0 /\ b * d >= 0
    BY <1>8, <1>9
  <2> QED
    BY <1>8, <2>1, <2>2
<1> DEFINE e == b * d
<1>11. v * e = (x + y) * w /\ e \in Int /\ e > 0
  BY <1>8, <1>10
<1> HIDE DEF x, y, e
<1>12. v = 0 <=> x + y = 0
  <2>1. (v * e = 0 <=> v = 0 \/ e = 0) /\ ((x + y) * w = 0 <=> x + y = 0 \/ w = 0)
    BY <1>8, <1>10, <1>11, NonzeroProduct
  <2> QED
    BY <1>8, <1>11, <2>1
<1>13. v >= 0
  <2>1. (x + y) * w >= 0
    BY <1>8, <1>9, <1>10
  <2>2. v < 0 => v * e < 0
    <3>1. v < 0 => (-v) * e >= 0 /\ v * e # 0
      BY <1>8, <1>9, <1>11, NonzeroProduct
    <3>2. (-v) * e = -(v * e) /\ v * e \in Int
      BY <1>8, <1>11
    <3> QED
      BY <3>1, <3>2
  <2>3. v * e >= 0
    BY <1>11, <2>1
  <2> QED
    BY <1>8, <2>2, <2>3
<1>14. v = 0 <=> a = 0 /\ c = 0
  BY <1>8, <1>10, <1>12
<1>15. z = new_number(0) <=> z.re = Small(0) /\ z.im = Small(0)
  BY DEF new_number, Complex, StandardNumber, NumberObject
<1> QED
  BY <1>1, <1>2, <1>3, <1>13, <1>14, <1>15 DEF a, c, v, r, s, t

\* What inverse makes of the parts of its argument.
LEMMA InverseFacts ==
  ASSUME NEW z, StandardNumber(z)
  PROVE  LET f == inverse(z).re
             g == inverse(z).im
             N == Norm(Value(z))
         IN /\ z = new_number(0) => f = Trap /\ g = Trap
            /\ z # new_number(0) =>
                 /\ N \in Reduced /\ N[1] # 0
                 /\ f = Undefined \/ (Standard(f) /\ Frac(f) = Over(Frac(z.re), N))
                 /\ g = Undefined \/ Standard(g)
                 /\ Standard(g) /\ z.im # Small(-H) => Frac(g) = Over(Opposite(Frac(z.im)), N)
<1> DEFINE r == re_arith2("+", re_arith2("*", z.re, z.re), re_arith2("*", z.im, z.im))
           f == re_arith2("/", z.re, r)
           g == re_arith2("/", re_neg(z.im), r)
<1>1. inverse(z).re = f /\ inverse(z).im = g
  BY DEF inverse, Complex
<1>2. /\ Standard(r) /\ Frac(r) = Norm(Value(z))
      /\ r.num >= 0 /\ (r.num = 0 <=> z = new_number(0))
  BY NormFacts
<1>3. /\ Whole(z.re) /\ Whole(re_neg(z.im))
      /\ z.im # Small(-H) => Frac(re_neg(z.im)) = Opposite(Frac(z.im))
  BY StandardWhole, NegFacts DEF StandardNumber
<1> HIDE DEF r
<1>4. \A x : Whole(x) =>
        LET q == re_arith2("/", x, r) IN
        /\ r.num = 0 => q = Trap
        /\ r.num # 0 => \/ q = Undefined
                        \/ Standard(q) /\ Frac(q) = Over(Frac(x), Frac(r))
                        \/ q = Trap /\ x = Small(-H) /\ r = Small(-1)
  BY <1>2, QuotientExact
<1>5. r # Small(-1)
  BY <1>2 DEF Small, Rational
<1>6. z = new_number(0) => f = Trap /\ g = Trap
  BY <1>2, <1>3, <1>4
<1>7. z # new_number(0) =>
        /\ f = Undefined \/ (Standard(f) /\ Frac(f) = Over(Frac(z.re), Frac(r)))
        /\ g = Undefined \/ (Standard(g) /\ Frac(g) = Over(Frac(re_neg(z.im)), Frac(r)))
  BY <1>2, <1>3, <1>4, <1>5
<1>8. Frac(r) \in Reduced /\ Frac(r)[1] = r.num
  BY <1>2, StandardWhole DEF Whole, Frac
<1> HIDE DEF f, g
<1>9. ~Standard(Undefined)
  BY FaultyFacts
<1> QED
  BY <1>1, <1>2, <1>3, <1>6, <1>7, <1>8, <1>9

-----------------------------------------------------------------------------

\* The operations on fractions stay among the fractions in lowest terms.
LEMMA FractionsClosed ==
  ASSUME NEW p \in Reduced, NEW q \in Reduced
  PROVE  /\ Plus(p, q) \in Reduced /\ Minus(p, q) \in Reduced /\ Times(p, q) \in Reduced
         /\ q[1] # 0 => Over(p, q) \in Reduced
         /\ Zero \in Reduced /\ Rat(Zero, 0, 1)
         /\ Plus(p, q) = Plus(q, p)
<1>1. /\ p[1] \in Int /\ p[2] \in Int /\ q[1] \in Int /\ q[2] \in Int
      /\ Rat(p, p[1], p[2]) /\ Rat(q, q[1], q[2])
  BY ReducedParts, ReducedSelf
<1>2. /\ Rat(Plus(p, q), p[1] * q[2] + q[1] * p[2], p[2] * q[2])
      /\ Rat(Minus(p, q), p[1] * q[2] - q[1] * p[2], p[2] * q[2])
  BY <1>1, RatSum
<1>3. /\ Rat(Times(p, q), p[1] * q[1], p[2] * q[2])
      /\ q[1] # 0 => Rat(Over(p, q), p[1] * q[2], p[2] * q[1])
  BY <1>1, RatProduct
<1>4. Zero = Lowest(0, 1)
  BY LowestWhole DEF Zero
<1>5. Rat(Zero, 0, 1)
  BY <1>4, LowestRat
<1>6. /\ p[1] * q[2] + q[1] * p[2] = q[1] * p[2] + p[1] * q[2]
      /\ p[2] * q[2] = q[2] * p[2]
  BY <1>1
<1>7. Plus(p, q) = Plus(q, p)
  BY <1>6 DEF Plus
<1> QED
  BY <1>2, <1>3, <1>5, <1>7 DEF Rat

\* Zero among the operands.
LEMMA ZeroLaws ==
  ASSUME NEW p \in Reduced
  PROVE  /\ Plus(p, Zero) = p /\ Minus(p, Zero) = p
         /\ Times(p, Zero) = Zero /\ Times(Zero, p) = Zero
         /\ p[1] # 0 => Over(Zero, p) = Zero
<1> DEFINE a == p[1]
           b == p[2]
<1>1. a \in Int /\ b \in Int /\ Rat(p, a, b)
  BY ReducedParts, ReducedSelf
<1>2. Rat(Zero, 0, 1)
  BY FractionsClosed
<1> HIDE DEF a, b
<1>3. /\ Rat(Plus(p, Zero), a * 1 + 0 * b, b * 1)
      /\ Rat(Minus(p, Zero), a * 1 - 0 * b, b * 1)
  BY <1>1, <1>2, RatSum
<1>4. /\ Rat(Times(p, Zero), a * 0, b * 1)
      /\ Rat(Times(Zero, p), 0 * a, 1 * b)
      /\ a # 0 => Rat(Over(Zero, p), 0 * b, 1 * a)
  BY <1>1, <1>2, RatProduct
<1>5. /\ a * 1 + 0 * b = a /\ a * 1 - 0 * b = a /\ b * 1 = b /\ 1 * b = b /\ 1 * a = a
      /\ a * 0 = 0 /\ 0 * a = 0 /\ 0 * b = 0
  BY <1>1
<1>6. Plus(p, Zero) = p /\ Minus(p, Zero) = p
  BY <1>1, <1>3, <1>5, RatUnique
<1>7. 0 * 1 = 0 * b /\ 0 * 1 = 0 * a
  BY <1>1
<1>8. Times(p, Zero) = Zero /\ Times(Zero, p) = Zero
  BY <1>1, <1>2, <1>4, <1>5, <1>7, RatUnique
<1>9. a # 0 => Over(Zero, p) = Zero
  BY <1>1, <1>2, <1>4, <1>5, <1>7, RatUnique
<1> QED
  BY <1>6, <1>8, <1>9 DEF a

\* A quotient may be extended by its divisor.
LEMMA OverExtended ==
  ASSUME NEW p \in Reduced, NEW q \in Reduced, q[1] # 0
  PROVE  Over(Times(p, q), Times(q, q)) = Over(p, q) /\ Times(q, q)[1] # 0
<1> DEFINE a == p[1]
           b == p[2]
           c == q[1]
           d == q[2]
<1>1. a \in Int /\ b \in Int /\ c \in Int /\ d \in Int /\ c # 0 /\ Rat(p, a, b) /\ Rat(q, c, d)
  BY ReducedParts, ReducedSelf
<1> HIDE DEF a, b, c, d
<1>2. /\ Rat(Times(p, q), a * c, b * d) /\ Rat(Times(q, q), c * c, d * d)
      /\ Rat(Over(p, q), a * d, b * c)
  BY <1>1, RatProduct
<1>3. a * c \in Int /\ b * d \in Int /\ c * c \in Int /\ c * c # 0 /\ d * d \in Int
      /\ a * d \in Int /\ b * c \in Int
  BY <1>1, NonzeroProduct
<1>4. Rat(Over(Times(p, q), Times(q, q)), (a * c) * (d * d), (b * d) * (c * c))
  BY <1>2, <1>3, RatProduct
<1>5. ((a * c) * (d * d)) * (b * c) = (a * d) * ((b * d) * (c * c))
  BY <1>1
<1>6. (a * c) * (d * d) \in Int /\ (b * d) * (c * c) \in Int
  BY <1>3
<1>7. Over(Times(p, q), Times(q, q)) = Over(p, q)
  BY <1>2, <1>3, <1>4, <1>5, <1>6, RatUnique
<1>8. Times(q, q)[1] # 0
  BY <1>2, <1>3, RatParts
<1> QED
  BY <1>7, <1>8

\* A sum of products with inverses is a quotient of sums.
LEMMA OverSum ==
  ASSUME NEW p \in Reduced, NEW q \in Reduced, NEW c \in Reduced, NEW d \in Reduced,
         NEW N \in Reduced, N[1] # 0
  PROVE  /\ Minus(Times(p, Over(c, N)), Times(q, Over(Opposite(d), N)))
              = Over(Plus(Times(p, c), Times(q, d)), N)
         /\ Plus(Times(p, Over(c, N)), Times(q, Over(Opposite(d), N)))
              = Over(Minus(Times(p, c), Times(q, d)), N)
<1> DEFINE a1 == p[1]
           a2 == p[2]
           b1 == q[1]
           b2 == q[2]
           c1 == c[1]
           c2 == c[2]
           d1 == d[1]
           d2 == d[2]
           k == N[1]
           l == N[2]
<1>1. /\ a1 \in Int /\ a2 \in Int /\ b1 \in Int /\ b2 \in Int /\ c1 \in Int /\ c2 \in Int
      /\ d1 \in Int /\ d2 \in Int /\ k \in Int /\ k # 0 /\ l \in Int
      /\ Rat(p, a1, a2) /\ Rat(q, b1, b2) /\ Rat(c, c1, c2) /\ Rat(d, d1, d2) /\ Rat(N, k, l)
  BY ReducedParts, ReducedSelf
<1>2. Rat(Opposite(d), -d1, d2)
  <2>1. d2 \in Nat \ {0} /\ Coprime(d1, d2)
    BY ReducedParts
  <2> HIDE DEF d1, d2
  <2>2. PICK u, v \in Int : u * d1 + v * d2 = 1
    BY <2>1 DEF Coprime
  <2>3. (-u) * (-d1) = u * d1
    BY <1>1
  <2>4. -u \in Int /\ -d1 \in Int
    BY <1>1
  <2> DEFINE e1 == -d1
             w == -u
  <2>5. w \in Int /\ e1 \in Int /\ w * e1 + v * d2 = 1
    BY <2>2, <2>3, <2>4
  <2> HIDE DEF e1, w
  <2>6. <<e1, d2>> \in Reduced
    BY <2>1, <2>5 DEF Reduced, Coprime
  <2>7. Rat(<<e1, d2>>, e1, d2)
    BY <2>6, ReducedSelf
  <2> QED
    BY <2>7 DEF Opposite, e1, d1, d2
<1> DEFINE e1 == -d1
<1>3. e1 \in Int /\ e1 = -d1
  BY <1>1
<1> HIDE DEF a1, a2, b1, b2, c1, c2, d1, d2, k, l, e1
<1>4. Rat(Opposite(d), e1, d2)
  BY <1>2 DEF e1
<1>5. /\ Rat(Over(c, N), c1 * l, c2 * k) /\ Rat(Over(Opposite(d), N), e1 * l, d2 * k)
      /\ Rat(Times(p, c), a1 * c1, a2 * c2) /\ Rat(Times(q, d), b1 * d1, b2 * d2)
  BY <1>1, <1>3, <1>4, RatProduct
<1>6. /\ c1 * l \in Int /\ c2 * k \in Int /\ e1 * l \in Int /\ d2 * k \in Int
      /\ a1 * c1 \in Int /\ a2 * c2 \in Int /\ b1 * d1 \in Int /\ b2 * d2 \in Int
  BY <1>1, <1>3
<1>7. /\ Rat(Times(p, Over(c, N)), a1 * (c1 * l), a2 * (c2 * k))
      /\ Rat(Times(q, Over(Opposite(d), N)), b1 * (e1 * l), b2 * (d2 * k))
  BY <1>1, <1>5, <1>6, RatProduct
\* over a common divisor
<1> DEFINE A == a1 * c1
           B == a2 * c2
           C == b1 * d1
           D == b2 * d2
<1>8. /\ A \in Int /\ B \in Int /\ C \in Int /\ D \in Int
      /\ A * l \in Int /\ B * k \in Int /\ -(C * l) \in Int /\ D * k \in Int
  <2>1. A \in Int /\ B \in Int /\ C \in Int /\ D \in Int
    BY <1>1
  <2> HIDE DEF A, B, C, D
  <2> QED
    BY <1>1, <2>1
<1>9. /\ a1 * (c1 * l) = A * l /\ a2 * (c2 * k) = B * k
      /\ b1 * (e1 * l) = -(C * l) /\ b2 * (d2 * k) = D * k
  BY <1>1, <1>3
<1>10. /\ Rat(Times(p, Over(c, N)), A * l, B * k)
       /\ Rat(Times(q, Over(Opposite(d), N)), -(C * l), D * k)
       /\ Rat(Times(p, c), A, B) /\ Rat(Times(q, d), C, D)
  BY <1>5, <1>7, <1>9
<1> HIDE DEF A, B, C, D
<1> DEFINE E == -(C * l)
<1>11. E \in Int /\ E = -(C * l)
  BY <1>8
<1>12. Rat(Times(q, Over(Opposite(d), N)), E, D * k)
  BY <1>10
<1> HIDE DEF E
<1>13. /\ Rat(Minus(Times(p, Over(c, N)), Times(q, Over(Opposite(d), N))),
              (A * l) * (D * k) - E * (B * k), (B * k) * (D * k))
       /\ Rat(Plus(Times(p, Over(c, N)), Times(q, Over(Opposite(d), N))),
              (A * l) * (D * k) + E * (B * k), (B * k) * (D * k))
  BY <1>8, <1>10, <1>11, <1>12, RatSum
<1>14. /\ Rat(Plus(Times(p, c), Times(q, d)), A * D + C * B, B * D)
       /\ Rat(Minus(Times(p, c), Times(q, d)), A * D - C * B, B * D)
  BY <1>8, <1>10, RatSum
<1>15. /\ A * D + C * B \in Int /\ A * D - C * B \in Int /\ B * D \in Int
       /\ (A * l) * (D * k) - E * (B * k) \in Int /\ (A * l) * (D * k) + E * (B * k) \in Int
       /\ (B * k) * (D * k) \in Int
       /\ (A * D + C * B) * l \in Int /\ (A * D - C * B) * l \in Int /\ (B * D) * k \in Int
  BY <1>1, <1>8, <1>11
<1>16. /\ Rat(Over(Plus(Times(p, c), Times(q, d)), N), (A * D + C * B) * l, (B * D) * k)
       /\ Rat(Over(Minus(Times(p, c), Times(q, d)), N), (A * D - C * B) * l, (B * D) * k)
  BY <1>1, <1>14, <1>15, RatProduct
<1>17. ((A * l) * (D * k) - E * (B * k)) * ((B * D) * k)
         = ((A * D + C * B) * l) * ((B * k) * (D * k))
  <2>1. ((A * l) * (D * k) + (C * l) * (B * k)) * ((B * D) * k)
          = ((A * D + C * B) * l) * ((B * k) * (D * k))
    BY <1>1, <1>8
  <2>2. (A * l) * (D * k) - E * (B * k) = (A * l) * (D * k) + (C * l) * (B * k)
    BY <1>1, <1>8, <1>11
  <2> QED
    BY <2>1, <2>2
<1>18. ((A * l) * (D * k) + E * (B * k)) * ((B * D) * k)
         = ((A * D - C * B) * l) * ((B * k) * (D * k))
  <2>1. ((A * l) * (D * k) - (C * l) * (B * k)) * ((B * D) * k)
          = ((A * D - C * B) * l) * ((B * k) * (D * k))
    BY <1>1, <1>8
  <2>2. (A * l) * (D * k) + E * (B * k) = (A * l) * (D * k) - (C * l) * (B * k)
    BY <1>1, <1>8, <1>11
  <2> QED
    BY <2>1, <2>2
<1> QED
  BY <1>13, <1>15, <1>16, <1>17, <1>18, RatUnique

-----------------------------------------------------------------------------

\* A number object whose parts may be faulty.
FineNumber(z) == z \in NumberObject /\ Fine(z.re) /\ Fine(z.im)

\* times on parts that may be faulty.
LEMMA TimesFine ==
  ASSUME NEW z, FineNumber(z), NEW w, FineNumber(w)
  PROVE  /\ FineNumber(times(z, w))
         /\ Trap \in {times(z, w).re, times(z, w).im} => Trap \in {z.re, z.im, w.re, w.im}
         /\ Undefined \in {z.re, z.im} =>
              times(z, w).re \in {Undefined, Trap}
         /\ StandardNumber(z) /\ w.re = Trap => times(z, w).re = Trap
         /\ Standard(times(z, w).re) =>
              StandardNumber(z) /\ StandardNumber(w)
         /\ StandardNumber(z) /\ StandardNumber(w) =>
              StandardNumber(times(z, w))
              /\ Value(times(z, w)) = Apply("*", Value(z), Value(w))
<1> DEFINE aa == re_arith2("*", z.re, w.re)
           bb == re_arith2("*", z.im, w.im)
           ba == re_arith2("*", z.im, w.re)
           ab == re_arith2("*", z.re, w.im)
           x == re_arith2("-", aa, bb)
           y == re_arith2("+", ba, ab)
<1>1. times(z, w) = [re |-> x, im |-> y]
  BY DEF times, Complex
<1>2. Fine(z.re) /\ Fine(z.im) /\ Fine(w.re) /\ Fine(w.im)
  BY DEF FineNumber
<1>3. Fine(aa) /\ Fine(bb) /\ Fine(ba) /\ Fine(ab)
  BY <1>2, SumFine
<1>4. /\ aa = Trap => z.re = Trap \/ w.re = Trap
      /\ bb = Trap => z.im = Trap \/ w.im = Trap
      /\ ba = Trap => z.im = Trap \/ w.re = Trap
      /\ ab = Trap => z.re = Trap \/ w.im = Trap
      /\ z.re = Undefined => aa = Undefined
      /\ z.im = Undefined => bb = Undefined
      /\ Standard(aa) => Standard(z.re) /\ Standard(w.re)
      /\ Standard(bb) => Standard(z.im) /\ Standard(w.im)
  BY <1>2, SumFine
<1>5. Standard(z.re) /\ w.re = Trap => aa = Trap
  BY FaultyFacts
<1>6. Standard(z.re) /\ Standard(z.im) /\ Standard(w.re) /\ Standard(w.im) =>
        /\ Standard(aa) /\ Frac(aa) = Times(Frac(z.re), Frac(w.re))
        /\ Standard(bb) /\ Frac(bb) = Times(Frac(z.im), Frac(w.im))
        /\ Standard(ba) /\ Frac(ba) = Times(Frac(z.im), Frac(w.re))
        /\ Standard(ab) /\ Frac(ab) = Times(Frac(z.re), Frac(w.im))
  BY SumExact
<1> HIDE DEF aa, bb, ba, ab
<1>7. /\ Fine(x) /\ Fine(y)
      /\ x = Trap => aa = Trap \/ bb = Trap
      /\ y = Trap => ba = Trap \/ ab = Trap
      /\ aa = Undefined => x = Undefined
      /\ bb = Undefined /\ aa # Trap => x = Undefined
      /\ Standard(x) => Standard(aa) /\ Standard(bb)
  BY <1>3, SumFine
<1>8. aa = Trap => x = Trap
  BY FaultyFacts
<1>9. Standard(aa) /\ Standard(bb) /\ Standard(ba) /\ Standard(ab) =>
        /\ Standard(x) /\ Frac(x) = Minus(Frac(aa), Frac(bb))
        /\ Standard(y) /\ Frac(y) = Plus(Frac(ba), Frac(ab))
  BY SumExact
<1>10. \A p, q, r, s : Apply("*", <<p, q>>, <<r, s>>)
                         = <<Minus(Times(p, r), Times(q, s)), Plus(Times(p, s), Times(q, r))>>
  BY DEF Apply
<1>11. Standard(z.re) /\ Standard(z.im) /\ Standard(w.re) /\ Standard(w.im) =>
         Plus(Frac(ba), Frac(ab)) = Plus(Frac(ab), Frac(ba))
  <2>1. Standard(ba) /\ Standard(ab) => Frac(ba) \in Reduced /\ Frac(ab) \in Reduced
    BY StandardWhole DEF Whole
  <2> QED
    BY <1>6, <2>1, FractionsClosed
<1> HIDE DEF x, y
<1>12. [re |-> x, im |-> y].re = x /\ [re |-> x, im |-> y].im = y
  OBVIOUS
<1> DEFINE t == [re |-> x, im |-> y]
<1>13. t.re = x /\ t.im = y
  BY <1>12
<1>14. x \in Part /\ y \in Part /\ z \in NumberObject /\ w \in NumberObject
  BY <1>7, FaultyFacts DEF FineNumber
<1>15. t \in NumberObject
  BY <1>14 DEF NumberObject
<1> HIDE DEF t
<1>16. times(z, w) = t
  BY <1>1 DEF t
<1>17. StandardNumber(z) /\ StandardNumber(w) =>
         StandardNumber(t) /\ Value(t) = Apply("*", Value(z), Value(w))
  <2> SUFFICES ASSUME StandardNumber(z), StandardNumber(w)
               PROVE  StandardNumber(t) /\ Value(t) = Apply("*", Value(z), Value(w))
    OBVIOUS
  <2>1. Standard(z.re) /\ Standard(z.im) /\ Standard(w.re) /\ Standard(w.im)
    BY DEF StandardNumber
  <2>2. /\ Standard(x) /\ Frac(x) = Minus(Frac(aa), Frac(bb))
        /\ Standard(y) /\ Frac(y) = Plus(Frac(ab), Frac(ba))
    BY <1>6, <1>9, <1>11, <2>1
  <2>3. Value(t) = <<Frac(x), Frac(y)>>
    BY <1>13 DEF Value
  <2>4. Apply("*", Value(z), Value(w)) =
          <<Minus(Times(Frac(z.re), Frac(w.re)), Times(Frac(z.im), Frac(w.im))),
            Plus(Times(Frac(z.re), Frac(w.im)), Times(Frac(z.im), Frac(w.re)))>>
    BY <1>10 DEF Value
  <2>5. Value(t) = Apply("*", Value(z), Value(w))
    BY <1>6, <2>1, <2>2, <2>3, <2>4
  <2> QED
    BY <1>13, <1>15, <2>2, <2>5 DEF StandardNumber
<1>18. Fine(t.re) /\ Fine(t.im)
  BY <1>7, <1>13
<1>19. Trap \in {t.re, t.im} => Trap \in {z.re, z.im, w.re, w.im}
  BY <1>4, <1>7, <1>13
<1>20. Undefined \in {z.re, z.im} => t.re \in {Undefined, Trap}
  BY <1>4, <1>7, <1>8, <1>13
<1>21. StandardNumber(z) /\ w.re = Trap => t.re = Trap
  BY <1>5, <1>8, <1>13 DEF StandardNumber
<1>22. Standard(t.re) => StandardNumber(z) /\ StandardNumber(w)
  BY <1>4, <1>7, <1>13, <1>14 DEF StandardNumber
<1> QED
  BY <1>15, <1>16, <1>17, <1>18, <1>19, <1>20, <1>21, <1>22 DEF FineNumber

\* What a call keeps in ret: each part may be undefined, but the process runs.
Running(z) == FineNumber(z) /\ Trap \notin {z.re, z.im}

Spoilt(z) == Undefined \in {z.re, z.im}

\* The result of _arith2, by the operands.
Outcome(o, z, w, t) ==
  /\ FineNumber(t)
  /\ Spoilt(z) => Spoilt(t) \/ Trap \in {t.re, t.im}
  /\ Trap \in {t.re, t.im} =>
       o = "/" /\ (w = new_number(0) \/ (z = new_number(-H) /\ w = new_number(-1)))
  /\ StandardNumber(t) => ~(o = "/" /\ w = new_number(0))
  /\ StandardNumber(t) /\ (o = "/" => w.im # Small(-H)) =>
       Value(t) = Apply(o, Value(z), Value(w))

\* A number that runs is standard unless it is spoilt.
LEMMA RunningFacts ==
  ASSUME NEW z, Running(z)
  PROVE  StandardNumber(z) <=> ~Spoilt(z)
  BY FaultyFacts DEF Running, FineNumber, Fine, StandardNumber, Spoilt

\* Values of the parts of a standard number.
LEMMA ValueFacts ==
  ASSUME NEW z, StandardNumber(z)
  PROVE  /\ Value(z) = <<Frac(z.re), Frac(z.im)>>
         /\ Frac(z.re) \in Reduced /\ Frac(z.im) \in Reduced
         /\ z = Complex(z.re, z.im)
         /\ Frac(Small(0)) = Zero /\ Frac(Small(1)) = One
<1>1. Frac(z.re) \in Reduced /\ Frac(z.im) \in Reduced
  BY StandardWhole DEF StandardNumber, Whole
<1>2. z = Complex(z.re, z.im)
  BY DEF StandardNumber, NumberObject, Complex
<1> QED
  BY <1>1, <1>2 DEF Value, Frac, Small, Rational, Zero, One

\* Real operands: the imaginary part stays 0.
LEMMA RealOutcome ==
  ASSUME NEW z, Running(z), NEW w, StandardNumber(w), NEW o \in ArithOp,
         z.im = Small(0), w.im = Small(0)
  PROVE  Outcome(o, z, w, Complex(re_arith2(o, z.re, w.re), z.im))
<1> DEFINE x == re_arith2(o, z.re, w.re)
           t == Complex(x, z.im)
           p == Frac(z.re)
           q == Frac(w.re)
<1> SUFFICES Outcome(o, z, w, t)
  OBVIOUS
<1>1. t.re = x /\ t.im = z.im
  BY DEF Complex
<1>2. /\ Fine(z.re) /\ Fine(z.im) /\ z.re # Trap /\ z.im # Trap
      /\ z.re \in Part /\ z.im \in Part
      /\ Standard(w.re) /\ Standard(w.im)
      /\ Standard(Small(0)) /\ Small(0) # Undefined /\ Small(0) # Trap
  BY FaultyFacts DEF Running, FineNumber, StandardNumber
<1>3. Undefined # Trap /\ ~Standard(Undefined) /\ ~Standard(Trap)
  BY FaultyFacts
<1>4. w = new_number(0) <=> w.re.num = 0
  <2>1. Whole(w.re)
    BY <1>2, StandardWhole
  <2>2. w.re.num = 0 => w.re.type = 0 /\ w.re.den = 1
    BY <2>1, FractionNotZero DEF Whole
  <2>3. w.re = Rational(w.re.type, w.re.num, w.re.den)
    BY <2>1, WholeParts
  <2>4. w.re.num = 0 => w.re = Small(0)
    BY <2>2, <2>3 DEF Small
  <2>5. w = Complex(w.re, w.im)
    BY ValueFacts
  <2> QED
    BY <2>4, <2>5 DEF new_number, Complex, Small, Rational
<1>5. ASSUME Fine(x) PROVE FineNumber(t)
  <2>1. x \in Part
    BY <1>5, FaultyFacts
  <2> HIDE DEF x
  <2>2. t \in NumberObject
    BY <1>2, <2>1 DEF Complex, NumberObject
  <2> QED
    BY <1>1, <1>2, <1>5, <2>2 DEF FineNumber
<1>6. CASE z.re = Undefined
  <2>1. x = Undefined
    BY <1>6, FaultyFacts
  <2>2. FineNumber(t)
    BY <1>5, <2>1 DEF Fine
  <2> HIDE DEF t
  <2> QED
    BY <1>1, <1>2, <1>3, <2>1, <2>2 DEF Outcome, Spoilt, StandardNumber
<1>7. CASE Standard(z.re)
  <2>1. StandardNumber(z) /\ ~Spoilt(z)
    BY <1>2, <1>3, <1>7 DEF Running, FineNumber, StandardNumber, Spoilt
  <2>2. Value(z) = <<p, Zero>> /\ Value(w) = <<q, Zero>> /\ p \in Reduced /\ q \in Reduced
    BY <2>1, ValueFacts
  <2>3. Value(t) = <<Frac(x), Zero>>
    BY <1>1, <2>1, ValueFacts DEF Value
  <2>4. q[1] = w.re.num
    BY DEF Frac
  <2>5. ~(o = "/") => Standard(x)
    BY <1>2, <1>7, SumExact DEF ArithOp
  <2>6. Zero \in Reduced
    BY <2>2, FractionsClosed
  <2> HIDE DEF p, q, t
  <2>7. CASE o # "/"
    <3>1. Value(t) = Apply(o, Value(z), Value(w))
      <4>1. CASE o = "+"
        <5>1. Frac(x) = Plus(p, q)
          BY <1>2, <1>7, <4>1, SumExact DEF p, q
        <5>2. Apply(o, <<p, Zero>>, <<q, Zero>>) = <<Plus(p, q), Plus(Zero, Zero)>>
          BY <4>1 DEF Apply
        <5> QED
          BY <2>2, <2>3, <2>6, <5>1, <5>2, ZeroLaws
      <4>2. CASE o = "-"
        <5>1. Frac(x) = Minus(p, q)
          BY <1>2, <1>7, <4>2, SumExact DEF p, q
        <5>2. Apply(o, <<p, Zero>>, <<q, Zero>>) = <<Minus(p, q), Minus(Zero, Zero)>>
          BY <4>2 DEF Apply
        <5> QED
          BY <2>2, <2>3, <2>6, <5>1, <5>2, ZeroLaws
      <4>3. CASE o = "*"
        <5>1. Frac(x) = Times(p, q)
          BY <1>2, <1>7, <4>3, SumExact DEF p, q
        <5>2. Apply(o, <<p, Zero>>, <<q, Zero>>)
                = <<Minus(Times(p, q), Times(Zero, Zero)), Plus(Times(p, Zero), Times(Zero, q))>>
          BY <4>3 DEF Apply
        <5>3. /\ Times(Zero, Zero) = Zero /\ Times(p, Zero) = Zero /\ Times(Zero, q) = Zero
              /\ Plus(Zero, Zero) = Zero
              /\ Times(p, q) \in Reduced
          BY <2>2, <2>6, ZeroLaws, FractionsClosed
        <5>4. Minus(Times(p, q), Zero) = Times(p, q)
          BY <5>3, ZeroLaws
        <5> QED
          BY <2>2, <2>3, <5>1, <5>2, <5>3, <5>4
      <4> QED
        BY <2>7, <4>1, <4>2, <4>3 DEF ArithOp
    <3>2. FineNumber(t)
      BY <1>5, <2>5, <2>7 DEF Fine, t
    <3>3. Trap \notin {t.re, t.im}
      BY <1>1, <1>2, <1>3, <2>5, <2>7
    <3> QED
      BY <2>1, <2>7, <3>1, <3>2, <3>3 DEF Outcome
  <2>8. CASE o = "/" /\ w.re.num = 0
    <3>1. x = Trap
      BY <1>2, <1>7, <2>8, StandardWhole, QuotientExact
    <3>2. FineNumber(t)
      BY <1>5, <3>1 DEF Fine, t
    <3> QED
      BY <1>1, <1>3, <1>4, <2>1, <2>8, <3>1, <3>2 DEF Outcome, StandardNumber
  <2>9. CASE o = "/" /\ w.re.num # 0
    <3>1. \/ x = Undefined
          \/ Standard(x) /\ Frac(x) = Over(p, q)
          \/ x = Trap /\ z.re = Small(-H) /\ w.re = Small(-1)
      BY <1>2, <1>7, <2>9, StandardWhole, QuotientExact DEF p, q
    <3>2. FineNumber(t)
      BY <1>5, <3>1 DEF Fine, t
    <3>3. Apply(o, <<p, Zero>>, <<q, Zero>>) = <<Over(p, q), Zero>>
      <4>1. Apply(o, <<p, Zero>>, <<q, Zero>>) =
              <<Over(Plus(Times(p, q), Times(Zero, Zero)), Norm(<<q, Zero>>)),
                Over(Minus(Times(Zero, q), Times(p, Zero)), Norm(<<q, Zero>>))>>
        BY <2>9 DEF Apply
      <4>2. /\ Times(Zero, Zero) = Zero /\ Times(p, Zero) = Zero /\ Times(Zero, q) = Zero
            /\ Minus(Zero, Zero) = Zero
            /\ Times(p, q) \in Reduced /\ Times(q, q) \in Reduced
        BY <2>2, <2>6, ZeroLaws, FractionsClosed
      <4>3. Plus(Times(p, q), Zero) = Times(p, q) /\ Plus(Times(q, q), Zero) = Times(q, q)
        BY <4>2, ZeroLaws
      <4>4. Norm(<<q, Zero>>) = Times(q, q)
        BY <4>2, <4>3 DEF Norm
      <4>5. Over(Times(p, q), Times(q, q)) = Over(p, q) /\ Times(q, q)[1] # 0
        BY <2>2, <2>4, <2>9, OverExtended
      <4>6. Over(Zero, Times(q, q)) = Zero
        BY <4>2, <4>5, ZeroLaws
      <4> QED
        BY <4>1, <4>2, <4>3, <4>4, <4>5, <4>6
    <3>4. Standard(x) => Value(t) = Apply(o, Value(z), Value(w))
      BY <1>3, <2>2, <2>3, <3>1, <3>3
    <3>5. x = Trap => z = new_number(-H) /\ w = new_number(-1)
      <4>1. z = Complex(z.re, z.im) /\ w = Complex(w.re, w.im)
        BY <2>1, ValueFacts
      <4> QED
        BY <1>3, <3>1, <4>1 DEF new_number
    <3> QED
      BY <1>1, <1>2, <1>4, <2>1, <2>9, <3>2, <3>4, <3>5 DEF Outcome, StandardNumber
  <2> QED
    BY <2>7, <2>8, <2>9
<1>8. z.re = Undefined \/ Standard(z.re)
  BY <1>2 DEF Fine
<1> QED
  BY <1>6, <1>7, <1>8

\* Sums of complex numbers, part by part.
LEMMA SumOutcome ==
  ASSUME NEW z, Running(z), NEW w, StandardNumber(w), NEW o \in {"+", "-"}
  PROVE  Outcome(o, z, w, Complex(re_arith2(o, z.re, w.re), re_arith2(o, z.im, w.im)))
<1> DEFINE x == re_arith2(o, z.re, w.re)
           y == re_arith2(o, z.im, w.im)
           t == Complex(x, y)
<1> SUFFICES Outcome(o, z, w, t)
  OBVIOUS
<1>1. t.re = x /\ t.im = y
  BY DEF Complex
<1>2. /\ Fine(z.re) /\ Fine(z.im) /\ z.re # Trap /\ z.im # Trap
      /\ Standard(w.re) /\ Standard(w.im) /\ Fine(w.re) /\ Fine(w.im)
      /\ w.re # Trap /\ w.im # Trap /\ w.re # Undefined /\ w.im # Undefined
  BY FaultyFacts DEF Running, FineNumber, StandardNumber, Fine
<1>3. /\ Fine(x) /\ Fine(y) /\ x # Trap /\ y # Trap
      /\ z.re = Undefined => x = Undefined
      /\ z.im = Undefined => y = Undefined
      /\ Standard(x) => Standard(z.re)
      /\ Standard(y) => Standard(z.im)
  BY <1>2, SumFine
<1>4. FineNumber(t)
  <2>1. x \in Part /\ y \in Part
    BY <1>3, FaultyFacts
  <2> HIDE DEF x, y
  <2>2. t \in NumberObject
    BY <2>1 DEF Complex, NumberObject
  <2> QED
    BY <1>1, <1>3, <2>2 DEF FineNumber
<1>5. ASSUME Standard(x), Standard(y)
      PROVE  Value(t) = Apply(o, Value(z), Value(w))
  <2>1. Standard(z.re) /\ Standard(z.im)
    BY <1>3, <1>5
  <2>2. Value(t) = <<Frac(x), Frac(y)>>
    BY <1>1 DEF Value
  <2> DEFINE a == Frac(z.re)
             b == Frac(z.im)
             c == Frac(w.re)
             d == Frac(w.im)
  <2>3. CASE o = "+"
    <3>1. Frac(x) = Plus(a, c) /\ Frac(y) = Plus(b, d)
      BY <1>2, <2>1, <2>3, SumExact
    <3>2. Apply(o, <<a, b>>, <<c, d>>) = <<Plus(a, c), Plus(b, d)>>
      BY <2>3 DEF Apply
    <3> QED
      BY <2>2, <3>1, <3>2 DEF Value
  <2>4. CASE o = "-"
    <3>1. Frac(x) = Minus(a, c) /\ Frac(y) = Minus(b, d)
      BY <1>2, <2>1, <2>4, SumExact
    <3>2. Apply(o, <<a, b>>, <<c, d>>) = <<Minus(a, c), Minus(b, d)>>
      BY <2>4 DEF Apply
    <3> QED
      BY <2>2, <3>1, <3>2 DEF Value
  <2> QED
    BY <2>3, <2>4
<1> HIDE DEF x, y, t
<1> QED
  BY <1>1, <1>3, <1>4, <1>5 DEF Outcome, Spoilt, StandardNumber

\* A product of complex numbers.
LEMMA ProductOutcome ==
  ASSUME NEW z, Running(z), NEW w, StandardNumber(w)
  PROVE  Outcome("*", z, w, times(z, w))
<1> DEFINE t == times(z, w)
<1>1. /\ FineNumber(z) /\ z.re # Trap /\ z.im # Trap
      /\ FineNumber(w) /\ w.re # Trap /\ w.im # Trap
  BY FaultyFacts DEF Running, FineNumber, StandardNumber, Fine
<1>2. /\ FineNumber(t)
      /\ Trap \notin {t.re, t.im}
      /\ Spoilt(z) => t.re \in {Undefined, Trap}
      /\ Standard(t.re) => StandardNumber(z)
      /\ StandardNumber(z) => Value(t) = Apply("*", Value(z), Value(w))
  BY <1>1, TimesFine DEF Spoilt
<1> HIDE DEF t
<1>3. Outcome("*", z, w, t)
  BY <1>2 DEF Outcome, StandardNumber, Spoilt
<1> QED
  BY <1>3 DEF t

\* A quotient of complex numbers.
LEMMA QuotientOutcome ==
  ASSUME NEW z, Running(z), NEW w, StandardNumber(w)
  PROVE  Outcome("/", z, w, times(z, inverse(w)))
<1> DEFINE v == inverse(w)
           t == times(z, v)
           N == Norm(Value(w))
           c == Frac(w.re)
           d == Frac(w.im)
           p == Frac(z.re)
           q == Frac(z.im)
<1> SUFFICES Outcome("/", z, w, t)
  OBVIOUS
<1>1. FineNumber(z) /\ z.re # Trap /\ z.im # Trap
  BY DEF Running
<1>2. /\ w = new_number(0) => v.re = Trap /\ v.im = Trap
      /\ w # new_number(0) =>
           /\ N \in Reduced /\ N[1] # 0
           /\ v.re = Undefined \/ (Standard(v.re) /\ Frac(v.re) = Over(c, N))
           /\ v.im = Undefined \/ Standard(v.im)
           /\ Standard(v.im) /\ w.im # Small(-H) => Frac(v.im) = Over(Opposite(d), N)
  BY InverseFacts
<1>3. FineNumber(v)
  <2>1. Fine(v.re) /\ Fine(v.im)
    BY <1>2 DEF Fine
  <2>2. v.re \in Part /\ v.im \in Part
    BY <2>1, FaultyFacts
  <2>3. v = [re |-> v.re, im |-> v.im]
    BY DEF inverse, Complex
  <2> HIDE DEF v
  <2>4. v \in NumberObject
    BY <2>2, <2>3 DEF NumberObject
  <2> QED
    BY <2>1, <2>4 DEF FineNumber
<1> HIDE DEF v, N
<1>4. /\ FineNumber(t)
      /\ Trap \in {t.re, t.im} => Trap \in {z.re, z.im, v.re, v.im}
      /\ Spoilt(z) => t.re \in {Undefined, Trap}
      /\ Standard(t.re) => StandardNumber(z) /\ StandardNumber(v)
      /\ StandardNumber(z) /\ StandardNumber(v) =>
           Value(t) = Apply("*", Value(z), Value(v))
  BY <1>1, <1>3, TimesFine DEF Spoilt
<1> HIDE DEF t
<1>5. Undefined # Trap /\ ~Standard(Trap)
  BY FaultyFacts
<1>6. Trap \in {t.re, t.im} => w = new_number(0)
  BY <1>1, <1>2, <1>4, <1>5, FaultyFacts
<1>7. Standard(t.re) => w # new_number(0)
  BY <1>2, <1>4, <1>5 DEF StandardNumber
<1>8. ASSUME Standard(t.re), w.im # Small(-H)
      PROVE  Value(t) = Apply("/", Value(z), Value(w))
  <2>1. StandardNumber(z) /\ StandardNumber(v) /\ w # new_number(0)
    BY <1>4, <1>7, <1>8
  <2>2. ~Standard(Undefined)
    BY FaultyFacts
  <2>3. /\ N \in Reduced /\ N[1] # 0
        /\ Frac(v.re) = Over(c, N) /\ Frac(v.im) = Over(Opposite(d), N)
    BY <1>2, <1>8, <2>1, <2>2 DEF StandardNumber
  <2>4. p \in Reduced /\ q \in Reduced /\ c \in Reduced /\ d \in Reduced
    BY <2>1, ValueFacts
  <2>5. Value(t) = Apply("*", <<p, q>>, <<Over(c, N), Over(Opposite(d), N)>>)
    BY <1>4, <2>1, <2>3 DEF Value
  <2>6. N = Norm(<<c, d>>) /\ Value(z) = <<p, q>> /\ Value(w) = <<c, d>>
    BY DEF N, Value
  <2> HIDE DEF p, q, c, d
  <2> DEFINE f == Over(c, N)
             g == Over(Opposite(d), N)
  <2>7. Apply("*", <<p, q>>, <<f, g>>)
          = <<Minus(Times(p, f), Times(q, g)), Plus(Times(p, g), Times(q, f))>>
    BY DEF Apply
  <2>8. Minus(Times(p, f), Times(q, g)) = Over(Plus(Times(p, c), Times(q, d)), N)
    BY <2>3, <2>4, OverSum
  <2>9. Plus(Times(q, f), Times(p, g)) = Over(Minus(Times(q, c), Times(p, d)), N)
    BY <2>3, <2>4, OverSum
  <2>10. Plus(Times(p, g), Times(q, f)) = Plus(Times(q, f), Times(p, g))
    <3>1. f \in Reduced /\ g \in Reduced
      BY <2>1, <2>3, ValueFacts
    <3> HIDE DEF f, g
    <3>2. Times(p, g) \in Reduced /\ Times(q, f) \in Reduced
      BY <2>4, <3>1, FractionsClosed
    <3> QED
      BY <3>2, FractionsClosed
  <2>11. Apply("/", <<p, q>>, <<c, d>>)
           = <<Over(Plus(Times(p, c), Times(q, d)), N), Over(Minus(Times(q, c), Times(p, d)), N)>>
    BY <2>6 DEF Apply
  <2> QED
    BY <2>5, <2>6, <2>7, <2>8, <2>9, <2>10, <2>11
<1>9. Outcome("/", z, w, t)
  BY <1>4, <1>6, <1>7, <1>8 DEF Outcome, StandardNumber, Spoilt
<1> QED
  BY <1>9

\* The result of _arith2, whatever the operands.
LEMMA Arith2Outcome ==
  ASSUME NEW z, Running(z), NEW w, StandardNumber(w), NEW o \in ArithOp
  PROVE  Outcome(o, z, w, arith2(o, z, w))
<1>1. CASE ~is_complex(z) /\ ~is_complex(w)
  <2>1. z.im = Small(0) /\ w.im = Small(0)
    BY <1>1 DEF is_complex
  <2>2. z = [re |-> z.re, im |-> z.im]
    BY DEF Running, FineNumber, NumberObject
  <2>3. arith2(o, z, w) = [z EXCEPT !.re = re_arith2(o, z.re, w.re)]
    BY <1>1 DEF arith2
  <2>4. arith2(o, z, w) = Complex(re_arith2(o, z.re, w.re), z.im)
    BY <2>2, <2>3 DEF Complex
  <2> QED
    BY <2>1, <2>4, RealOutcome
<1>2. CASE (is_complex(z) \/ is_complex(w)) /\ o \in {"+", "-"}
  <2>1. arith2(o, z, w) = Complex(re_arith2(o, z.re, w.re), re_arith2(o, z.im, w.im))
    BY <1>2 DEF arith2
  <2> QED
    BY <1>2, <2>1, SumOutcome
<1>3. CASE (is_complex(z) \/ is_complex(w)) /\ o = "*"
  <2>1. arith2(o, z, w) = times(z, w)
    BY <1>3 DEF arith2
  <2> QED
    BY <1>3, <2>1, ProductOutcome
<1>4. CASE (is_complex(z) \/ is_complex(w)) /\ o = "/"
  <2>1. arith2(o, z, w) = times(z, inverse(w))
    BY <1>4 DEF arith2
  <2> QED
    BY <1>4, <2>1, QuotientOutcome
<1> QED
  BY <1>1, <1>2, <1>3, <1>4 DEF ArithOp

-----------------------------------------------------------------------------

(***************************************************************************)
(* Folded, Divisors and Negatable with the call they are about as arguments. *)
(***************************************************************************)
TakesFirst(o, a) == o \in {"-", "/"} /\ Len(a) > 1

FoldStep(o, a, F, j) ==
  CASE j = 0 -> IF o \in {"+", "-"} THEN <<Zero, Zero>> ELSE <<One, Zero>>
    [] j = 1 /\ o \in {"-", "/"} /\ Len(a) > 1 -> Value(a[1])
    [] OTHER -> Apply(o, F[j - 1], Value(a[j]))

FoldTable(F, o, a, k) == F = [j \in 0..k |-> FoldStep(o, a, F, j)]

FoldedOf(o, a, k) == LET F[j \in 0..k] == FoldStep(o, a, F, j) IN F[k]

DivisorsOf(o, a, k) ==
  IF o = "/" THEN {a[j] : j \in (IF Len(a) > 1 THEN 2 ELSE 1)..k} ELSE {}

NegatableOf(o, a, k) == \A d \in DivisorsOf(o, a, k) : d.im # Small(-H)

\* They are what the model says of a state.
LEMMA FoldedIs ==
  ASSUME NEW k \in Nat
  PROVE  Folded(k) = FoldedOf(op, args, k)
  BY DEF Folded, FoldedOf, FoldStep

\* So are the divisors.
LEMMA DivisorsAre ==
  Divisors = DivisorsOf(op, args, i) /\ (Negatable <=> NegatableOf(op, args, i))
  BY DEF Divisors, DivisorsOf, Negatable, NegatableOf

\* A step of the fold looks at the previous value alone.
LEMMA FoldStepAgrees ==
  ASSUME NEW o, NEW a, NEW f, NEW g, NEW j \in Nat, j > 0 => f[j - 1] = g[j - 1]
  PROVE  FoldStep(o, a, f, j) = FoldStep(o, a, g, j)
<1>1. CASE j = 0
  BY <1>1 DEF FoldStep
<1>2. CASE j > 0
  BY <1>2 DEF FoldStep
<1> QED
  BY <1>1, <1>2

\* The table of the values up to k exists.
LEMMA FoldExists ==
  ASSUME NEW o, NEW a, NEW k \in Nat
  PROVE  \E F : FoldTable(F, o, a, k)
<1> DEFINE P == {m \in Nat : \E F : FoldTable(F, o, a, m)}
<1>1. ASSUME NEW n \in Nat, \A m \in 0..(n - 1) : m \in P
      PROVE  n \in P
  <2>1. \E f : \A j \in 0..(n - 1) : f[j] = FoldStep(o, a, f, j)
    <3>1. CASE n = 0
      BY <3>1
    <3>2. CASE n # 0
      <4>1. n - 1 \in 0..(n - 1)
        BY <3>2
      <4>2. PICK f : FoldTable(f, o, a, n - 1)
        BY <1>1, <4>1
      <4>3. \A j \in 0..(n - 1) : f[j] = FoldStep(o, a, f, j)
        BY <4>2 DEF FoldTable
      <4> QED
        BY <4>3
    <3> QED
      BY <3>1, <3>2
  <2>2. PICK f : \A j \in 0..(n - 1) : f[j] = FoldStep(o, a, f, j)
    BY <2>1
  <2> DEFINE g == [j \in 0..n |-> IF j < n THEN f[j] ELSE FoldStep(o, a, f, n)]
  <2>3. /\ \A j \in 0..(n - 1) : g[j] = f[j]
        /\ g[n] = FoldStep(o, a, f, n)
        /\ g = [j \in 0..n |-> g[j]]
    OBVIOUS
  <2> HIDE DEF g
  <2>4. ASSUME NEW j \in 0..n PROVE g[j] = FoldStep(o, a, g, j)
    <3>1. j \in Nat /\ (j > 0 => f[j - 1] = g[j - 1])
      <4>1. \A k1 \in 0..(n - 1) : g[k1] = f[k1]
        BY <2>3
      <4>2. j \in Nat /\ (j > 0 => j - 1 \in 0..(n - 1))
        OBVIOUS
      <4> QED
        BY <4>1, <4>2
    <3>2. FoldStep(o, a, f, j) = FoldStep(o, a, g, j)
      <4>1. CASE j = 0
        BY <4>1 DEF FoldStep
      <4>2. CASE j > 0
        BY <3>1, <4>2 DEF FoldStep
      <4> QED
        BY <3>1, <4>1, <4>2
    <3>3. j = n => g[j] = FoldStep(o, a, f, j)
      BY <2>3
    <3>4. j # n => j \in 0..(n - 1)
      OBVIOUS
    <3>5. j # n => g[j] = FoldStep(o, a, f, j)
      BY <2>2, <2>3, <3>4
    <3> QED
      BY <3>2, <3>3, <3>5
  <2>5. FoldTable(g, o, a, n)
    BY <2>3, <2>4, Zenon DEF FoldTable
  <2> QED
    BY <2>5
<1> HIDE DEF P
<1>2. k \in P
  BY <1>1, NatSetInduction
<1> QED
  BY <1>2 DEF P

\* Two tables have the same values.
LEMMA FoldUnique ==
  ASSUME NEW o, NEW a, NEW k \in Nat, NEW n \in Nat,
         NEW f, FoldTable(f, o, a, k), NEW g, FoldTable(g, o, a, n),
         NEW h \in 0..k, h <= n
  PROVE  f[h] = g[h]
<1> DEFINE P == {m \in Nat : m <= k /\ m <= n => f[m] = g[m]}
<1>0. /\ \A j \in 0..k : f[j] = FoldStep(o, a, f, j)
      /\ \A j \in 0..n : g[j] = FoldStep(o, a, g, j)
  BY DEF FoldTable
<1>1. ASSUME NEW m \in Nat, \A j \in 0..(m - 1) : j \in P
      PROVE  m \in P
  <2> SUFFICES ASSUME m <= k, m <= n PROVE f[m] = g[m]
    OBVIOUS
  <2>1. m > 0 => m - 1 \in P
    BY <1>1
  <2>2. m > 0 => f[m - 1] = g[m - 1]
    BY <2>1
  <2>3. FoldStep(o, a, f, m) = FoldStep(o, a, g, m)
    BY <2>2, FoldStepAgrees
  <2> QED
    BY <1>0, <2>3
<1> HIDE DEF P
<1>2. h \in P
  BY <1>1, NatSetInduction
<1> QED
  BY <1>2 DEF P

\* The fold, one argument after the other.
LEMMA FoldedFacts ==
  ASSUME NEW o, NEW a, NEW k \in Nat
  PROVE  /\ FoldedOf(o, a, 0) = IF o \in {"+", "-"} THEN <<Zero, Zero>> ELSE <<One, Zero>>
         /\ TakesFirst(o, a) => FoldedOf(o, a, 1) = Value(a[1])
         /\ ~(k = 0 /\ TakesFirst(o, a)) =>
              FoldedOf(o, a, k + 1) = Apply(o, FoldedOf(o, a, k), Value(a[k + 1]))
<1> DEFINE T(m) == CHOOSE F : FoldTable(F, o, a, m)
<1>1. \A m \in Nat : FoldTable(T(m), o, a, m)
  BY FoldExists
<1>2. \A m \in Nat : FoldedOf(o, a, m) = T(m)[m]
  BY DEF FoldedOf, FoldTable
<1> HIDE DEF T
<1>3. \A m \in Nat : \A j \in 0..m : T(m)[j] = FoldStep(o, a, T(m), j)
  BY <1>1 DEF FoldTable
<1>4. T(0)[0] = FoldStep(o, a, T(0), 0) /\ T(1)[1] = FoldStep(o, a, T(1), 1)
  BY <1>3
<1>5. FoldedOf(o, a, 0) = IF o \in {"+", "-"} THEN <<Zero, Zero>> ELSE <<One, Zero>>
  BY <1>2, <1>4 DEF FoldStep
<1>6. TakesFirst(o, a) => FoldedOf(o, a, 1) = Value(a[1])
  BY <1>2, <1>4 DEF FoldStep, TakesFirst
<1>7. ASSUME ~(k = 0 /\ TakesFirst(o, a))
      PROVE  FoldedOf(o, a, k + 1) = Apply(o, FoldedOf(o, a, k), Value(a[k + 1]))
  <2>1. k + 1 \in Nat /\ k \in 0..(k + 1) /\ k <= k
    OBVIOUS
  <2>2. T(k + 1)[k] = T(k)[k]
    BY <1>1, <2>1, FoldUnique
  <2>3. T(k + 1)[k + 1] = FoldStep(o, a, T(k + 1), k + 1)
    BY <1>3, <2>1
  <2>4. k + 1 # 0 /\ (k + 1) - 1 = k /\ (k + 1 = 1 => k = 0)
    OBVIOUS
  <2>5. FoldStep(o, a, T(k + 1), k + 1) = Apply(o, T(k + 1)[k], Value(a[k + 1]))
    BY <1>7, <2>4 DEF FoldStep, TakesFirst
  <2> QED
    BY <1>2, <2>1, <2>2, <2>3, <2>5
<1> QED
  BY <1>5, <1>6, <1>7
\* The fold so far is right: what the loop of _arith keeps.
Sound(o, a, k, z) ==
  ~Spoilt(z) => /\ new_number(0) \notin DivisorsOf(o, a, k)
                /\ NegatableOf(o, a, k) => Value(z) = FoldedOf(o, a, k)

\* What _arith starts from.
LEMMA SoundStart ==
  ASSUME NEW o \in ArithOp, NEW a, NEW k, NEW z,
         TakesFirst(o, a) => k = 1 /\ z = a[1],
         ~TakesFirst(o, a) => k = 0 /\ z = IF o \in {"+", "-"} THEN new_number(0) ELSE new_number(1)
  PROVE  Sound(o, a, k, z)
<1>1. Value(new_number(0)) = <<Zero, Zero>> /\ Value(new_number(1)) = <<One, Zero>>
  BY DEF Value, Frac, new_number, Complex, Small, Rational, Zero, One
<1>2. CASE TakesFirst(o, a)
  <2>1. DivisorsOf(o, a, k) = {}
    BY <1>2 DEF DivisorsOf, TakesFirst
  <2>2. FoldedOf(o, a, k) = Value(z)
    BY <1>2, FoldedFacts
  <2> QED
    BY <2>1, <2>2 DEF Sound
<1>3. CASE ~TakesFirst(o, a)
  <2>1. o = "/" => ~(Len(a) > 1)
    BY <1>3 DEF TakesFirst
  <2>2. DivisorsOf(o, a, k) = {}
    BY <1>3, <2>1 DEF DivisorsOf
  <2>3. FoldedOf(o, a, k) = Value(z)
    BY <1>1, <1>3, FoldedFacts
  <2> QED
    BY <2>2, <2>3 DEF Sound
<1> QED
  BY <1>2, <1>3

\* What a step of the loop divides by.
LEMMA DivisorsStep ==
  ASSUME NEW o, NEW a, NEW k \in Nat, TakesFirst(o, a) => k > 0
  PROVE  DivisorsOf(o, a, k + 1) =
           DivisorsOf(o, a, k) \cup (IF o = "/" THEN {a[k + 1]} ELSE {})
<1>1. CASE o = "/"
  <2> DEFINE b == IF Len(a) > 1 THEN 2 ELSE 1
  <2>1. b \in Nat /\ b <= k + 1
    BY <1>1 DEF TakesFirst
  <2> HIDE DEF b
  <2>2. b..(k + 1) = (b..k) \cup {k + 1}
    BY <2>1
  <2>3. {a[j] : j \in b..(k + 1)} = {a[j] : j \in b..k} \cup {a[k + 1]}
    BY <2>2
  <2> QED
    BY <1>1, <2>3 DEF DivisorsOf, b
<1>2. CASE o # "/"
  BY <1>2 DEF DivisorsOf
<1> QED
  BY <1>1, <1>2

\* A step of the loop, to a number or to a trap.
LEMMA SoundStep ==
  ASSUME NEW o \in ArithOp, NEW a, NEW k \in Nat, TakesFirst(o, a) => k > 0,
         NEW z, Running(z), Sound(o, a, k, z), NEW w, w = a[k + 1], StandardNumber(w)
  PROVE  /\ FineNumber(arith2(o, z, w))
         /\ Trap \notin {arith2(o, z, w).re, arith2(o, z, w).im} =>
              Running(arith2(o, z, w)) /\ Sound(o, a, k + 1, arith2(o, z, w))
         /\ Trap \in {arith2(o, z, w).re, arith2(o, z, w).im} =>
              \/ w = new_number(0)
              \/ /\ w = new_number(-1)
                 /\ NegatableOf(o, a, k + 1) => FoldedOf(o, a, k) = <<<<-H, 1>>, Zero>>
<1> DEFINE t == arith2(o, z, w)
<1>1. Outcome(o, z, w, t)
  BY Arith2Outcome
<1>2. NegatableOf(o, a, k + 1) => NegatableOf(o, a, k) /\ (o = "/" => w.im # Small(-H))
  BY DivisorsStep DEF NegatableOf
<1>3. /\ new_number(0) \notin DivisorsOf(o, a, k) /\ ~(o = "/" /\ w = new_number(0))
           => new_number(0) \notin DivisorsOf(o, a, k + 1)
  BY DivisorsStep
<1>4. FoldedOf(o, a, k + 1) = Apply(o, FoldedOf(o, a, k), Value(w))
  BY FoldedFacts
<1> HIDE DEF t
<1>5. ASSUME Trap \notin {t.re, t.im}
      PROVE  Running(t) /\ Sound(o, a, k + 1, t)
  <2>1. Running(t)
    BY <1>1, <1>5 DEF Outcome, Running
  <2> SUFFICES ASSUME ~Spoilt(t)
               PROVE  /\ new_number(0) \notin DivisorsOf(o, a, k + 1)
                      /\ NegatableOf(o, a, k + 1) => Value(t) = FoldedOf(o, a, k + 1)
    BY <2>1 DEF Sound
  <2>2. StandardNumber(t) /\ ~Spoilt(z)
    BY <1>1, <1>5, <2>1, RunningFacts DEF Outcome
  <2>3. /\ new_number(0) \notin DivisorsOf(o, a, k)
        /\ NegatableOf(o, a, k) => Value(z) = FoldedOf(o, a, k)
    BY <2>2 DEF Sound
  <2>4. new_number(0) \notin DivisorsOf(o, a, k + 1)
    BY <1>1, <1>3, <2>2, <2>3 DEF Outcome
  <2>5. ASSUME NegatableOf(o, a, k + 1) PROVE Value(t) = FoldedOf(o, a, k + 1)
    <3>1. Value(t) = Apply(o, Value(z), Value(w))
      BY <1>1, <1>2, <2>2, <2>5 DEF Outcome
    <3> QED
      BY <1>2, <1>4, <2>3, <2>5, <3>1
  <2> QED
    BY <2>4, <2>5
<1>6. ASSUME Trap \in {t.re, t.im}, w # new_number(0)
      PROVE  /\ w = new_number(-1)
             /\ NegatableOf(o, a, k + 1) => FoldedOf(o, a, k) = <<<<-H, 1>>, Zero>>
  <2>1. z = new_number(-H) /\ w = new_number(-1)
    BY <1>1, <1>6 DEF Outcome
  <2>2. ~Spoilt(z)
    BY <2>1 DEF Spoilt, new_number, Complex, Small, Rational, Undefined
  <2>3. Value(z) = <<<<-H, 1>>, Zero>>
    BY <2>1 DEF Value, Frac, new_number, Complex, Small, Rational, Zero
  <2> QED
    BY <1>2, <2>1, <2>2, <2>3 DEF Sound
<1>7. FineNumber(t)
  BY <1>1 DEF Outcome
<1> QED
  BY <1>5, <1>6, <1>7 DEF t

-----------------------------------------------------------------------------

(***************************************************************************)
(* The inductive invariant of the calls of + - * /.                          *)
(***************************************************************************)
ArithInv ==
  /\ TypeOK
  /\ op \in OrderOp => pc # "trap"
  /\ op \in ArithOp =>
       /\ FineNumber(ret)
       /\ pc # "trap" => Running(ret)
       /\ pc \in {"loop", "done"} =>
            /\ TakesFirst(op, args) => i > 0
            /\ Sound(op, args, i, ret)
       /\ pc = "trap" =>
            /\ i > 0
            /\ \/ args[i] = new_number(0)
               \/ /\ args[i] = new_number(-1)
                  /\ NegatableOf(op, args, i) =>
                       FoldedOf(op, args, i - 1) = <<<<-H, 1>>, Zero>>
\* An argument that is a number is standard.
LEMMA ArgumentFacts ==
  ASSUME NEW a \in ArgLists
  PROVE  /\ Len(a) \in Nat
         /\ \A j \in 1..Len(a) : number_p(a[j]) => StandardNumber(a[j])
<1>1. a \in Seq({NotNumber} \cup NumberObject)
  BY ArithAssumption
<1>2. Len(a) \in Nat /\ \A j \in 1..Len(a) : a[j] \in {NotNumber} \cup NumberObject
  BY <1>1, SeqFacts
<1>3. ASSUME NEW j \in 1..Len(a), number_p(a[j]) PROVE StandardNumber(a[j])
  <2>1. a[j] \in NumberObject /\ Canonical(a[j].re) /\ Canonical(a[j].im)
    BY <1>2, <1>3, ArithAssumption DEF number_p
  <2>2. a[j].re \in Part /\ a[j].im \in Part
    BY <2>1 DEF NumberObject
  <2> QED
    BY <2>1, <2>2 DEF StandardNumber, Standard
<1> QED
  BY <1>2, <1>3

\* The parts of a standard number are no faults.
LEMMA StandardRuns ==
  /\ \A z : StandardNumber(z) => Running(z) /\ ~Spoilt(z) /\ z \in NumberObject
  /\ StandardNumber(new_number(0)) /\ StandardNumber(new_number(1))
<1>1. ASSUME NEW z, StandardNumber(z)
      PROVE  Running(z) /\ ~Spoilt(z) /\ z \in NumberObject
  BY <1>1, FaultyFacts DEF StandardNumber, Running, FineNumber, Fine, Spoilt
<1>2. ASSUME NEW v \in {0, 1} PROVE StandardNumber(new_number(v))
  <2>1. Standard(Small(0)) /\ Standard(Small(1)) /\ Small(0) \in Part /\ Small(1) \in Part
    BY FaultyFacts DEF Fine
  <2>2. new_number(v).re = Small(v) /\ new_number(v).im = Small(0)
    BY DEF new_number, Complex
  <2>3. new_number(v) \in NumberObject
    BY <2>1 DEF new_number, Complex, NumberObject
  <2> QED
    BY <2>1, <2>2, <2>3 DEF StandardNumber
<1> QED
  BY <1>1, <1>2

\* Every call begins in the invariant.
LEMMA ArithInit ==
  ASSUME Init
  PROVE  ArithInv
<1>1. op \in ArithOp \cup OrderOp /\ args \in ArgLists /\ pc = "call" /\ i = 0
  BY DEF Init
<1>2. i \in 0..Len(args)
  BY <1>1, ArgumentFacts
<1>3. op \in OrderOp => op \notin ArithOp
  BY DEF ArithOp, OrderOp
<1>4. IF op \in OrderOp THEN ret = TRUE ELSE ret = new_number(0)
  BY DEF Init
<1>5. TypeOK
  BY <1>1, <1>2, <1>4, StandardRuns DEF TypeOK
<1>6. op \in ArithOp => FineNumber(ret) /\ Running(ret)
  BY <1>3, <1>4, StandardRuns DEF Running
<1> QED
  BY <1>1, <1>5, <1>6 DEF ArithInv

\* The call and the arguments do not change.
LEMMA CallStays ==
  ASSUME Next
  PROVE  op' = op /\ args' = args
  BY DEF Next, StartArith, StepArith, StartOrder, StepOrder, Return, Fail

\* lsrt_error keeps what was there.
LEMMA FailKeeps ==
  ASSUME ArithInv, Fail, pc # "trap"
  PROVE  ArithInv'
<1>1. /\ pc' = "error" /\ op' = op /\ args' = args /\ i' = i /\ ret' = ret
  BY DEF Fail
<1>2. TypeOK'
  BY <1>1 DEF ArithInv, TypeOK
<1>3. op \in ArithOp => FineNumber(ret) /\ Running(ret)
  BY DEF ArithInv
<1> QED
  BY <1>1, <1>2, <1>3 DEF ArithInv

\* What _arith does before its loop keeps the invariant.
LEMMA StartArithKeeps ==
  ASSUME ArithInv, StartArith
  PROVE  ArithInv'
<1> DEFINE first == op \in {"-", "/"} /\ Len(args) > 1
<1>1. /\ op \in ArithOp /\ op' = op /\ args' = args /\ args \in ArgLists
      /\ Len(args) \in Nat /\ pc = "call"
  BY ArgumentFacts DEF StartArith, Fail, ArithInv, TypeOK
<1>2. CASE Fail
  BY <1>1, <1>2, FailKeeps
<1>3. CASE ~Fail
  <2>1. /\ ~(op \in {"-", "/"} /\ (Len(args) = 0 \/ (first /\ ~number_p(args[1]))))
        /\ pc' = "loop" /\ i' = IF first THEN 1 ELSE 0
    BY <1>3 DEF StartArith
  <2>2. first <=> TakesFirst(op, args)
    BY DEF TakesFirst
  <2>3. ret' = CASE first -> args[1]
                 [] ~first /\ op \in {"+", "-"} -> new_number(0)
                 [] ~first /\ op \in {"*", "/"} -> new_number(1)
    BY <1>3 DEF StartArith
  <2>4. CASE first
    <3>1. ret' = args[1] /\ i' = 1
      BY <2>1, <2>3, <2>4
    <3>2. StandardNumber(args[1])
      BY <1>1, <2>1, <2>4, ArgumentFacts
    <3>3. Running(ret') /\ FineNumber(ret') /\ ret' \in NumberObject
      BY <3>1, <3>2, StandardRuns DEF Running
    <3>4. Sound(op, args, i', ret')
      BY <1>1, <2>2, <2>4, <3>1, SoundStart
    <3>5. TypeOK'
      BY <1>1, <2>1, <2>4, <3>1, <3>3 DEF TypeOK
    <3>6. op \notin OrderOp
      BY <1>1 DEF ArithOp, OrderOp
    <3> QED
      BY <1>1, <2>1, <3>1, <3>3, <3>4, <3>5, <3>6 DEF ArithInv
  <2>5. CASE ~first
    <3>1. i' = 0 /\ ret' = IF op \in {"+", "-"} THEN new_number(0) ELSE new_number(1)
      <4>1. op \in {"+", "-"} \/ op \in {"*", "/"}
        BY <1>1 DEF ArithOp
      <4>2. i' = 0
        BY <2>1, <2>5
      <4> HIDE DEF first
      <4>3. op \in {"+", "-"} => op \notin {"*", "/"}
        OBVIOUS
      <4> QED
        BY <2>3, <2>5, <4>1, <4>2, <4>3
    <3>3. Running(ret') /\ FineNumber(ret') /\ ret' \in NumberObject
      BY <3>1, StandardRuns DEF Running
    <3>4. Sound(op, args, i', ret')
      BY <1>1, <2>2, <2>5, <3>1, SoundStart
    <3>5. TypeOK'
      BY <1>1, <2>1, <3>1, <3>3 DEF TypeOK
    <3>6. op \notin OrderOp
      BY <1>1 DEF ArithOp, OrderOp
    <3> QED
      BY <1>1, <2>1, <2>2, <2>5, <3>1, <3>3, <3>4, <3>5, <3>6 DEF ArithInv
  <2> QED
    BY <2>4, <2>5
<1> QED
  BY <1>2, <1>3

\* A turn of the loop of _arith keeps it, whether it ends in a number or a trap.
LEMMA StepArithKeeps ==
  ASSUME ArithInv, StepArith
  PROVE  ArithInv'
<1>1. /\ op \in ArithOp /\ op' = op /\ args' = args /\ args \in ArgLists
      /\ Len(args) \in Nat /\ i \in 0..Len(args) /\ i < Len(args) /\ pc = "loop"
  BY ArgumentFacts DEF StepArith, Fail, ArithInv, TypeOK
<1>2. CASE Fail
  BY <1>1, <1>2, FailKeeps
<1>3. CASE ~Fail
  <2> DEFINE w == args[i + 1]
             t == arith2(op, ret, w)
  <2>1. /\ number_p(w) /\ ret' = t /\ i' = i + 1
        /\ pc' = IF Trap \in {ret'.re, ret'.im} THEN "trap" ELSE "loop"
    BY <1>3 DEF StepArith
  <2>2. StandardNumber(w)
    BY <1>1, <2>1, ArgumentFacts
  <2>3. Running(ret) /\ (TakesFirst(op, args) => i > 0) /\ Sound(op, args, i, ret)
    BY <1>1 DEF ArithInv
  <2>0. i \in Nat /\ w = args[i + 1]
    BY <1>1
  <2> HIDE DEF w
  <2>4. /\ FineNumber(t)
        /\ Trap \notin {t.re, t.im} => Running(t) /\ Sound(op, args, i + 1, t)
        /\ Trap \in {t.re, t.im} =>
             \/ w = new_number(0)
             \/ /\ w = new_number(-1)
                /\ NegatableOf(op, args, i + 1) => FoldedOf(op, args, i) = <<<<-H, 1>>, Zero>>
    BY <1>1, <2>0, <2>2, <2>3, SoundStep
  <2> HIDE DEF t
  <2>5. i' \in 0..Len(args) /\ i' > 0 /\ i' - 1 = i
    BY <1>1, <2>1
  <2>6. TypeOK'
    BY <1>1, <2>1, <2>4, <2>5 DEF TypeOK, FineNumber
  <2>7. op \notin OrderOp
    BY <1>1 DEF ArithOp, OrderOp
  <2>8. CASE Trap \in {t.re, t.im}
    <3>1. pc' = "trap"
      BY <2>1, <2>8
    <3>2. \/ args[i'] = new_number(0)
          \/ /\ args[i'] = new_number(-1)
             /\ NegatableOf(op, args, i') => FoldedOf(op, args, i' - 1) = <<<<-H, 1>>, Zero>>
      BY <2>0, <2>1, <2>4, <2>5, <2>8
    <3> QED
      BY <1>1, <2>1, <2>4, <2>5, <2>6, <2>7, <3>1, <3>2 DEF ArithInv
  <2>9. CASE Trap \notin {t.re, t.im}
    <3>1. pc' = "loop" /\ Running(ret') /\ Sound(op, args, i', ret')
      BY <2>1, <2>4, <2>9
    <3> QED
      BY <1>1, <2>1, <2>4, <2>5, <2>6, <2>7, <3>1 DEF ArithInv
  <2> QED
    BY <2>8, <2>9
<1> QED
  BY <1>2, <1>3

\* A comparison yields a truth value.
LEMMA HoldsBoolean ==
  ASSUME op \in OrderOp, NEW r
  PROVE  Holds(r) \in BOOLEAN
<1>1. CASE op = "="
  BY <1>1 DEF Holds
<1>2. CASE op = "<"
  BY <1>2 DEF Holds
<1>3. CASE op = ">"
  BY <1>3 DEF Holds
<1>4. CASE op = "l"
  BY <1>4 DEF Holds
<1>5. CASE op = "g"
  BY <1>5 DEF Holds
<1> QED
  BY <1>1, <1>2, <1>3, <1>4, <1>5 DEF OrderOp

\* Every step keeps the invariant.
LEMMA ArithNext ==
  ASSUME ArithInv, [Next]_vars
  PROVE  ArithInv'
<1>1. CASE StartArith
  BY <1>1, StartArithKeeps
<1>2. CASE StepArith
  BY <1>2, StepArithKeeps
<1>3. CASE StartOrder \/ StepOrder
  <2>1. CASE Fail
    <3>1. pc # "trap"
      BY <1>3 DEF StartOrder, StepOrder
    <3> QED
      BY <2>1, <3>1, FailKeeps
  <2>2. CASE ~Fail
    <3>1. /\ op \in OrderOp /\ op' = op /\ args' = args /\ args \in ArgLists
          /\ Len(args) \in Nat /\ i \in 0..Len(args) /\ ret \in BOOLEAN
      <4>1. op \notin ArithOp
        BY <1>3 DEF StartOrder, StepOrder, ArithOp, OrderOp
      <4> QED
        BY <1>3, <4>1, ArgumentFacts DEF StartOrder, StepOrder, Fail, ArithInv, TypeOK
    <3>2. pc' \in {"loop", "done"} /\ i' \in 0..Len(args)
      BY <1>3, <2>2, <3>1 DEF StartOrder, StepOrder
    <3>3. ret' \in BOOLEAN
      <4>1. CASE StartOrder
        BY <2>2, <3>1, <4>1 DEF StartOrder
      <4>2. CASE StepOrder
        <5>2. \E r \in re_order2(args[i].re, args[i + 1].re),
                 m \in re_order2(args[i].im, args[i + 1].im) :
                ret' = Holds(IF op = "=" /\ r = 0 THEN m ELSE r)
          BY <2>2, <4>2 DEF StepOrder
        <5> QED
          BY <3>1, <5>2, HoldsBoolean, Zenon
      <4> QED
        BY <1>3, <4>1, <4>2
    <3>4. TypeOK'
      BY <3>1, <3>2, <3>3 DEF TypeOK
    <3>5. op \notin ArithOp
      BY <3>1 DEF ArithOp, OrderOp
    <3> QED
      BY <3>1, <3>2, <3>4, <3>5 DEF ArithInv
  <2> QED
    BY <2>1, <2>2
<1>4. CASE Return
  <2>1. pc = "loop" /\ pc' = "done" /\ op' = op /\ args' = args /\ i' = i /\ ret' = ret
    BY <1>4 DEF Return
  <2>2. TypeOK'
    BY <2>1 DEF ArithInv, TypeOK
  <2> QED
    BY <2>1, <2>2 DEF ArithInv
<1>5. CASE UNCHANGED vars
  <2>1. pc' = pc /\ op' = op /\ args' = args /\ i' = i /\ ret' = ret
    BY <1>5 DEF vars
  <2>2. TypeOK'
    BY <2>1 DEF ArithInv, TypeOK
  <2> QED
    BY <2>1, <2>2 DEF ArithInv
<1> QED
  BY <1>1, <1>2, <1>3, <1>4, <1>5 DEF Next

\* The invariant of _arith holds in every call.
LEMMA AlwaysArithInv == Spec => []ArithInv
<1>1. Init => ArithInv
  BY ArithInit
<1>2. ArithInv /\ [Next]_vars => ArithInv'
  BY ArithNext
<1> QED
  BY <1>1, <1>2, PTL DEF Spec

\* The state of a call is of its type: ret is a number object, or a truth value.
THEOREM ArithTypes == Spec => []TypeOK
<1>1. ArithInv => TypeOK
  BY DEF ArithInv
<1> QED
  BY <1>1, AlwaysArithInv, PTL

(***************************************************************************)
(* Whatever _arith builds is in its smallest representation, at every step,  *)
(* for ints of every width and any number of arguments.                      *)
(***************************************************************************)
THEOREM ResultsCanonical == Spec => []CanonicalResult
<1>1. ArithInv => CanonicalResult
  BY RunningFacts DEF ArithInv, CanonicalResult, Garbled, Spoilt, StandardNumber, Standard
<1> QED
  BY <1>1, AlwaysArithInv, PTL

(***************************************************************************)
(* + - * / are exact: the number built from the first i arguments is their   *)
(* sum, difference, product or quotient as complex numbers of fractions,     *)
(* however it was promoted and demoted on the way.                           *)
(***************************************************************************)
THEOREM ArithExact == Spec => []Exact
<1>1. ASSUME ArithInv PROVE Exact
  <2> SUFFICES ASSUME op \in ArithOp, pc \in {"loop", "done"}, ~Garbled, Negatable
               PROVE  Value(ret) = Folded(i)
    BY DEF Exact
  <2>1. Sound(op, args, i, ret) /\ ~Spoilt(ret) /\ i \in Nat
    BY <1>1, ArgumentFacts DEF ArithInv, TypeOK, Garbled, Spoilt
  <2> QED
    BY <2>1, FoldedIs, DivisorsAre DEF Sound
<1> QED
  BY <1>1, AlwaysArithInv, PTL

(***************************************************************************)
(* Dividing by zero never yields a number, and what stops the process is a   *)
(* division by 0, or of -H by -1.                                            *)
(***************************************************************************)
THEOREM DivisorsChecked == Spec => []ZeroDivisorTraps
<1>1. ASSUME ArithInv PROVE ZeroDivisorTraps
  <2>1. args \in ArgLists /\ i \in 0..Len(args) /\ Len(args) \in Nat
    BY <1>1, ArgumentFacts DEF ArithInv, TypeOK
  <2>2. ASSUME pc \in {"loop", "done"}, op \in ArithOp, ~Garbled
        PROVE  new_number(0) \notin Divisors
    <3>1. Sound(op, args, i, ret) /\ ~Spoilt(ret)
      BY <1>1, <2>2 DEF ArithInv, Garbled, Spoilt
    <3> QED
      BY <3>1, DivisorsAre DEF Sound
  <2>3. ASSUME pc = "trap", args[i] # new_number(0)
        PROVE  args[i] = new_number(-1) /\ (Negatable => Folded(i - 1) = <<<<-H, 1>>, Zero>>)
    <3>1. op \in ArithOp
      BY <1>1, <2>3 DEF ArithInv, TypeOK
    <3>2. /\ i > 0 /\ args[i] = new_number(-1)
          /\ NegatableOf(op, args, i) => FoldedOf(op, args, i - 1) = <<<<-H, 1>>, Zero>>
      BY <1>1, <2>3, <3>1 DEF ArithInv
    <3>3. i - 1 \in Nat
      BY <2>1, <3>2
    <3> QED
      BY <3>2, <3>3, FoldedIs, DivisorsAre
  <2> QED
    BY <2>2, <2>3 DEF ZeroDivisorTraps
<1> QED
  BY <1>1, AlwaysArithInv, PTL

-----------------------------------------------------------------------------

(***************************************************************************)
(* _re_order2 says whether two numbers are equal; and which one is less,     *)
(* unless both are ints whose difference is none.                           *)
(***************************************************************************)
LEMMA OrderFacts ==
  ASSUME NEW x, Standard(x), NEW y, Standard(y), NEW r \in re_order2(x, y)
  PROVE  /\ r \in Int
         /\ r = 0 <=> Frac(x) = Frac(y)
         /\ (x.type = 0 /\ y.type = 0 => x.num - y.num \in Int32) =>
              /\ r < 0 <=> Less(Frac(x), Frac(y))
              /\ r > 0 <=> Less(Frac(y), Frac(x))
<1> DEFINE u == x.num * y.den
           v == y.num * x.den
<1>1. /\ x.type \in Int /\ x.num \in Int /\ x.den \in Int /\ x.den > 0
      /\ y.type \in Int /\ y.num \in Int /\ y.den \in Int /\ y.den > 0
      /\ Whole(x) /\ Whole(y)
  BY StandardWhole, WholeParts
<1>2. u \in Int /\ v \in Int
  BY <1>1
<1>3. Frac(x) = Frac(y) <=> u = v
  <2>1. Frac(x) \in Reduced /\ Frac(y) \in Reduced
    BY <1>1 DEF Whole
  <2> QED
    BY <2>1, CrossEqual DEF Frac
<1>4. /\ Less(Frac(x), Frac(y)) <=> u < v
      /\ Less(Frac(y), Frac(x)) <=> v < u
  BY DEF Less, Frac
<1>5. CASE x.type = 0 /\ y.type = 0
  <2>1. x.num \in Int32 /\ y.num \in Int32 /\ x.den = 1 /\ y.den = 1
    BY <1>1, <1>5 DEF Whole
  <2>2. u = x.num /\ v = y.num
    BY <1>1, <2>1
  <2>3. r \in DifferenceSigns(x.num, y.num)
    BY <1>5 DEF re_order2
  <2>4. /\ r = 0 <=> x.num = y.num
        /\ x.num - y.num \in Int32 => r = Sgn(x.num - y.num)
    BY <2>1, <2>3, DifferenceSignFacts
  <2>5. r \in Int
    BY <2>3 DEF DifferenceSigns, Sgn
  <2> HIDE DEF u, v
  <2> QED
    BY <1>1, <1>2, <1>3, <1>4, <1>5, <2>2, <2>4, <2>5 DEF Sgn
<1>6. CASE /\ ~(x.type = 0 /\ y.type = 0)
           /\ {x.type, y.type} = {1, 2} /\ Sgn(x.num) # Sgn(y.num)
  <2>1. r = IF Sgn(x.num) > Sgn(y.num) THEN 1 ELSE -1
    BY <1>6 DEF re_order2
  <2>2. Sgn(x.num) > Sgn(y.num) => u > v
    <3>1. x.num > 0 => u > 0
      BY <1>1
    <3>2. x.num = 0 => u = 0
      BY <1>1
    <3>3. y.num < 0 => v < 0
      BY <1>1
    <3>4. y.num = 0 => v = 0
      BY <1>1
    <3> HIDE DEF u, v
    <3> QED
      BY <1>1, <1>2, <3>1, <3>2, <3>3, <3>4 DEF Sgn
  <2>3. Sgn(x.num) < Sgn(y.num) => u < v
    <3>1. y.num > 0 => v > 0
      BY <1>1
    <3>2. x.num = 0 => u = 0
      BY <1>1
    <3>3. x.num < 0 => u < 0
      BY <1>1
    <3>4. y.num = 0 => v = 0
      BY <1>1
    <3> HIDE DEF u, v
    <3> QED
      BY <1>1, <1>2, <3>1, <3>2, <3>3, <3>4 DEF Sgn
  <2>4. Sgn(x.num) \in Int /\ Sgn(y.num) \in Int
    BY <1>1 DEF Sgn
  <2> HIDE DEF u, v
  <2>5. \/ r = 1 /\ u > v
        \/ r = -1 /\ u < v
    BY <1>6, <2>1, <2>2, <2>3, <2>4
  <2> QED
    BY <1>2, <1>3, <1>4, <2>5
<1>7. CASE /\ ~(x.type = 0 /\ y.type = 0)
           /\ ~({x.type, y.type} = {1, 2} /\ Sgn(x.num) # Sgn(y.num))
  <2>1. r = Sgn(u - v)
    BY <1>7 DEF re_order2, Compare
  <2> HIDE DEF u, v
  <2> QED
    BY <1>2, <1>3, <1>4, <2>1 DEF Sgn
<1> QED
  BY <1>5, <1>6, <1>7

\* A pair of neighbours passes exactly when the values are related.
LEMMA RelatedFacts ==
  ASSUME op \in OrderOp, NEW x, StandardNumber(x), NEW y, StandardNumber(y),
         op = "=" \/ Close(x, y),
         NEW r \in re_order2(x.re, y.re), NEW m \in re_order2(x.im, y.im)
  PROVE  Holds(IF op = "=" /\ r = 0 THEN m ELSE r) <=> Related(x, y)
<1>1. /\ Standard(x.re) /\ Standard(y.re) /\ Standard(x.im) /\ Standard(y.im)
  BY DEF StandardNumber
<1>2. /\ r \in Int /\ (r = 0 <=> Frac(x.re) = Frac(y.re))
      /\ m \in Int /\ (m = 0 <=> Frac(x.im) = Frac(y.im))
  BY <1>1, OrderFacts
<1>3. CASE op = "="
  <2>1. Related(x, y) <=> Frac(x.re) = Frac(y.re) /\ Frac(x.im) = Frac(y.im)
    BY <1>3 DEF Related, Value
  <2>2. Holds(IF op = "=" /\ r = 0 THEN m ELSE r) <=> r = 0 /\ m = 0
    BY <1>3, <1>2 DEF Holds
  <2> QED
    BY <1>2, <2>1, <2>2
<1>4. CASE op # "="
  <2> DEFINE below == Less(Frac(x.re), Frac(y.re))
             above == Less(Frac(y.re), Frac(x.re))
  <2>1. (r < 0 <=> below) /\ (r > 0 <=> above)
    BY <1>1, <1>4, OrderFacts DEF Close
  <2>2. Holds(IF op = "=" /\ r = 0 THEN m ELSE r) <=> Holds(r)
    BY <1>4
  <2>3. CASE op = "<"
    <3>1. (Related(x, y) <=> below) /\ (Holds(r) <=> r < 0)
      BY <2>3 DEF Related, Holds
    <3> QED
      BY <2>1, <2>2, <3>1
  <2>4. CASE op = ">"
    <3>1. (Related(x, y) <=> above) /\ (Holds(r) <=> r > 0)
      BY <2>4 DEF Related, Holds
    <3> QED
      BY <2>1, <2>2, <3>1
  <2>5. CASE op = "l"
    <3>1. (Related(x, y) <=> ~above) /\ (Holds(r) <=> r <= 0)
      BY <2>5 DEF Related, Holds
    <3>2. r <= 0 <=> ~(r > 0)
      BY <1>2
    <3> QED
      BY <2>1, <2>2, <3>1, <3>2
  <2>6. CASE op = "g"
    <3>1. (Related(x, y) <=> ~below) /\ (Holds(r) <=> r >= 0)
      BY <2>6 DEF Related, Holds
    <3>2. r >= 0 <=> ~(r < 0)
      BY <1>2
    <3> QED
      BY <2>1, <2>2, <3>1, <3>2
  <2> QED
    BY <1>4, <2>3, <2>4, <2>5, <2>6 DEF OrderOp
<1> QED
  BY <1>3, <1>4

(***************************************************************************)
(* The inductive invariant of the comparisons: the loop only goes on while   *)
(* every pair has passed.                                                   *)
(***************************************************************************)
PairsClose == op = "=" \/ \A j \in 2..i : Close(args[j - 1], args[j])

OrderInv ==
  op \in OrderOp =>
    /\ pc = "call" => ret = TRUE
    /\ pc \in {"loop", "done"} =>
         /\ \A j \in 1..i : number_p(args[j])
         /\ pc = "loop" => ret = TRUE /\ i > 0
         /\ PairsClose => (ret <=> \A j \in 2..i : Related(args[j - 1], args[j]))
         /\ pc = "done" /\ ret => i = Len(args)
\* What _order does before its loop.
LEMMA OrderStartKeeps ==
  ASSUME TypeOK, OrderInv, StartOrder
  PROVE  OrderInv'
<1>1. /\ op \in OrderOp /\ op' = op /\ args' = args /\ ret' = ret /\ pc = "call"
      /\ args \in ArgLists /\ Len(args) \in Nat
  BY ArgumentFacts DEF StartOrder, Fail, TypeOK
<1>2. ret = TRUE
  BY <1>1 DEF OrderInv
<1>3. CASE Fail
  BY <1>3 DEF Fail, OrderInv
<1>4. CASE ~Fail
  <2>1. /\ ~(Len(args) > 0 /\ ~Ordered(args[1]))
        /\ pc' = IF Len(args) = 0 THEN "done" ELSE "loop"
        /\ i' = IF Len(args) = 0 THEN 0 ELSE 1
    BY <1>4 DEF StartOrder
  <2>2. i' \in 0..1 /\ \A j \in 2..i' : FALSE
    BY <2>1
  <2>3. \A j \in 1..i' : number_p(args[j])
    BY <1>1, <2>1 DEF Ordered
  <2>4. pc' = "loop" => i' > 0
    BY <2>1
  <2>5. pc' = "done" => i' = Len(args)
    BY <1>1, <2>1
  <2>6. pc' # "call"
    BY <2>1
  <2> QED
    BY <1>1, <1>2, <2>2, <2>3, <2>4, <2>5, <2>6 DEF OrderInv
<1> QED
  BY <1>3, <1>4

\* A turn of the loop of _order: ret says whether all pairs so far are related.
LEMMA OrderStepKeeps ==
  ASSUME TypeOK, OrderInv, StepOrder
  PROVE  OrderInv'
<1>1. /\ op \in OrderOp /\ op' = op /\ args' = args /\ pc = "loop"
      /\ args \in ArgLists /\ Len(args) \in Nat /\ i \in 0..Len(args) /\ i < Len(args)
  BY ArgumentFacts DEF StepOrder, Fail, TypeOK
<1>2. /\ ret = TRUE /\ i > 0 /\ \A j \in 1..i : number_p(args[j])
      /\ PairsClose => \A j \in 2..i : Related(args[j - 1], args[j])
  BY <1>1 DEF OrderInv
<1>3. CASE Fail
  BY <1>3 DEF Fail, OrderInv
<1>4. CASE ~Fail
  <2>1. /\ Ordered(args[i + 1]) /\ i' = i + 1
        /\ pc' = IF ret' THEN "loop" ELSE "done"
    BY <1>4 DEF StepOrder
  <2>2. \E r \in re_order2(args[i].re, args[i + 1].re),
           m \in re_order2(args[i].im, args[i + 1].im) :
          ret' = Holds(IF op = "=" /\ r = 0 THEN m ELSE r)
    BY <1>4 DEF StepOrder
  <2>3. \A j \in 1..i' : number_p(args[j])
    BY <1>1, <1>2, <2>1 DEF Ordered
  <2>4. /\ i \in 1..Len(args) /\ i + 1 \in 1..Len(args) /\ i' = i + 1
        /\ i \in 1..i' /\ i + 1 \in 1..i' /\ i' > 0
    BY <1>1, <1>2, <2>1
  <2>5. StandardNumber(args[i]) /\ StandardNumber(args[i + 1])
    BY <1>1, <2>3, <2>4, ArgumentFacts
  <2>6. 2..i' = (2..i) \cup {i + 1} /\ (i + 1) - 1 = i
    BY <1>1, <1>2, <2>1
  <2>7. PairsClose' => PairsClose /\ (op = "=" \/ Close(args[i], args[i + 1]))
    BY <1>1, <2>6 DEF PairsClose, Close
  <2>8. PairsClose' => (ret' <=> Related(args[i], args[i + 1]))
    BY <1>1, <2>2, <2>5, <2>7, RelatedFacts
  <2>9. PairsClose' => (ret' <=> \A j \in 2..i' : Related(args[j - 1], args[j]))
    BY <1>2, <2>6, <2>7, <2>8
  <2>10. ret' \in BOOLEAN
    BY <2>2, HoldsBoolean, <1>1
  <2>11. /\ pc' # "call"
         /\ pc' = "loop" => ret' = TRUE
         /\ pc' = "done" => ~ret'
    BY <2>1, <2>10
  <2>12. \A j \in 2..i' : Related(args[j - 1], args[j])' <=> Related(args[j - 1], args[j])
    BY <1>1 DEF Related
  <2> QED
    BY <1>1, <2>3, <2>4, <2>9, <2>11, <2>12 DEF OrderInv
<1> QED
  BY <1>3, <1>4

\* Every step keeps the invariant of the comparisons.
LEMMA OrderNext ==
  ASSUME TypeOK, OrderInv, [Next]_vars
  PROVE  OrderInv'
<1>1. CASE StartOrder
  BY <1>1, OrderStartKeeps
<1>2. CASE StepOrder
  BY <1>2, OrderStepKeeps
<1>3. CASE StartArith \/ StepArith
  <2>1. op' = op /\ op \in ArithOp
    BY <1>3 DEF StartArith, StepArith, Fail
  <2> QED
    BY <2>1 DEF OrderInv, ArithOp, OrderOp
<1>4. CASE Return
  <2>1. /\ pc = "loop" /\ pc' = "done" /\ op' = op /\ args' = args /\ i' = i /\ ret' = ret
        /\ i = Len(args)
    BY <1>4 DEF Return
  <2> QED
    BY <2>1 DEF OrderInv, PairsClose, Related, Close, number_p
<1>5. CASE UNCHANGED vars
  <2>1. pc' = pc /\ op' = op /\ args' = args /\ i' = i /\ ret' = ret
    BY <1>5 DEF vars
  <2> QED
    BY <2>1 DEF OrderInv, PairsClose, Related, Close, number_p
<1> QED
  BY <1>1, <1>2, <1>3, <1>4, <1>5 DEF Next

(***************************************************************************)
(* A comparison answers as the values of its arguments compare, as long as   *)
(* no two neighbouring ints are H or more apart; = always does.              *)
(***************************************************************************)
THEOREM ComparisonsRight == Spec => []OrderCorrect
<1>1. Init => OrderInv
  BY DEF Init, OrderInv
<1>2. TypeOK /\ OrderInv /\ [Next]_vars => OrderInv'
  BY OrderNext
<1>3. TypeOK /\ OrderInv => OrderCorrect
  <2> SUFFICES ASSUME TypeOK, OrderInv, op \in OrderOp, pc \in {"loop", "done"},
                      op = "=" \/ \A j \in 2..i : Close(args[j - 1], args[j])
               PROVE  /\ ret = \A j \in 2..i : Related(args[j - 1], args[j])
                      /\ pc = "done" /\ ret => i = Len(args)
    BY DEF OrderCorrect
  <2>1. ret \in BOOLEAN
    BY DEF TypeOK, ArithOp, OrderOp
  <2>2. ret <=> \A j \in 2..i : Related(args[j - 1], args[j])
    BY DEF OrderInv, PairsClose
  <2>3. pc = "done" /\ ret => i = Len(args)
    BY DEF OrderInv
  <2> HIDE DEF OrderInv
  <2> QED
    BY <2>1, <2>2, <2>3
<1> QED
  BY <1>1, <1>2, <1>3, ArithTypes, PTL DEF Spec
=============================================================================
