------------------------------- MODULE Number -------------------------------
(***************************************************************************)
(* Exact numbers of the runtime: struct ls_real with its promotions between  *)
(* int, mpz and mpq (src/runtime/include/number.h), and complex numbers made *)
(* of two of them (src/runtime/number.c).  GMP computes exactly on integers  *)
(* and fractions; of mpf, the inexact reals, only the conversions are here.  *)
(***************************************************************************)
EXTENDS Fixnum

(***************************************************************************)
(* type 0 is an int, 1 an mpz, 2 an mpq and 3 an mpf.  num/den is the value: *)
(* den is 1 below type 2, and the rounding of an mpf is left out.  Undefined *)
(* is what mpz_divexact leaves when the division is not exact; Trap stands   *)
(* for a process killed by a division by zero.                              *)
(***************************************************************************)
Rational(t, n, d) == [type |-> t, num |-> n, den |-> d]
Small(v)  == Rational(0, v, 1)
Big(z)    == Rational(1, z, 1)
Undefined == Rational(-1, 0, 1)
Trap      == Rational(-2, 0, 1)

Faulty(x) == x.type < 0

gcd(a, b) ==
  LET G[n \in 0..Abs(a) + Abs(b)] ==
        [m \in 0..Abs(a) + Abs(b) |-> IF n = 0 THEN m ELSE G[m % n][n]]
  IN G[Abs(b)][Abs(a)]

\* lowest terms and a positive denominator, as mpq_canonicalize leaves it
Lowest(n, d) == LET g == gcd(n, d) IN
  <<Sgn(d) * Sgn(n) * (Abs(n) \div g), Abs(d) \div g>>

Canonical(x) ==
  CASE x.type = 0 -> x.num \in Int32 /\ x.den = 1
    [] x.type = 1 -> x.num \notin Int32 /\ x.den = 1
    [] x.type = 2 -> x.den > 1 /\ gcd(x.num, x.den) = 1
    [] OTHER -> FALSE

-----------------------------------------------------------------------------

\* an mpq with a zero denominator cannot become an mpf, unless it is zero over zero, of which
\* mpf_set_q looks at the numerator only
re_promote(x, t) == CASE x.type >= t -> x
                      [] x.type < t /\ x.den = 0 /\ x.num # 0 -> Trap
                      [] x.type < t /\ x.den = 0 /\ x.num = 0 -> Rational(t, 0, 1)
                      [] OTHER -> [x EXCEPT !.type = t]

\* mutant: an mpz that fits an int stays an mpz
re_canonicalizeToBig(x) ==
  IF Faulty(x) THEN x
  ELSE IF x.type = 2 /\ x.den = 0 THEN Trap
  ELSE LET l == Lowest(x.num, x.den)
       IN IF x.type = 2 /\ l[2] # 1 THEN Rational(2, l[1], l[2]) ELSE Big(l[1])

re_canonicalize(x) ==
  IF Faulty(x) \/ x.type = 3 THEN x
  ELSE IF x.type = 2 /\ x.den = 0 THEN Trap
  ELSE LET l == Lowest(x.num, x.den)
           z == IF x.type = 2 /\ l[2] # 1 THEN Rational(2, l[1], l[2]) ELSE Big(l[1])
       IN IF z.type = 1 /\ z.num \in Int32 THEN Small(z.num) ELSE z

(***************************************************************************)
(* The macros: u is the second operand with sgn its sign when it is an int's *)
(* magnitude, and 1 otherwise.                                              *)
(***************************************************************************)
divexact(x, u) == IF u # 0 /\ Divides(u, x) THEN Big(Quotient(x, u)) ELSE Undefined

MP_ARITH_INTEGER(op, x, u, sgn) ==
  LET s == IF sgn = -1 THEN -1 ELSE 1
      q == divexact(x, u)
  IN CASE op = "+" -> Big(x + s * u)
       [] op = "-" -> Big(x - s * u)
       [] op = "*" -> Big(s * (x * u))
       [] op = "/" -> IF Faulty(q) THEN q ELSE Big(s * q.num)

MP_ARITH_RATIONAL_INTEGER(op, x, u, sgn) ==
  LET s == IF sgn = -1 THEN -1 ELSE 1 IN
  CASE op = "+" -> Rational(2, x.num + s * (x.den * u), x.den)
    [] op = "-" -> Rational(2, x.num - s * (x.den * u), x.den)
    [] op = "*" -> Rational(2, s * (x.num * u), x.den)
    [] op = "/" -> Rational(2, x.num, s * (x.den * u))

MP_ARITH_RATIONAL(op, x, y) ==
  CASE op = "+" -> Rational(2, x.num * y.den + y.num * x.den, x.den * y.den)
    [] op = "-" -> Rational(2, x.num * y.den - y.num * x.den, x.den * y.den)
    [] op = "*" -> Rational(2, x.num * y.num, x.den * y.den)
    [] op = "/" -> Rational(2, x.num * y.den, x.den * y.num)

BigArith(op, dst, src) ==
  CASE src.type = 0 /\ dst.type = 1 ->
         MP_ARITH_INTEGER(op, dst.num, si_to_ui(src.num), Sgn(src.num))
    [] src.type = 0 /\ dst.type = 2 ->
         MP_ARITH_RATIONAL_INTEGER(op, dst, si_to_ui(src.num), Sgn(src.num))
    [] src.type = 1 /\ dst.type = 2 -> MP_ARITH_RATIONAL_INTEGER(op, dst, src.num, 1)
    [] src.type = 1 /\ dst.type < 2 -> MP_ARITH_INTEGER(op, dst.num, src.num, 1)
    [] src.type = 2 -> MP_ARITH_RATIONAL(op, re_promote(dst, 2), src)

re_arith2(op, dst, src) ==
  LET ints == dst.type = 0 /\ src.type = 0
      d1 == IF ints THEN re_promote(dst, IF op = "/" THEN 2 ELSE 1) ELSE dst
      d2 == IF /\ op = "/" /\ d1.type = 1 /\ src.type < 2
               /\ ~Divides(src.num, d1.num)
            THEN re_promote(d1, 2) ELSE d1
  IN IF Faulty(dst) THEN dst
     ELSE IF Faulty(src) THEN src
     ELSE IF ints /\ op = "/" /\ RemainderTraps(dst.num, src.num) THEN Trap
     ELSE IF ints /\ StaysFixnum(op, dst.num, src.num)
     THEN Small(FixnumResult(op, dst.num, src.num))
     ELSE re_canonicalize(BigArith(op, d2, src))

re_neg(x) == CASE x.type = 0 -> Small(Wrap(0 - x.num))
               [] x.type > 0 -> [x EXCEPT !.num = -@]
               [] OTHER -> x

(***************************************************************************)
(* _re_order2: ints are subtracted, everything else is compared by GMP, an   *)
(* mpz with an mpq after their signs.                                       *)
(***************************************************************************)
Compare(x, y) == Sgn(x.num * y.den - y.num * x.den)

\* mutant: the signs of an mpz and an mpq are compared the wrong way round
re_order2SignsSwapped(dst, src) ==
  CASE dst.type = 0 /\ src.type = 0 -> DifferenceSigns(dst.num, src.num)
    [] {dst.type, src.type} = {1, 2} /\ Sgn(dst.num) # Sgn(src.num) ->
         {IF Sgn(dst.num) > Sgn(src.num) THEN -1 ELSE 1}
    [] OTHER -> {Compare(dst, src)}

re_order2(dst, src) ==
  CASE dst.type = 0 /\ src.type = 0 -> DifferenceSigns(dst.num, src.num)
    [] {dst.type, src.type} = {1, 2} /\ Sgn(dst.num) # Sgn(src.num) ->
         {IF Sgn(dst.num) > Sgn(src.num) THEN 1 ELSE -1}
    [] OTHER -> {Compare(dst, src)}

-----------------------------------------------------------------------------

(***************************************************************************)
(* A number object: a real and an imaginary part.  It has ls_num_complex     *)
(* set exactly when the imaginary part is not the int 0.                     *)
(***************************************************************************)
Complex(r, i) == [re |-> r, im |-> i]
new_number(v) == Complex(Small(v), Small(0))
is_complex(z) == z.im # Small(0)

(***************************************************************************)
(* _arith2: a division by a complex number is a multiplication by its        *)
(* inverse, (c - di) / (c^2 + d^2).                                          *)
(***************************************************************************)
times(dst, src) ==
  Complex(re_arith2("-", re_arith2("*", dst.re, src.re), re_arith2("*", dst.im, src.im)),
          re_arith2("+", re_arith2("*", dst.im, src.re), re_arith2("*", dst.re, src.im)))

\* mutant: c^2 - d^2 for c^2 + d^2
inverseMinus(src) ==
  LET r == re_arith2("-", re_arith2("*", src.re, src.re), re_arith2("*", src.im, src.im))
  IN Complex(re_arith2("/", src.re, r), re_arith2("/", re_neg(src.im), r))

inverse(src) ==
  LET r == re_arith2("+", re_arith2("*", src.re, src.re), re_arith2("*", src.im, src.im))
  IN Complex(re_arith2("/", src.re, r), re_arith2("/", re_neg(src.im), r))

arith2(op, dst, src) ==
  CASE ~is_complex(dst) /\ ~is_complex(src) ->
         [dst EXCEPT !.re = re_arith2(op, @, src.re)]
    [] (is_complex(dst) \/ is_complex(src)) /\ op \in {"+", "-"} ->
         Complex(re_arith2(op, dst.re, src.re), re_arith2(op, dst.im, src.im))
    [] (is_complex(dst) \/ is_complex(src)) /\ op = "*" -> times(dst, src)
    [] (is_complex(dst) \/ is_complex(src)) /\ op = "/" -> times(dst, inverse(src))
=============================================================================
