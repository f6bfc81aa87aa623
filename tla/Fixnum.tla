------------------------------- MODULE Fixnum -------------------------------
(***************************************************************************)
(* Plain C `int' arithmetic of the runtime (src/runtime/include/number.h):  *)
(* the overflow tests that decide when a number has to become a big one.    *)
(*                                                                         *)
(* Signed overflow is taken to wrap, as the examples in the comment above    *)
(* __sub_overflow_p assume; C leaves it undefined.                          *)
(***************************************************************************)
EXTENDS Integers

CONSTANT H    \* an int is one of -H .. H - 1; H is 2^31 in the build

ASSUME HAssumption == H \in Nat /\ H >= 2

Int32 == (-H)..(H - 1)

Wrap(x) == ((x + H) % (2 * H)) - H

Abs(x) == IF x < 0 THEN -x ELSE x
Sgn(x) == IF x < 0 THEN -1 ELSE IF x = 0 THEN 0 ELSE 1

(***************************************************************************)
(* The tests look at signs of the wrapped result, or, for `*', at the upper  *)
(* bits of the 64-bit product.                                              *)
(***************************************************************************)
add_overflow_p(a, b) ==
  LET t == Wrap(a + b) IN /\ (a < 0) <=> (b < 0)
                          /\ ~((t < 0) <=> (a < 0))

\* mutant: the sign test of the sum
sub_overflow_pAsSum(a, b) ==
  LET t == Wrap(a - b) IN /\ (a < 0) <=> (b < 0)
                          /\ ~((t < 0) <=> (a < 0))

sub_overflow_p(a, b) ==
  LET t == Wrap(a - b) IN /\ (a < 0) <=> (b > 0)
                          /\ ~((t < 0) <=> (a < 0))

mul_overflow_p(a, b) ==
  LET y == Wrap((a * b) \div H) IN y # 0 /\ y # -1

\* __si_to_ui: the magnitude, without overflow for -H; the sign is Sgn(si)
si_to_ui(si) == IF si < 0 THEN -(si + 1) + 1 ELSE si

\* a % b of two ints stops the process where the quotient is not an int
RemainderTraps(a, b) == b = 0 \/ (a = -H /\ b = -1)

Divides(b, a) == IF b = 0 THEN a = 0 ELSE Abs(a) % Abs(b) = 0

Quotient(a, b) == Sgn(a) * Sgn(b) * (Abs(a) \div Abs(b))

(***************************************************************************)
(* The part of _re_arith2 that does its best to stay in plain integers.     *)
(***************************************************************************)
StaysFixnum(op, a, b) ==
  CASE op = "+" -> ~add_overflow_p(a, b)
    [] op = "-" -> ~sub_overflow_p(a, b)
    [] op = "*" -> ~mul_overflow_p(a, b)
    [] op = "/" -> Divides(b, a)

FixnumResult(op, a, b) ==
  CASE op = "+" -> Wrap(a + b)
    [] op = "-" -> Wrap(a - b)
    [] op = "*" -> Wrap(a * b)
    [] op = "/" -> Quotient(a, b)

(***************************************************************************)
(* _re_order2 of two ints takes the sign of an int subtraction.  Where that   *)
(* overflows the compiler may wrap it or compare the operands instead, so    *)
(* there is a set of outcomes.                                              *)
(***************************************************************************)
DifferenceSigns(a, b) == {Sgn(Wrap(a - b)), Sgn(a - b)}
=============================================================================
