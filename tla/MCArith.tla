------------------------------ MODULE MCArith ------------------------------
(***************************************************************************)
(* Instances of Arith with ints of three bits (H = 4) and operands on both   *)
(* sides of every boundary: the least and the greatest int, the big numbers   *)
(* next to them, fractions and complex numbers.                             *)
(***************************************************************************)
EXTENDS Arith

Integer(n) == IF n \in Int32 THEN Small(n) ELSE Big(n)

Integers1 == {Integer(n) : n \in {-8, -5, -4, -3, -1, 0, 1, 2, 3, 4, 6}}
Fractions == {Rational(2, 1, 2), Rational(2, -5, 3)}

RealOperand == {Complex(x, Small(0)) : x \in Integers1 \cup Fractions}

ComplexOperand ==
  {Complex(x, y) : x \in {Small(0), Small(3), Big(5), Rational(2, 1, 2)},
                   y \in {Small(1), Small(-4), Small(3), Big(4), Rational(2, -1, 3)}}

Lists(S, n) == UNION {[1..k -> S \cup {NotNumber}] : k \in 0..n}

\* a wrong quotient, -H, that stops the process when it is divided by -1
Stray == <<Complex(Small(-2), Big(-16)), Complex(Rational(2, 1, 2), Small(-4)), new_number(-1)>>

RealPairs == Lists(RealOperand, 2)
AllLists  == Lists(RealOperand \cup ComplexOperand, 2) \cup Lists(RealOperand, 3) \cup {Stray}
=============================================================================
