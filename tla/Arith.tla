------------------------------- MODULE Arith -------------------------------
(***************************************************************************)
(* The numeric builtins of src/runtime/number.c: + - * / fold _arith2 over   *)
(* their arguments, = < > <= >= compare neighbours and stop at the first     *)
(* pair that fails.  A behaviour is one call.                               *)
(***************************************************************************)
EXTENDS Number, Sequences, FiniteSets

CONSTANTS
  NotNumber,  \* an argument of another type
  ArgLists    \* bound: the argument lists of the calls

Part         == [type : -2..2, num : Int, den : Int]
NumberObject == [re : Part, im : Part]

\* the parts of the numbers a program can pass are canonical
ASSUME ArithAssumption ==
  \A a \in ArgLists :
    /\ a \in Seq({NotNumber} \cup NumberObject)
    /\ \A j \in 1..Len(a) :
         a[j] # NotNumber => Canonical(a[j].re) /\ Canonical(a[j].im)

VARIABLES
  pc,     \* "call", in the "loop", "done", or stopped by lsrt_error or a trap
  op,     \* the operator; "l" is <= and "g" is >=
  args,
  i,      \* arguments used so far
  ret     \* the number object being built, or the truth value returned

vars == <<pc, op, args, i, ret>>

ArithOp == {"+", "-", "*", "/"}
OrderOp == {"=", "<", ">", "l", "g"}

TypeOK ==
  /\ pc \in {"call", "loop", "done", "error", "trap"}
  /\ op \in ArithOp \cup OrderOp
  /\ args \in ArgLists
  /\ i \in 0..Len(args)
  /\ \/ op \in OrderOp /\ ret \in BOOLEAN
     \/ op \in ArithOp /\ ret \in NumberObject

Init ==
  /\ pc = "call"
  /\ op \in ArithOp \cup OrderOp
  /\ args \in ArgLists
  /\ i = 0
  /\ ret = IF op \in OrderOp THEN TRUE ELSE new_number(0)

Fail == pc' = "error" /\ UNCHANGED <<op, args, i, ret>>

number_p(x) == x # NotNumber

\* mutant: the loop always starts after the first argument
StartArithAtOne ==
  LET first == op \in {"-", "/"} /\ Len(args) > 1 IN
  /\ pc = "call" /\ op \in ArithOp
  /\ IF op \in {"-", "/"} /\ (Len(args) = 0 \/ (first /\ ~number_p(args[1])))
     THEN Fail
     ELSE /\ ret' = CASE first -> args[1]
                      [] ~first /\ op \in {"+", "-"} -> new_number(0)
                      [] ~first /\ op \in {"*", "/"} -> new_number(1)
          /\ i' = 1
          /\ pc' = "loop"
          /\ UNCHANGED <<op, args>>

(***************************************************************************)
(* _arith up to its loop: 0 or 1 to start from, or the first argument.       *)
(***************************************************************************)
StartArith ==
  LET first == op \in {"-", "/"} /\ Len(args) > 1 IN
  /\ pc = "call" /\ op \in ArithOp
  /\ IF op \in {"-", "/"} /\ (Len(args) = 0 \/ (first /\ ~number_p(args[1])))
     THEN Fail
     ELSE /\ ret' = CASE first -> args[1]
                      [] ~first /\ op \in {"+", "-"} -> new_number(0)
                      [] ~first /\ op \in {"*", "/"} -> new_number(1)
          /\ i' = IF first THEN 1 ELSE 0
          /\ pc' = "loop"
          /\ UNCHANGED <<op, args>>

StepArith ==
  /\ pc = "loop" /\ op \in ArithOp /\ i < Len(args)
  /\ IF ~number_p(args[i + 1])
     THEN Fail
     ELSE /\ ret' = arith2(op, ret, args[i + 1])
          /\ i' = i + 1
          /\ pc' = IF Trap \in {ret'.re, ret'.im} THEN "trap" ELSE "loop"
          /\ UNCHANGED <<op, args>>

\* _order: < > <= >= want reals, = any number
Ordered(x) == number_p(x) /\ (op = "=" \/ ~is_complex(x))

StartOrder ==
  /\ pc = "call" /\ op \in OrderOp
  /\ IF Len(args) > 0 /\ ~Ordered(args[1])
     THEN Fail
     ELSE /\ pc' = IF Len(args) = 0 THEN "done" ELSE "loop"
          /\ i' = IF Len(args) = 0 THEN 0 ELSE 1
          /\ UNCHANGED <<op, args, ret>>

Holds(res) == CASE op = "=" -> res = 0
                [] op = "<" -> res < 0
                [] op = ">" -> res > 0
                [] op = "l" -> res <= 0
                [] op = "g" -> res >= 0

StepOrder ==
  /\ pc = "loop" /\ op \in OrderOp /\ i < Len(args)
  /\ IF ~Ordered(args[i + 1])
     THEN Fail
     ELSE /\ \E r \in re_order2(args[i].re, args[i + 1].re),
                m \in re_order2(args[i].im, args[i + 1].im) :
               ret' = Holds(IF op = "=" /\ r = 0 THEN m ELSE r)
          /\ i' = i + 1
          /\ pc' = IF ret' THEN "loop" ELSE "done"
          /\ UNCHANGED <<op, args>>

Return ==
  /\ pc = "loop" /\ i = Len(args)
  /\ pc' = "done"
  /\ UNCHANGED <<op, args, i, ret>>

Next == StartArith \/ StepArith \/ StartOrder \/ StepOrder \/ Return

Spec == Init /\ [][Next]_vars

-----------------------------------------------------------------------------

(***************************************************************************)
(* The reference: fractions in lowest terms, as pairs, and complex numbers   *)
(* as pairs of those.  Zero has no inverse.                                  *)
(***************************************************************************)
Frac(x)    == <<x.num, x.den>>
Value(z)   == <<Frac(z.re), Frac(z.im)>>
Plus(p, q)  == Lowest(p[1] * q[2] + q[1] * p[2], p[2] * q[2])
Minus(p, q) == Lowest(p[1] * q[2] - q[1] * p[2], p[2] * q[2])
Times(p, q) == Lowest(p[1] * q[1], p[2] * q[2])
Over(p, q)  == Lowest(p[1] * q[2], p[2] * q[1])
Less(p, q)  == p[1] * q[2] < q[1] * p[2]

Zero == <<0, 1>>
One  == <<1, 1>>

Norm(q) == Plus(Times(q[1], q[1]), Times(q[2], q[2]))

Apply(o, p, q) ==
  CASE o = "+" -> <<Plus(p[1], q[1]), Plus(p[2], q[2])>>
    [] o = "-" -> <<Minus(p[1], q[1]), Minus(p[2], q[2])>>
    [] o = "*" -> <<Minus(Times(p[1], q[1]), Times(p[2], q[2])),
                    Plus(Times(p[1], q[2]), Times(p[2], q[1]))>>
    [] o = "/" -> <<Over(Plus(Times(p[1], q[1]), Times(p[2], q[2])), Norm(q)),
                    Over(Minus(Times(p[2], q[1]), Times(p[1], q[2])), Norm(q))>>

\* the value of the operator on the first k arguments
Folded(k) ==
  LET unit == IF op \in {"+", "-"} THEN <<Zero, Zero>> ELSE <<One, Zero>>
      F[j \in 0..k] ==
        CASE j = 0 -> unit
          [] j = 1 /\ op \in {"-", "/"} /\ Len(args) > 1 -> Value(args[1])
          [] OTHER -> Apply(op, F[j - 1], Value(args[j]))
  IN F[k]

\* what a division divides by, among the arguments used so far
Divisors ==
  IF op = "/" THEN {args[j] : j \in (IF Len(args) > 1 THEN 2 ELSE 1)..i} ELSE {}

\* _re_neg can negate their imaginary parts
Negatable == \A d \in Divisors : d.im # Small(-H)

Garbled == Undefined \in {ret.re, ret.im}

(***************************************************************************)
(* The sum, difference, product or quotient is exact at every step, through  *)
(* every promotion from int to mpz to mpq and back.  Left out: what         *)
(* mpz_divexact makes of an inexact division, and divisors whose imaginary   *)
(* part is -H, which _re_neg cannot negate.                                  *)
(***************************************************************************)
Exact ==
  op \in ArithOp /\ pc \in {"loop", "done"} /\ ~Garbled /\ Negatable
    => Value(ret) = Folded(i)

(***************************************************************************)
(* Every result is back in its smallest representation: an int if it fits,   *)
(* an mpz only outside the ints, an mpq only for a proper fraction.  The     *)
(* predicates and the index arguments look at the representation alone.      *)
(***************************************************************************)
CanonicalResult ==
  op \in ArithOp /\ pc \in {"loop", "done"} /\ ~Garbled
    => Canonical(ret.re) /\ Canonical(ret.im)

(***************************************************************************)
(* A division by exact zero never yields a number, and apart from that only  *)
(* -H / -1 stops the process.  (Behind a divisor whose imaginary part is -H  *)
(* the quotient itself is wrong, and may be -H where it should not.)         *)
(***************************************************************************)
ZeroDivisorTraps ==
  /\ pc \in {"loop", "done"} /\ op \in ArithOp /\ ~Garbled
       => new_number(0) \notin Divisors
  /\ pc = "trap" =>
       \/ args[i] = new_number(0)
       \/ args[i] = new_number(-1) /\ (Negatable => Folded(i - 1) = <<<<-H, 1>>, Zero>>)

(***************************************************************************)
(* A comparison answers as the values compare, all along the arguments, as   *)
(* long as no two ints that are neighbours are H or more apart; = needs no    *)
(* such condition, since a wrapped difference of two ints is 0 only if they   *)
(* are equal.                                                               *)
(***************************************************************************)
Related(x, y) ==
  LET p == Frac(x.re)
      q == Frac(y.re)
  IN CASE op = "=" -> Value(x) = Value(y)
       [] op = "<" -> Less(p, q)
       [] op = ">" -> Less(q, p)
       [] op = "l" -> ~Less(q, p)
       [] op = "g" -> ~Less(p, q)

Close(x, y) == x.re.type = 0 /\ y.re.type = 0 => x.re.num - y.re.num \in Int32

OrderCorrect ==
  (/\ op \in OrderOp /\ pc \in {"loop", "done"}
   /\ \/ op = "="
      \/ \A j \in 2..i : Close(args[j - 1], args[j]))
    => /\ ret = \A j \in 2..i : Related(args[j - 1], args[j])
       /\ pc = "done" /\ ret => i = Len(args)

-----------------------------------------------------------------------------

(***************************************************************************)
(* What number.h says of _re_order2: it returns sgn(dst - src).              *)
(***************************************************************************)
OrderIsSign ==
  op \in OrderOp \ {"="} /\ pc \in {"loop", "done"}
    => ret = \A j \in 2..i : Related(args[j - 1], args[j])

(***************************************************************************)
(* What number.h says of division: operands that are not divisible are       *)
(* promoted to mpq, so that mpz_divexact is never given any.                *)
(***************************************************************************)
NeverInexact == op \in ArithOp => ~Garbled
=============================================================================
