------------------------------ MODULE Numeral ------------------------------
(***************************************************************************)
(* Numbers as text (src/runtime/number.c): string->number, which the code    *)
(* generated for a number in the program calls too unless the number is a     *)
(* short decimal integer, and the text that display writes.                  *)
(***************************************************************************)
EXTENDS Number, Characters, FiniteSets

CONSTANT FitDigits    \* longest literal that codegen.cc makes an int: 9 digits

PowerOfTen(k) ==
  LET P[j \in 0..k] == IF j = 0 THEN 1 ELSE 10 * P[j - 1] IN P[k]

ASSUME FitDigitsAssumption == FitDigits \in Nat /\ PowerOfTen(FitDigits) <= H

VARIABLE conv         \* the conversion that runs, or ran last

NUL == ""             \* *ptr behind the text

\* the characters of a text, with those that the code itself writes
Character == STRING \cup Digit \cup {"+", "-", "/", "i", "@"}

RealPart == [type : -3..3, num : Int, den : Int]
ComplexNumber == [re : RealPart, im : RealPart]

Conversion ==
  [pc : {"none", "prefix", "part", "done"},
   str : Seq(Character),                    \* the text
   dup : Seq(Character),                    \* _ston's copy, which it changes
   ptr : Nat \ {0},
   defradix : Nat,
   exactness : -1..1, radix : Int,          \* -1 before a prefix
   allowre : BOOLEAN, allowim : BOOLEAN,    \* the part is still missing
   val : ComplexNumber,                     \* the parts stored so far
   out : {"none", "number", "false", "trap", "error"},
   printed : Seq(ComplexNumber)]            \* the number the text was written for

Idle ==
  [pc |-> "none", str |-> <<>>, dup |-> <<>>, ptr |-> 1, defradix |-> 10, exactness |-> -1,
   radix |-> -1, allowre |-> TRUE, allowim |-> TRUE, val |-> new_number(0),
   out |-> "none", printed |-> <<>>]

-----------------------------------------------------------------------------

At(s, k) == IF k <= Len(s) THEN s[k] ELSE NUL

cstr == <<".", "0", "1", "2", "3", "4", "5", "6", "7", "8", "9",
          "a", "A", "b", "B", "c", "C", "d", "D", "e", "E", "f", "F">>

\* the characters on which _ston_isdigit is true: the point is one of them
ston_digits(radix) ==
  LET req == IF radix <= 10 THEN radix ELSE 2 * radix - 10
  IN {cstr[k] : k \in {j \in 1..Len(cstr) : j - 1 <= req}}

\* where a loop over characters of S that starts at k stops
SkipOver(s, k, S) ==
  CHOOSE e \in k..(Len(s) + 1) : /\ At(s, e) \notin S
                                 /\ \A j \in k..(e - 1) : s[j] \in S

\* what marks an exponent
Marker == {"e", "s", "f", "d", "l"}

\* _ston_parse_real writes zeros over #s, and the @ of GMP over a marker
Overwritten(s, d, h) ==
  [k \in 1..Len(s) |-> CASE k \in d..(h - 1) /\ s[k] = "#" -> "0"
                         [] k = h /\ s[k] \in Marker -> "@"
                         [] OTHER -> s[k]]

Points(s, q, h) == {k \in q..(h - 1) : s[k] = "."}

Marked(s, h) == At(s, h) \in Marker

ExponentEnd(s, h) ==
  IF ~Marked(s, h) THEN h
  ELSE SkipOver(s, IF At(s, h + 1) \in {"+", "-"} THEN h + 2 ELSE h + 1, Digit)

\* one point and an exponent in decimals only, and at least a digit, or else i
WellFormed(s, q, d, h, radix) ==
  /\ Points(s, q, h) # {} => radix = 10 /\ Cardinality(Points(s, q, h)) = 1
  /\ ~(d = q + 1 /\ s[q] = ".")
  /\ d = q => At(s, d) = "i"
  /\ Marked(s, h) => radix = 10 /\ ExponentEnd(s, h) # h + 1

(***************************************************************************)
(* _ston_parse_real: an optional sign, digits with at most one point, more    *)
(* points and #s, an exponent; or a sign and i.  It only finds the end.  The   *)
(* precision that the marker asks for is left out.                          *)
(***************************************************************************)
ston_parse_real(s, p, radix) ==
  LET q == IF At(s, p) \in {"+", "-"} THEN p + 1 ELSE p
      d == SkipOver(s, q, ston_digits(radix))
      h == SkipOver(s, d, {".", "#"})
  IN [valid |-> WellFormed(s, q, d, h, radix),
      end |-> ExponentEnd(s, h),
      sign |-> q # p,
      iunit |-> d = q /\ At(s, d) = "i",
      decimal |-> Points(s, q, h) # {} \/ Marked(s, h),
      pound |-> "#" \in {s[k] : k \in d..(h - 1)},
      dup |-> Overwritten(s, d, h)]

-----------------------------------------------------------------------------
\* Text to value, on characters that the parser has let through

digit_value(c) == LET k == CHOOSE j \in 1..Len(cstr) : cstr[j] = c
                  IN IF k <= 11 THEN k - 2 ELSE 10 + ((k - 12) \div 2)

Natural(w, radix) ==
  LET N[k \in 0..Len(w)] == IF k = 0 THEN 0 ELSE N[k - 1] * radix + digit_value(w[k])
  IN N[Len(w)]

Signed(w) == w # <<>> /\ w[1] = "-"
Unsigned(w) == IF Signed(w) THEN Tail(w) ELSE w
Neg(w, n) == IF Signed(w) THEN -n ELSE n

mpz_set_str(w, radix) == Big(Neg(w, Natural(Unsigned(w), radix)))

Where(w, c) == SkipOver(w, 1, {w[k] : k \in 1..Len(w)} \ {c})

\* an empty denominator is no number: mpz_set_str leaves the 1 of mpq_init
mpq_set_str(w, radix) ==
  LET k == Where(w, "/")
      den == SubSeq(w, k + 1, Len(w))
  IN Rational(2, Neg(w, Natural(Unsigned(SubSeq(w, 1, k - 1)), radix)),
              IF den = <<>> THEN 1 ELSE Natural(den, radix))

Mantissa(w) == SubSeq(Unsigned(w), 1, Where(Unsigned(w), "@") - 1)
ExponentText(w) == SubSeq(w, Where(w, "@") + 1, Len(w))

Fraction(m) == IF Where(m, ".") > Len(m) THEN 0 ELSE Len(m) - Where(m, ".")

WithoutPoint(m) ==
  LET k == Where(m, ".") IN SubSeq(m, 1, k - 1) \o SubSeq(m, k + 1, Len(m))

\* digits without the point, times a power of ten
Scaled(t, w, ex) ==
  LET m == Mantissa(w)
      n == Neg(w, Natural(WithoutPoint(m), 10))
      k == ex - Fraction(m)
      l == IF k >= 0 THEN Lowest(n * PowerOfTen(k), 1) ELSE Lowest(n, PowerOfTen(-k))
  IN Rational(t, l[1], l[2])

HasDigits(x) == \E k \in 1..Len(x) : x[k] \in Digit

Exponent(x) == LET y == IF x[1] = "+" THEN Tail(x) ELSE x
               IN Neg(y, Natural(Unsigned(y), 10))

\* no number where the exponent is a sign only: 0 from mpf_init
mpf_set_str(w) ==
  LET x == ExponentText(w)
  IN CASE x = <<>> -> Scaled(3, w, 0)
       [] x # <<>> /\ HasDigits(x) -> Scaled(3, w, Exponent(x))
       [] OTHER -> Rational(3, 0, 1)

RangeError == Rational(-3, 0, 1)

(***************************************************************************)
(* _lsrt_mpq_set_decimal: a point without a digit behind it is not passed,    *)
(* so that sscanf does not see the exponent.  For a sign sscanf also writes a *)
(* zero behind ch (number.c:559); what is there in the frame is left out.    *)
(***************************************************************************)
mpq_set_decimal(w) ==
  LET x == ExponentText(w)
      m == Mantissa(w)
      seen == HasDigits(x) /\ ~(m # <<>> /\ m[Len(m)] = ".")
      ex == IF seen THEN Exponent(x) ELSE 0
  IN IF seen /\ (Len(x) >= 5 \/ ex >= 256) THEN RangeError ELSE Scaled(2, w, ex)

-----------------------------------------------------------------------------

Start(w, radix, printed) ==
  conv' = [Idle EXCEPT !.pc = "prefix", !.str = w, !.dup = w, !.defradix = radix,
                       !.printed = printed]

Finish(out) == conv' = [conv EXCEPT !.pc = "done", !.out = out]

Ready == conv.pc \in {"none", "done"}

numberFitsInt32(w) == Len(w) <= FitDigits /\ \A k \in 1..Len(w) : w[k] \in Digit

\* NumberASTNode::codeGen and the run of what it generates
Literal(w) ==
  /\ Ready
  /\ IF numberFitsInt32(w)
     THEN conv' = [Idle EXCEPT !.pc = "done", !.str = w, !.out = "number",
                               !.val = new_number(Natural(w, 10))]
     ELSE Start(w, 10, <<>>)

string2number(w, radix) ==
  /\ Ready
  /\ IF w = <<>> THEN conv' = [Idle EXCEPT !.pc = "done", !.defradix = radix, !.out = "false"]
     ELSE Start(w, radix, <<>>)

\* one round of the loop over prefixes
Prefix ==
  LET c == At(conv.dup, conv.ptr + 1)
      new == [conv EXCEPT !.ptr = @ + 2]
  IN
  /\ conv.pc = "prefix" /\ At(conv.dup, conv.ptr) = "#"
  /\ \/ /\ c \in Exactness /\ conv.exactness = -1
        /\ conv' = [new EXCEPT !.exactness = IF c = "i" THEN 0 ELSE 1]
     \/ /\ c \in Radix /\ conv.radix = -1
        /\ conv' = [new EXCEPT !.radix = CASE c = "b" -> 2 [] c = "o" -> 8
                                           [] c = "d" -> 10 [] c = "x" -> 16]
     \/ /\ ~(c \in Exactness /\ conv.exactness = -1) /\ ~(c \in Radix /\ conv.radix = -1)
        /\ Finish("false")

PrefixEnd ==
  /\ conv.pc = "prefix" /\ At(conv.dup, conv.ptr) # "#"
  /\ conv' = [conv EXCEPT !.pc = "part",
                          !.radix = IF @ = -1 THEN conv.defradix ELSE @]

\* `flag' is what the parser says of the text from ptr, `last' what it says of
\* that behind the bar, if there is one
Slash(flag) == At(flag.dup, flag.end) = "/"

Last(flag) ==
  IF Slash(flag) THEN ston_parse_real(flag.dup, flag.end + 1, conv.radix) ELSE flag

Imag(last) == At(last.dup, last.end) = "i"
Unit(flag, last) == Imag(last) /\ flag.iunit
Rest(last) == IF Imag(last) THEN last.end + 1 ELSE last.end

\* the text of the number from ptr on
PartText(last) ==
  SubSeq(last.dup, IF last.dup[conv.ptr] = "+" THEN conv.ptr + 1 ELSE conv.ptr, last.end - 1)

PartValue(flag, last) ==
  LET w == PartText(last)
  IN CASE Unit(flag, last) -> Small(IF last.dup[conv.ptr] = "+" THEN 1 ELSE -1)
       [] ~Unit(flag, last) /\ Slash(flag) -> mpq_set_str(w, conv.radix)
       [] ~Unit(flag, last) /\ ~Slash(flag) /\ flag.decimal ->
            IF conv.exactness = 1 THEN mpq_set_decimal(w) ELSE mpf_set_str(w)
       [] OTHER -> mpz_set_str(w, conv.radix)

\* mutant: #e does not keep a number with # exact
exactenedAlways(flag, x) ==
  re_canonicalize(IF conv.exactness = 0 \/ flag.pound THEN re_promote(x, 3) ELSE x)

exactened(flag, x) ==
  re_canonicalize(IF conv.exactness = 0 \/ (flag.pound /\ conv.exactness # 1)
                  THEN re_promote(x, 3) ELSE x)

\* mutant: a second real part replaces the first
PartMissingAny(c) == c = "i" => conv.allowim

\* the part that ends at character c has not been read yet
PartMissing(c) == IF c = "i" THEN conv.allowim ELSE conv.allowre

Parsed(flag, last) ==
  /\ flag.valid
  /\ Slash(flag) => last.valid /\ ~flag.decimal /\ ~last.sign /\ ~last.decimal
  /\ PartMissing(At(last.dup, last.end))
  /\ Unit(flag, last) => flag.sign

Store(last, x) ==
  LET over == At(last.dup, Rest(last)) = NUL IN
  conv' = [conv EXCEPT
             !.dup = last.dup, !.ptr = Rest(last),
             !.allowim = @ /\ ~Imag(last), !.allowre = @ /\ Imag(last),
             !.val = IF Imag(last) THEN Complex(@.re, x) ELSE Complex(x, @.im),
             !.pc = IF over THEN "done" ELSE "part",
             !.out = IF over THEN "number" ELSE "none"]

ReadPart(flag, last, x) ==
  \/ ~Parsed(flag, last) /\ Finish("false")
  \/ Parsed(flag, last) /\ x = Trap /\ Finish("trap")
  \/ Parsed(flag, last) /\ x = RangeError /\ Finish("error")
  \/ Parsed(flag, last) /\ ~Faulty(x) /\ Imag(last) /\ ~flag.sign /\ Finish("false")
  \/ Parsed(flag, last) /\ ~Faulty(x) /\ (Imag(last) => flag.sign) /\ Store(last, x)

(***************************************************************************)
(* From restart: to the next goto restart: one real or imaginary part.       *)
(***************************************************************************)
Part ==
  LET flag == ston_parse_real(conv.dup, conv.ptr, conv.radix)
      last == Last(flag)
  IN /\ conv.pc = "part"
     /\ ReadPart(flag, last, exactened(flag, PartValue(flag, last)))

-----------------------------------------------------------------------------
\* _ntos: the text of an exact number

DecimalDigits(n) ==
  LET D[k \in 0..n] == IF k < 10 THEN <<cstr[k + 2]>>
                       ELSE Append(D[k \div 10], cstr[(k % 10) + 2])
  IN D[n]

Decimal(n) == (IF n < 0 THEN <<"-">> ELSE <<>>) \o DecimalDigits(Abs(n))

Shown(x) == IF x.type = 2 THEN Decimal(x.num) \o <<"/">> \o Decimal(x.den)
            ELSE Decimal(x.num)

\* mutant: no + in front of a positive imaginary part
ShownSignedBare(x) == Shown(x)

ShownSigned(x) == IF x.num < 0 THEN Shown(x) ELSE <<"+">> \o Shown(x)

ntos(z) ==
  LET re == IF is_complex(z) /\ z.re = Small(0) THEN <<>> ELSE Shown(z.re)
      im == CASE z.im = Small(1) -> <<"+">>
              [] z.im = Small(-1) -> <<"-">>
              [] OTHER -> ShownSigned(z.im)
  IN IF is_complex(z) THEN re \o im \o <<"i">> ELSE re

IsExact(z) == z.re.type # 3 /\ z.im.type # 3

Displays == /\ conv.pc = "done" /\ conv.out = "number" /\ conv.printed = <<>>
            /\ IsExact(conv.val)

\* a number is displayed, and what was written read again
Reread ==
  /\ Displays
  /\ Start(ntos(conv.val), 10, <<conv.val>>)

-----------------------------------------------------------------------------
\* The predicates of number.c, which look at the types of the two parts

lso_is_real(z) == is_complex(z) => z.im.type = 3 /\ z.im.num = 0

lso_is_exact(z) == z.re.type # 3 /\ (is_complex(z) => z.im.type # 3)

\* mutant: a fraction is an integer
lso_is_integerAny(z) ==
  CASE ~lso_is_real(z) -> "no"
    [] lso_is_real(z) /\ z.re.type = 3 -> IF is_complex(z) THEN "yes" ELSE "fault"
    [] OTHER -> "yes"

(***************************************************************************)
(* For an inexact real part it asks mpf_integer_p about the imaginary part,   *)
(* which is no pointer unless it is an inexact zero.                         *)
(***************************************************************************)
lso_is_integer(z) ==
  CASE ~lso_is_real(z) \/ z.re.type = 2 -> "no"
    [] lso_is_real(z) /\ z.re.type = 3 -> IF is_complex(z) THEN "yes" ELSE "fault"
    [] OTHER -> "yes"

Convert == Prefix \/ PrefixEnd \/ Part \/ Reread

-----------------------------------------------------------------------------

(***************************************************************************)
(* The reference: the grammar of R5RS 7.1.1 without polar numbers.  What a    *)
(* text may mean is a set of values, from the ways to split the text.         *)
(***************************************************************************)
Figure == <<{"0"}, {"1"}, {"2"}, {"3"}, {"4"}, {"5"}, {"6"}, {"7"}, {"8"}, {"9"},
            {"a", "A"}, {"b", "B"}, {"c", "C"}, {"d", "D"}, {"e", "E"}, {"f", "F"}>>

FigureValue(c) == IF c = "#" THEN 0 ELSE (CHOOSE v \in 1..16 : c \in Figure[v]) - 1

AllIn(w, S) == \A k \in 1..Len(w) : w[k] \in S

Figures(r) == UNION {Figure[v] : v \in 1..r}

\* <digit>+ #*, <digit>* #* and #*
DigitsPounds(w, r) ==
  \E k \in 0..Len(w) : AllIn(SubSeq(w, 1, k), Figures(r)) /\ AllIn(SubSeq(w, k + 1, Len(w)), {"#"})

IsUInteger(w, r) == w # <<>> /\ w[1] \in Figures(r) /\ DigitsPounds(w, r)

ValueOf(w, r) ==
  LET V[k \in 0..Len(w)] == IF k = 0 THEN 0 ELSE V[k - 1] * r + FigureValue(w[k])
  IN V[Len(w)]

NoPounds(w) == AllIn(w, UNION {Figure[v] : v \in 1..16})

Meaning(n, d, exact) == [n |-> n, d |-> d, exact |-> exact, given |-> TRUE]

Upper(w, k) == SubSeq(w, k + 1, Len(w))
Lower(w, k) == SubSeq(w, 1, k - 1)

\* <suffix>: the exponents that the text from position k may be
Suffix(w, k) ==
  LET x == Upper(w, k)
      y == IF x # <<>> /\ x[1] \in {"+", "-"} THEN Tail(x) ELSE x
  IN IF k = Len(w) + 1 THEN {0}
     ELSE IF w[k] \in Marker /\ y # <<>> /\ AllIn(y, Figures(10))
          THEN {IF x[1] = "-" THEN -ValueOf(y, 10) ELSE ValueOf(y, 10)} ELSE {}

\* l and r around the point of a decimal
IsMantissa(l, r) ==
  \/ l = <<>> /\ IsUInteger(r, 10)
  \/ l # <<>> /\ AllIn(l, Figures(10)) /\ DigitsPounds(r, 10)
  \/ IsUInteger(l, 10) /\ ~NoPounds(l) /\ AllIn(r, {"#"})

TimesTen(n, k) == IF k >= 0 THEN Meaning(n * 10^k, 1, FALSE) ELSE Meaning(n, 10^(-k), FALSE)

UReals(w, r) ==
  (IF IsUInteger(w, r) THEN {Meaning(ValueOf(w, r), 1, NoPounds(w))} ELSE {})
  \cup {Meaning(ValueOf(Lower(w, k), r), ValueOf(Upper(w, k), r),
                NoPounds(Lower(w, k)) /\ NoPounds(Upper(w, k))) :
          k \in {j \in 2..Len(w) : /\ w[j] = "/" /\ IsUInteger(Lower(w, j), r)
                                   /\ IsUInteger(Upper(w, j), r)}}
  \cup IF r # 10 THEN {} ELSE
       UNION {{TimesTen(ValueOf(Lower(w, k), 10), ex) : ex \in Suffix(w, k)} :
                k \in {j \in 2..Len(w) : IsUInteger(Lower(w, j), 10)}}
       \cup UNION {UNION {{TimesTen(ValueOf(Lower(w, p) \o SubSeq(w, p + 1, k - 1), 10),
                                    ex - (k - 1 - p)) : ex \in Suffix(w, k)} :
                     k \in {j \in (p + 1)..(Len(w) + 1) :
                              IsMantissa(Lower(w, p), SubSeq(w, p + 1, j - 1))}} :
                   p \in {j \in 1..Len(w) : w[j] = "."}}

Times(sign, m) == [m EXCEPT !.n = IF sign = "-" THEN -@ ELSE @]

Reals(w, r) == IF w # <<>> /\ w[1] \in {"+", "-"}
               THEN {Times(w[1], m) : m \in UReals(Tail(w), r)} ELSE UReals(w, r)

\* the part that a text does not mention
Nought == [Meaning(0, 1, TRUE) EXCEPT !.given = FALSE]

\* the imaginary part that a text with the i taken off may be
Imaginaries(w, r) ==
  IF Len(w) = 1 THEN {Meaning(IF w[1] = "-" THEN -1 ELSE 1, 1, TRUE)} ELSE Reals(w, r)

Complexes(w, r) ==
  {[re |-> m, im |-> Nought] : m \in Reals(w, r)}
  \cup IF w = <<>> \/ w[Len(w)] # "i" THEN {} ELSE
       UNION {LET i == SubSeq(w, k, Len(w) - 1) IN
              {[re |-> m[1], im |-> m[2]] :
                 m \in (IF k = 1 THEN {Nought} ELSE Reals(Lower(w, k), r)) \X Imaginaries(i, r)} :
              k \in {j \in 1..(Len(w) - 1) : w[j] \in {"+", "-"}}}

\* prefixes: at most one for the radix and one for the exactness, in any order
Prefixes(w) ==
  {k \in 0..2 : /\ Len(w) >= 2 * k
                /\ \A j \in 1..k : w[2 * j - 1] = "#"
                /\ Cardinality({w[2 * j] : j \in 1..k} \cap Radix) <= 1
                /\ Cardinality({w[2 * j] : j \in 1..k} \cap Exactness) <= 1
                /\ \A j \in 1..k : w[2 * j] \in Radix \cup Exactness
                /\ k = 2 => (w[2] \in Radix) # (w[4] \in Radix)}

Meanings(w, defradix) ==
  UNION {LET p == {w[2 * j] : j \in 1..k}
             r == CASE "b" \in p -> 2 [] "o" \in p -> 8 [] "d" \in p -> 10 [] "x" \in p -> 16
                    [] OTHER -> defradix
             force(m) == CASE "e" \in p -> [m EXCEPT !.exact = TRUE]
                           [] "i" \in p -> [m EXCEPT !.exact = ~m.given]
                           [] OTHER -> m
         IN {[re |-> force(z.re), im |-> force(z.im)] : z \in Complexes(Upper(w, 2 * k), r)} :
         k \in Prefixes(w)}

Agrees(x, m) == /\ x.num * m.d = m.n * x.den
                /\ (x.type # 3) = m.exact
                /\ m.exact => Canonical(x)

Converted == conv.pc = "done" /\ conv.printed = <<>>

\* a point with no digit behind it loses the exponent of an exact number
ExponentLost(w) ==
  \E k \in 1..(Len(w) - 1) : w[k] = "." /\ w[k + 1] \in Marker

\* a # below the bar only does not make a fraction inexact
PoundBelow(w) == \E j, k \in 1..Len(w) : j < k /\ w[j] = "/" /\ w[k] = "#"

\* an exponent that an exact number may not have
OutOfRange(w) ==
  \E k \in 3..(Len(w) - 5) : w[k] = "e" /\ AllIn(SubSeq(w, k + 2, k + 5), Digit)

(***************************************************************************)
(* A numeral is read as the number it means, exact or inexact as it says and  *)
(* in the smallest representation, by whichever of the two ways; a zero       *)
(* below the bar stops the process, and so does an exponent of five           *)
(* characters under #e.  Left out: the two oddities above.                   *)
(***************************************************************************)
NumeralRead ==
  Converted /\ ~ExponentLost(conv.str) /\ ~PoundBelow(conv.str) =>
    \A z \in Meanings(conv.str, conv.defradix) :
      CASE 0 \in {z.re.d, z.im.d} -> conv.out = "trap"
        [] conv.exactness = 1 /\ OutOfRange(conv.str) -> conv.out = "error"
        [] OTHER -> /\ conv.out = "number"
                    /\ Agrees(conv.val.re, z.re) /\ Agrees(conv.val.im, z.im)

\* an imaginary part in front of the real part
ImaginaryFirst(w) == \E k \in 1..(Len(w) - 1) : w[k] = "i" /\ (k > 1 => w[k - 1] # "#")

\* an exponent without digits, or an i for a denominator
SignOnly(w) == \E k \in 1..(Len(w) - 1) :
                 /\ w[k] \in Marker /\ w[k + 1] \in {"+", "-"}
                 /\ k + 1 = Len(w) \/ w[k + 2] \notin Digit
UnitBelow(w) == \E k \in 1..(Len(w) - 1) : w[k] = "/" /\ w[k + 1] = "i"

(***************************************************************************)
(* Whatever is not a numeral yields no number, with three exceptions: parts of a *)
(* complex number may come in either order, an exponent may be a sign only    *)
(* and the denominator of an imaginary part may be missing.                  *)
(***************************************************************************)
OnlyNumerals ==
  (/\ Converted /\ Meanings(conv.str, conv.defradix) = {}
   /\ ~ImaginaryFirst(conv.str) /\ ~SignOnly(conv.str) /\ ~UnitBelow(conv.str))
    => conv.out # "number"

(***************************************************************************)
(* An exact number that display writes is read back as the same number.      *)
(***************************************************************************)
PrintedReadsBack ==
  conv.pc = "done" /\ conv.printed # <<>> =>
    conv.out = "number" /\ conv.val = conv.printed[1]

IsIntegral(m) == m.n % m.d = 0

(***************************************************************************)
(* What real?, exact? and integer? say of a number that was read is what its  *)
(* text means, except that integer? does not survive an inexact real and is   *)
(* not about the real part of a complex one.                                *)
(***************************************************************************)
PredicatesRight ==
  Converted /\ conv.out = "number" /\ ~PoundBelow(conv.str) =>
    \A z \in Meanings(conv.str, conv.defradix) :
      /\ lso_is_real(conv.val) = (z.im.n = 0)
      /\ lso_is_exact(conv.val) = (z.re.exact /\ z.im.exact)
      /\ z.re.exact =>
           (lso_is_integer(conv.val) = "yes") = (IsIntegral(z.re) /\ z.im.n = 0)
      /\ (lso_is_integer(conv.val) = "fault") = (~z.re.exact /\ z.im.exact /\ z.im.n = 0)
=============================================================================
