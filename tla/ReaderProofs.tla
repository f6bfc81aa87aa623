---------------------------- MODULE ReaderProofs ----------------------------
(***************************************************************************)
(* The reader, for every set of texts.  The lexer: its types, that it reads no *)
(* further than each token needs, and that it is the scanner.  The conversion  *)
(* of numbers: its types, that every exact number that display writes is read  *)
(* back as itself, and that GMP only gets numerals of the radix.              *)
(***************************************************************************)
EXTENDS Reader, NumberProofs, SequenceTheorems, FiniteSetTheorems

\* The elements of a text, and texts made of them.
LEMMA CharSeqFacts ==
  ASSUME NEW S, NEW s \in Seq(S)
  PROVE  /\ Len(s) \in Nat
         /\ \A k \in 0..Len(s) : k < Len(s) => s[k + 1] \in S
         /\ \A x \in S : Append(s, x) \in Seq(S) /\ <<x>> \in Seq(S)
  OBVIOUS

\* a character of a text, and what the loops collect of them, are strings
LEMMA CurCharType ==
  ASSUME LexTypeOK
  PROVE  /\ input \in Seq(STRING)
         /\ curChar # EOF => pos < Len(input) /\ curChar \in STRING
         /\ grown \in Seq(STRING)
<1>1. input \in Seq(STRING) /\ pos \in 0..Len(input) /\ text \in Seq(STRING)
  BY InputsAssumption DEF LexTypeOK
<1>2. pos < Len(input) => curChar \in STRING
  BY <1>1, CharSeqFacts DEF curChar
<1>3. pos < Len(input) => Append(text, curChar) \in Seq(STRING)
  BY <1>1, <1>2, CharSeqFacts
<1> QED
  BY <1>1, <1>2, <1>3 DEF grown, curChar

\* peek and consume keep pos inside the text and taken next to it
LEMMA StreamType ==
  ASSUME LexTypeOK, peek \/ consume
  PROVE  /\ pos' \in 0..Len(input)
         /\ taken' \in {pos', pos' + 1}
<1>1. pos \in 0..Len(input) /\ Len(input) \in Nat
  BY CurCharType DEF LexTypeOK
<1>2. CASE peek
  BY <1>1, <1>2 DEF peek
<1>3. CASE consume
  BY <1>1, <1>3 DEF consume
<1> QED
  BY <1>2, <1>3

\* the last token returned, and where it ends
LEMMA ReturnLast ==
  ASSUME LexTypeOK, peek \/ consume,
         NEW type \in TokenTypes, NEW w \in Seq(STRING), Return(type, w)
  PROVE  /\ LexTypeOK'
         /\ tokens' # <<>>
         /\ tokens'[Len(tokens')] = [type |-> type, text |-> w, end |-> pos']
<1> DEFINE t == [type |-> type, text |-> w, end |-> pos']
           T == [type : TokenTypes, text : Seq(STRING), end : Nat]
<1>1. pos' \in 0..Len(input) /\ taken' \in {pos', pos' + 1} /\ Len(input) \in Nat
  BY StreamType, CurCharType
<1>2. t \in T
  BY <1>1
<1>3. tokens \in Seq(T) /\ tokens' = Append(tokens, t)
  BY DEF Return, LexTypeOK
<1>4. tokens' \in Seq(T) /\ tokens' # <<>> /\ tokens'[Len(tokens')] = t
  <2> HIDE DEF t, T
  <2> QED
    BY <1>2, <1>3
<1>5. input' \in Inputs /\ input' = input /\ pc' = "idle" /\ text' \in Seq(STRING)
  BY DEF Return, LexTypeOK
<1> QED
  BY <1>1, <1>4, <1>5 DEF LexTypeOK

LInv == LexTypeOK /\ ReadsNoFurther

\* a token that ends where the next character shows it
LEMMA PeekReturn ==
  ASSUME LexTypeOK, peek,
         NEW type \in TokenTypes \ {"LPAREN", "RPAREN", "QUOTE", "STRING"},
         NEW w \in Seq(STRING), Return(type, w)
  PROVE  LInv'
<1>1. taken' = pos' + 1
  BY DEF peek
<1>2. type \in TokenTypes
  OBVIOUS
<1>3. tokens' # <<>> /\ tokens'[Len(tokens')] = [type |-> type, text |-> w, end |-> pos']
  BY <1>2, ReturnLast
<1>4. ReadsNoFurther'
  BY <1>1, <1>3 DEF ReadsNoFurther
<1> QED
  BY <1>2, <1>4, ReturnLast DEF LInv

\* a token that ends with the character consumed
LEMMA ConsumeReturn ==
  ASSUME LexTypeOK, consume, curChar # EOF,
         NEW type \in {"LPAREN", "RPAREN", "QUOTE", "STRING"},
         NEW w \in Seq(STRING), Return(type, w)
  PROVE  LInv'
<1>1. taken' = pos'
  BY CurCharType DEF consume
<1>2. type \in TokenTypes
  BY DEF TokenTypes
<1>3. tokens' # <<>> /\ tokens'[Len(tokens')] = [type |-> type, text |-> w, end |-> pos']
  BY <1>2, ReturnLast
<1>4. ReadsNoFurther'
  BY <1>1, <1>3 DEF ReadsNoFurther
<1> QED
  BY <1>2, <1>4, ReturnLast DEF LInv

\* a step inside a token, or an Error
LEMMA InsideToken ==
  ASSUME LexTypeOK, peek \/ consume,
         NEW place \in Places \cup {"error"}, NEW w \in Seq(STRING), GoTo(place, w)
  PROVE  LInv'
<1>1. pos' \in 0..Len(input) /\ taken' \in {pos', pos' + 1}
  BY StreamType
<1>2. LexTypeOK'
  BY <1>1 DEF GoTo, LexTypeOK
<1>3. ReadsNoFurther'
  BY DEF GoTo, ReadsNoFurther, Places
<1> QED
  BY <1>2, <1>3 DEF LInv

\* An Error.
LEMMA Throws ==
  ASSUME LexTypeOK, Throw
  PROVE  LInv'
<1>1. text \in Seq(STRING)
  BY DEF LexTypeOK
<1> QED
  BY <1>1, InsideToken DEF Throw

-----------------------------------------------------------------------------

\* Each step of the lexer keeps the invariant.
LEMMA LexStep ==
  ASSUME LInv, LexNext
  PROVE  LInv'
<1> USE DEF LInv
<1>1. text \in Seq(STRING) /\ grown \in Seq(STRING) /\ <<>> \in Seq(STRING)
  BY CurCharType DEF LexTypeOK
<1>2. CASE nextToken
  BY <1>2 DEF nextToken, GoTo, LexTypeOK, ReadsNoFurther, Places
<1>3. CASE AtEnd
  BY <1>1, <1>3, PeekReturn DEF AtEnd, TokenTypes
<1>4. CASE SkipSpace
  BY <1>1, <1>4, InsideToken DEF SkipSpace, Places
<1>5. CASE Punctuation
  <2>1. curChar # EOF /\ consume
    BY <1>5 DEF Punctuation, EOF
  <2>2. <<curChar>> \in Seq(STRING)
    BY <2>1, CurCharType, CharSeqFacts
  <2>3. \E type \in {"LPAREN", "RPAREN", "QUOTE"} : Return(type, <<curChar>>)
    BY <1>5 DEF Punctuation
  <2> QED
    BY <2>1, <2>2, <2>3, ConsumeReturn
<1>6. CASE InvalidCharacter
  BY <1>6, Throws DEF InvalidCharacter
<1>7. CASE getIdentifier
  BY <1>1, <1>7, InsideToken, PeekReturn, Throws DEF getIdentifier, Places, TokenTypes
<1>8. CASE getPeculiarIdentifier
  BY <1>1, <1>8, InsideToken, PeekReturn DEF getPeculiarIdentifier, Places, TokenTypes
<1>9. CASE getNumber
  BY <1>1, <1>9, InsideToken, PeekReturn DEF getNumber, Places, TokenTypes
<1>10. CASE getDot
  BY <1>1, <1>10, InsideToken, PeekReturn, Throws DEF getDot, Places, TokenTypes
<1>11. CASE skipComment
  BY <1>1, <1>11, InsideToken DEF skipComment, Places
<1>12. CASE getString
  <2>1. CASE pc = "string" /\ curChar = "\"" /\ consume /\ Return("STRING", text)
    <3>1. curChar # EOF
      BY <2>1 DEF EOF
    <3> QED
      BY <1>1, <2>1, <3>1, ConsumeReturn
  <2> QED
    BY <1>1, <1>12, <2>1, InsideToken DEF getString, Places
<1>13. CASE getPoundSpecial
  BY <1>1, <1>13, InsideToken, PeekReturn, Throws DEF getPoundSpecial, Places, TokenTypes
<1> QED
  BY <1>2, <1>3, <1>4, <1>5, <1>6, <1>7, <1>8, <1>9, <1>10, <1>11, <1>12, <1>13 DEF LexNext

\* It holds at the beginning.
LEMMA LInit == Init => LInv
<1> SUFFICES ASSUME Init PROVE LInv
  OBVIOUS
<1>1. input \in Seq(STRING)
  BY InputsAssumption DEF Init, LexInit
<1> QED
  BY <1>1 DEF Init, LexInit, LInv, LexTypeOK, ReadsNoFurther

\* programs run and numbers are converted with the lexer at rest
LEMMA ReaderStep == LInv /\ [Next]_vars => LInv'
<1> SUFFICES ASSUME LInv, [Next]_vars PROVE LInv'
  OBVIOUS
<1>1. CASE Lex
  BY <1>1, LexStep DEF Lex
<1>2. CASE UNCHANGED lexVars
  BY <1>2 DEF lexVars, LInv, LexTypeOK, ReadsNoFurther
<1>3. UNCHANGED vars => UNCHANGED lexVars
  BY DEF vars, lexVars
<1> QED
  BY <1>1, <1>2, <1>3 DEF Next, Run

(***************************************************************************)
(* Whatever the text, when the lexer returns a token it has not asked the    *)
(* stream for a character that the token does not need: a list typed at the   *)
(* prompt is answered with its last parenthesis.                             *)
(***************************************************************************)
THEOREM NeverReadsFurther == Spec => []ReadsNoFurther
<1>1. LInv => ReadsNoFurther
  BY DEF LInv
<1> QED
  BY <1>1, LInit, ReaderStep, PTL DEF Spec

-----------------------------------------------------------------------------
\* The scanner's functions of the text.
FirstIn(s, p, S) ==
  LET ks == {k \in p..(Len(s) - 1) : s[k + 1] \in S}
  IN IF ks = {} THEN Len(s) ELSE CHOOSE k \in ks : \A j \in ks : k <= j

BeginsIn(s, p) ==
  LET B[q \in 0..Len(s)] ==
        CASE q < Len(s) /\ s[q + 1] \in Space -> B[q + 1]
          [] q < Len(s) /\ s[q + 1] = ";" ->
               LET e == FirstIn(s, q, LineEnd)
               IN IF e = Len(s) THEN -1 ELSE B[e + 1]
          [] OTHER -> q
  IN B[p]

\* The first such position, or the end of the text.
LEMMA FirstInFacts ==
  ASSUME NEW s \in Seq(STRING), NEW p \in 0..Len(s), NEW S
  PROVE  /\ FirstIn(s, p, S) \in p..Len(s)
         /\ \A k \in p..(FirstIn(s, p, S) - 1) : s[k + 1] \notin S
         /\ FirstIn(s, p, S) < Len(s) => s[FirstIn(s, p, S) + 1] \in S
<1> DEFINE L == Len(s)
           ks == {k \in p..(L - 1) : s[k + 1] \in S}
           e == FirstIn(s, p, S)
<1>1. L \in Nat /\ p \in 0..L
  OBVIOUS
<1> HIDE DEF L
<1>2. CASE ks = {}
  <2>1. e = L
    BY <1>2 DEF FirstIn, L
  <2>2. \A k \in p..(L - 1) : s[k + 1] \notin S
    BY <1>2
  <2> HIDE DEF e
  <2> QED
    BY <1>1, <2>1, <2>2 DEF L, e
<1>3. CASE ks # {}
  <2>1. ks \in SUBSET Nat
    BY <1>1
  <2>2. \E k \in ks : \A j \in ks : k <= j
    <3> HIDE DEF ks
    <3> QED
      BY <1>3, <2>1, LeastNatural
  <2>3. e = CHOOSE k \in ks : \A j \in ks : k <= j
    BY <1>3 DEF FirstIn, L
  <2> HIDE DEF e
  <2>4. e \in ks /\ \A j \in ks : e <= j
    <3> HIDE DEF ks
    <3> QED
      BY <2>2, <2>3
  <2>5. e \in p..(L - 1) /\ s[e + 1] \in S
    BY <2>4
  <2>6. ASSUME NEW k \in p..(e - 1) PROVE s[k + 1] \notin S
    <3>1. e \in Nat /\ k \in p..(L - 1) /\ ~(e <= k)
      BY <1>1, <2>5
    <3> QED
      BY <2>4, <3>1
  <2>7. e \in p..L
    BY <1>1, <2>5
  <2> QED
    BY <2>5, <2>6, <2>7 DEF e, L
<1> QED
  BY <1>2, <1>3

\* and is the only such position
LEMMA FirstInIs ==
  ASSUME NEW s \in Seq(STRING), NEW p \in 0..Len(s), NEW S, NEW e \in p..Len(s),
         \A k \in p..(e - 1) : s[k + 1] \notin S,
         e < Len(s) => s[e + 1] \in S
  PROVE  FirstIn(s, p, S) = e
<1> DEFINE f == FirstIn(s, p, S)
<1>1. /\ f \in p..Len(s)
      /\ \A k \in p..(f - 1) : s[k + 1] \notin S
      /\ f < Len(s) => s[f + 1] \in S
  BY FirstInFacts
<1> HIDE DEF f
<1>2. Len(s) \in Nat /\ p \in Nat /\ e \in Nat /\ f \in Nat
  BY <1>1
<1>3. ~(f < e)
  <2> SUFFICES ASSUME f < e PROVE FALSE
    OBVIOUS
  <2>1. f \in p..(e - 1) /\ f < Len(s)
    BY <1>1, <1>2
  <2> QED
    BY <1>1, <2>1
<1>4. ~(e < f)
  <2> SUFFICES ASSUME e < f PROVE FALSE
    OBVIOUS
  <2>1. e \in p..(f - 1) /\ e < Len(s)
    BY <1>1, <1>2
  <2> QED
    BY <1>1, <2>1
<1> QED
  BY <1>2, <1>3, <1>4 DEF f

BeginsCase(s, q, B) ==
  CASE q < Len(s) /\ s[q + 1] \in Space -> B[q + 1]
    [] q < Len(s) /\ s[q + 1] = ";" ->
         LET e == FirstIn(s, q, LineEnd) IN IF e = Len(s) THEN -1 ELSE B[e + 1]
    [] OTHER -> q

\* one round of Begins
LEMMA BeginsStep ==
  ASSUME NEW s \in Seq(STRING), NEW p \in 0..Len(s)
  PROVE  /\ p < Len(s) /\ s[p + 1] \in Space => BeginsIn(s, p) = BeginsIn(s, p + 1)
         /\ p < Len(s) /\ s[p + 1] = ";" =>
              BeginsIn(s, p) = IF FirstIn(s, p, LineEnd) = Len(s) THEN -1
                               ELSE BeginsIn(s, FirstIn(s, p, LineEnd) + 1)
         /\ ~(p < Len(s) /\ (s[p + 1] \in Space \/ s[p + 1] = ";")) => BeginsIn(s, p) = p
<1> DEFINE L == Len(s)
           X == Int
           Rev(f) == [q \in 0..L |-> f[L - q]]
           E(n, f) == BeginsCase(s, L - n, Rev(f))
           G == [n \in 0..L |-> [f \in [0..L -> X] |-> E(n, f)]]
           B == CHOOSE F : F = [q \in 0..L |-> BeginsCase(s, q, F)]
           First(q) == FirstIn(s, q, LineEnd)
<1>1. L \in Nat
  OBVIOUS
<1>0. ";" \notin Space
  BY DEF Space
<1>2. ASSUME NEW q \in 0..L PROVE First(q) \in q..L
  BY FirstInFacts
<1>3. ASSUME NEW q \in 0..L, NEW f
      PROVE  /\ q < L /\ s[q + 1] \in Space => BeginsCase(s, q, f) = f[q + 1]
             /\ q < L /\ s[q + 1] = ";" =>
                  BeginsCase(s, q, f) = IF First(q) = L THEN -1 ELSE f[First(q) + 1]
             /\ ~(q < L /\ (s[q + 1] \in Space \/ s[q + 1] = ";")) =>
                  BeginsCase(s, q, f) = q
  <2> HIDE DEF L
  <2> QED
    BY <1>0, <1>1, Zenon DEF BeginsCase, L
<1>4. \A p1 : BeginsIn(s, p1) = B[p1]
  BY DEF BeginsIn, BeginsCase
<1> HIDE DEF L, First, B
<1>5. ASSUME NEW n \in 0..L, NEW f \in [0..L -> X]
      PROVE  E(n, f) \in X
  <2> DEFINE q == L - n
             g == Rev(f)
  <2>1. q \in 0..L
    BY <1>1
  <2>2. \A r \in 0..L : g[r] \in X
    BY <1>1
  <2>3. /\ q < L => q + 1 \in 0..L
        /\ First(q) # L => First(q) + 1 \in 0..L
        /\ q \in Int
    <3> HIDE DEF q
    <3>1. First(q) \in q..L
      BY <1>2, <2>1
    <3> QED
      BY <1>1, <2>1, <3>1
  <2> HIDE DEF q, g
  <2>4. BeginsCase(s, q, g) \in X
    <3> DEFINE blank == q < L /\ s[q + 1] \in Space
               remark == q < L /\ s[q + 1] = ";"
    <3>1. blank \/ remark \/ ~(q < L /\ (s[q + 1] \in Space \/ s[q + 1] = ";"))
      OBVIOUS
    <3>2. CASE blank
      BY <1>3, <2>1, <2>2, <2>3, <3>2
    <3>3. CASE remark
      <4>1. BeginsCase(s, q, g) = IF First(q) = L THEN -1 ELSE g[First(q) + 1]
        BY <1>3, <2>1, <3>3, Zenon
      <4>2. First(q) # L => g[First(q) + 1] \in X
        BY <2>2, <2>3
      <4> QED
        BY <4>1, <4>2
    <3>4. CASE ~(q < L /\ (s[q + 1] \in Space \/ s[q + 1] = ";"))
      BY <1>3, <2>1, <2>3, <3>4
    <3> QED
      BY <3>1, <3>2, <3>3, <3>4
  <2> QED
    BY <2>4 DEF q, g
<1>6. ASSUME NEW n \in 0..L, NEW f \in [0..L -> X], NEW g \in [0..L -> X],
             \A j \in 0..(n - 1) : f[j] = g[j]
      PROVE  E(n, f) = E(n, g)
  <2> DEFINE q == L - n
             f1 == Rev(f)
             g1 == Rev(g)
  <2>1. q \in 0..L
    BY <1>1
  <2>2. \A r \in 0..L : r > q => f1[r] = g1[r]
    BY <1>1, <1>6
  <2>3. /\ q < L => q + 1 \in 0..L /\ q + 1 > q
        /\ First(q) # L => First(q) + 1 \in 0..L /\ First(q) + 1 > q
    <3> DEFINE e == First(q)
    <3> HIDE DEF q
    <3>1. e \in q..L
      BY <1>2, <2>1
    <3> HIDE DEF e, f1, g1
    <3>2. (q < L => q + 1 \in 0..L) /\ q + 1 > q
      BY <1>1, <2>1
    <3>3. (e # L => e + 1 \in 0..L) /\ e + 1 > q
      BY <1>1, <2>1, <3>1
    <3> QED
      BY <3>2, <3>3 DEF e
  <2> HIDE DEF q, f1, g1
  <2>4. BeginsCase(s, q, f1) = BeginsCase(s, q, g1)
    <3> DEFINE blank == q < L /\ s[q + 1] \in Space
               remark == q < L /\ s[q + 1] = ";"
    <3>1. blank \/ remark \/ ~(q < L /\ (s[q + 1] \in Space \/ s[q + 1] = ";"))
      OBVIOUS
    <3>2. CASE blank
      <4>1. BeginsCase(s, q, f1) = f1[q + 1] /\ BeginsCase(s, q, g1) = g1[q + 1]
        BY <1>3, <2>1, <3>2, Zenon
      <4>2. f1[q + 1] = g1[q + 1]
        BY <2>2, <2>3, <3>2
      <4> QED
        BY <4>1, <4>2, Zenon
    <3>3. CASE remark
      <4>1. /\ BeginsCase(s, q, f1) = IF First(q) = L THEN -1 ELSE f1[First(q) + 1]
            /\ BeginsCase(s, q, g1) = IF First(q) = L THEN -1 ELSE g1[First(q) + 1]
        BY <1>3, <2>1, <3>3, Zenon
      <4>2. First(q) # L => f1[First(q) + 1] = g1[First(q) + 1]
        BY <2>2, <2>3
      <4>3. CASE First(q) = L
        BY <4>1, <4>3, Zenon
      <4>4. CASE First(q) # L
        BY <4>1, <4>2, <4>4, Zenon
      <4> QED
        BY <4>3, <4>4
    <3>4. CASE ~(q < L /\ (s[q + 1] \in Space \/ s[q + 1] = ";"))
      <4>1. BeginsCase(s, q, f1) = q /\ BeginsCase(s, q, g1) = q
        BY <1>3, <2>1, <3>4, Zenon
      <4> QED
        BY <4>1, Zenon
    <3> QED
      BY <3>1, <3>2, <3>3, <3>4
  <2> QED
    BY <2>4 DEF q, f1, g1
<1>7. G \in Functionals(L, X)
  <2> HIDE DEF E, X
  <2> QED
    BY <1>5 DEF Functionals
<1>8. LooksBelow(G, L, X)
  <2> HIDE DEF E, X
  <2> QED
    BY <1>6 DEF LooksBelow
<1>9. PICK F : Fixpoint(F, G, L, X)
  <2>1. X # {}
    OBVIOUS
  <2> HIDE DEF G, X
  <2> QED
    BY <1>1, <1>7, <1>8, <2>1, RecursiveFunction
<1>10. \A n \in 0..L : F[n] = E(n, F)
  BY <1>9 DEF Fixpoint
<1> DEFINE Solution == Rev(F)
<1>11. Solution = [q \in 0..L |-> BeginsCase(s, q, Solution)]
  <2>1. ASSUME NEW q \in 0..L PROVE Solution[q] = BeginsCase(s, q, Solution)
    <3>1. L - q \in 0..L /\ L - (L - q) = q
      BY <1>1
    <3>2. Solution[q] = E(L - q, F)
      BY <1>10, <3>1
    <3> QED
      BY <3>1, <3>2
  <2>2. Solution = [q \in 0..L |-> Solution[q]]
    OBVIOUS
  <2> HIDE DEF Solution
  <2> QED
    BY <2>1, <2>2
<1>12. B = [q \in 0..L |-> BeginsCase(s, q, B)]
  <2> HIDE DEF Solution
  <2> QED
    BY <1>11 DEF B
<1>13. B[p] = BeginsCase(s, p, B)
  BY <1>12 DEF L
<1> QED
  BY <1>0, <1>1, <1>3, <1>4, <1>13 DEF L, First

-----------------------------------------------------------------------------

LastEnd == IF tokens = <<>> THEN 0 ELSE tokens[Len(tokens)].end

\* where the token that is being read begins
Origin == BeginsIn(input, LastEnd)

RunPlaces == {"ident", "sign", "number", "digits", "dot", "dots", "ellipsis", "pound", "bool"}

Unclear == {<<"+">>, <<"-">>, <<".">>}

\* what each place in the lexer knows of the run that it is in
Shape(place, w) ==
  CASE place = "ident" -> w[1] \in Initial /\ \A k \in 1..Len(w) : w[k] \in Subsequent
    [] place = "sign" -> w \in {<<"+">>, <<"-">>}
    [] place = "number" ->
         IF pos = Len(input) THEN w \in Unclear
         ELSE ~isDelimiter /\ ScannerSpec!IsNumber(Append(w, curChar))
    [] place = "digits" -> ScannerSpec!IsNumber(w) \/ (pos = Len(input) /\ w \in Unclear)
    [] place = "dot" -> w = <<".">>
    [] place = "dots" -> w = <<".", ".">>
    [] place = "ellipsis" -> w = <<".", ".", ".">>
    [] place = "pound" -> w = <<"#">>
    [] place = "bool" -> w \in {<<"#", "t">>, <<"#", "f">>}

AtRest == pc = "idle" /\ ~Ended => pos = LastEnd

Looking == pc = "next" => text = <<>> /\ Origin = BeginsIn(input, pos)

InComment ==
  pc = "comment" =>
    \E q \in 0..(pos - 1) :
      /\ input[q + 1] = ";"
      /\ Origin = BeginsIn(input, q)
      /\ \A k \in q..(pos - 1) : input[k + 1] \notin LineEnd

InString ==
  pc = "string" =>
    /\ Origin \in 0..(pos - 1)
    /\ input[Origin + 1] = "\""
    /\ \A k \in (Origin + 1)..(pos - 1) : input[k + 1] # "\""
    /\ text = SubSeq(input, Origin + 2, pos)

RunSoFar(b, p, w) ==
  /\ b \in 0..(p - 1)
  /\ input[b + 1] \notin {EOF, "(", ")", "'"}
  /\ \A k \in b..(p - 1) : input[k + 1] \notin Delimiter
  /\ w = SubSeq(input, b + 1, p)

InRun == pc \in RunPlaces => RunSoFar(Origin, pos, text) /\ Shape(pc, text)

StillAsked == pc \notin {"idle", "error"} => ~Ended

ScanInv == AtRest /\ Looking /\ InComment /\ InString /\ InRun /\ StillAsked

\* Both sides mean the same by the classes of characters.
LEMMA ScannerClasses ==
  /\ ScannerSpec!EOF = EOF /\ ScannerSpec!Space = Space /\ ScannerSpec!LineEnd = LineEnd
  /\ ScannerSpec!Digit = Digit /\ ScannerSpec!Initial = Initial
  /\ ScannerSpec!Subsequent = Subsequent /\ ScannerSpec!Delimiter = Delimiter
  /\ ScannerSpec!Radix = Radix /\ ScannerSpec!Exactness = Exactness
BY DEF ScannerSpec!EOF, EOF, ScannerSpec!Space, Space, ScannerSpec!LineEnd, LineEnd,
       ScannerSpec!Digit, Digit, ScannerSpec!Initial, Initial, ScannerSpec!Letter, Letter,
       ScannerSpec!SpecialInitial, SpecialInitial, ScannerSpec!Subsequent, Subsequent,
       ScannerSpec!Delimiter, Delimiter, ScannerSpec!Radix, Radix,
       ScannerSpec!Exactness, Exactness

\* The scanner inside the lexer, in these terms.
LEMMA ScannerTerms ==
  /\ \A p, S : ScannerSpec!FirstFrom(p, S) = FirstIn(input, p, S)
  /\ \A p : ScannerSpec!Begins(p) = BeginsIn(input, p)
  /\ ScannerSpec!Last.end = LastEnd
  /\ Ended <=> ScannerSpec!Last.type = "EOF"
<1>1. \A p, S : ScannerSpec!FirstFrom(p, S) = FirstIn(input, p, S)
  BY DEF ScannerSpec!FirstFrom, FirstIn
<1>2. \A p : ScannerSpec!Begins(p) = BeginsIn(input, p)
  BY ScannerClasses DEF ScannerSpec!Begins, BeginsIn, ScannerSpec!FirstFrom, FirstIn
<1>3. ScannerSpec!Last.end = LastEnd
  BY DEF ScannerSpec!Last, ScannerSpec!Token, LastEnd
<1>4. Ended <=> ScannerSpec!Last.type = "EOF"
  BY DEF ScannerSpec!Last, ScannerSpec!Token, Ended
<1> QED
  BY <1>1, <1>2, <1>3, <1>4

\* Part of a text.
LEMMA PartOfText ==
  ASSUME NEW s \in Seq(STRING), NEW b \in 0..Len(s), NEW e \in b..Len(s)
  PROVE  /\ SubSeq(s, b + 1, e) \in Seq(STRING)
         /\ Len(SubSeq(s, b + 1, e)) = e - b
         /\ \A k \in 1..(e - b) : SubSeq(s, b + 1, e)[k] = s[b + k]
         /\ e < Len(s) => SubSeq(s, b + 1, e + 1) = Append(SubSeq(s, b + 1, e), s[e + 1])
<1> DEFINE w == SubSeq(s, b + 1, e)
<1>1. /\ w \in Seq(STRING) /\ Len(w) = e - b
      /\ \A k \in 1..(e - b) : w[k] = s[b + k]
  OBVIOUS
<1>2. ASSUME e < Len(s) PROVE SubSeq(s, b + 1, e + 1) = Append(w, s[e + 1])
  <2> DEFINE v == SubSeq(s, b + 1, e + 1)
  <2>1. /\ v \in Seq(STRING) /\ Len(v) = e + 1 - b
        /\ \A k \in 1..(e + 1 - b) : v[k] = s[b + k]
    BY <1>2
  <2>2. Append(w, s[e + 1]) \in Seq(STRING)
    BY <1>1, <1>2
  <2> QED
    BY <1>1, <1>2, <2>1, <2>2
<1> QED
  BY <1>1, <1>2

\* How far the run that begins at b goes, when it has come to pos.
LEMMA RunEnd ==
  ASSUME LexTypeOK, NEW b \in 0..pos,
         \A k \in b..(pos - 1) : input[k + 1] \notin Delimiter
  PROVE  /\ FirstIn(input, b, Delimiter) \in pos..Len(input)
         /\ pos < Len(input) /\ curChar \notin Delimiter => FirstIn(input, b, Delimiter) > pos
         /\ pos = Len(input) \/ curChar \in Delimiter => FirstIn(input, b, Delimiter) = pos
<1> DEFINE e == FirstIn(input, b, Delimiter)
           L == Len(input)
<1>1. input \in Seq(STRING) /\ L \in Nat /\ pos \in 0..L
  BY CurCharType DEF LexTypeOK
<1>2. /\ e \in b..L
      /\ e < L => input[e + 1] \in Delimiter
      /\ \A k \in b..(e - 1) : input[k + 1] \notin Delimiter
  BY <1>1, FirstInFacts
<1>3. curChar = IF pos < L THEN input[pos + 1] ELSE EOF
  BY DEF curChar
<1>4. EOF \notin Delimiter
  BY DEF EOF, Delimiter, Space
<1> HIDE DEF e, L
<1>5. e \in pos..L
  <2>1. ASSUME e < pos PROVE FALSE
    <3>1. e < L /\ e \in b..(pos - 1)
      BY <1>1, <1>2, <2>1
    <3> QED
      BY <1>2, <3>1
  <2> QED
    BY <1>1, <1>2, <2>1
<1>6. ASSUME pos < L, curChar \notin Delimiter PROVE e > pos
  <2>1. e # pos
    BY <1>2, <1>3, <1>6
  <2> QED
    BY <1>1, <1>5, <2>1
<1>7. ASSUME pos = L \/ curChar \in Delimiter PROVE e = pos
  <2>1. CASE pos = L
    BY <1>1, <1>5, <2>1
  <2>2. CASE pos # L
    <3>1. pos < L /\ input[pos + 1] \in Delimiter
      BY <1>1, <1>3, <1>7, <2>2
    <3>2. ASSUME e > pos PROVE FALSE
      <4>1. pos \in b..(e - 1)
        BY <1>1, <1>5, <3>2
      <4> QED
        BY <1>2, <3>1, <4>1
    <3> QED
      BY <1>1, <1>5, <3>2
  <2> QED
    BY <2>1, <2>2
<1> QED
  BY <1>5, <1>6, <1>7 DEF e, L

Special == {EOF, "(", ")", "'"}

\* What TokenAt says of a run.
LEMMA TokenAtRun ==
  ASSUME NEW b \in 0..Len(input), input \in Seq(STRING), b < Len(input),
         input[b + 1] \notin Special, input[b + 1] \notin Delimiter,
         NEW e, e = FirstIn(input, b, Delimiter),
         NEW w, w = SubSeq(input, b + 1, e)
  PROVE  /\ e < Len(input) =>
              ScannerSpec!TokenAt(b) = ScannerSpec!Token(ScannerSpec!RunType(w), w, e)
         /\ e = Len(input) /\ ~ScannerSpec!IsNumber(w) /\ w \notin Unclear =>
              ScannerSpec!TokenAt(b) = ScannerSpec!Token("error", <<>>, b)
<1>1. /\ b # Len(input)
      /\ input[b + 1] # EOF
      /\ input[b + 1] \notin {"(", ")", "'"}
      /\ input[b + 1] # "\""
  <2>1. input[b + 1] # EOF /\ input[b + 1] \notin {"(", ")", "'"}
    BY DEF Special
  <2>2. input[b + 1] # "\""
    BY DEF Delimiter
  <2>3. b # Len(input)
    BY SeqFacts
  <2> QED
    BY <2>1, <2>2, <2>3
<1>2. e = ScannerSpec!FirstFrom(b, Delimiter)
  BY ScannerTerms
<1>3. e < Len(input) => e # Len(input)
  <2>1. Len(input) \in Nat /\ e \in b..Len(input)
    BY FirstInFacts
  <2> QED
    BY <2>1
<1> QED
  BY <1>1, <1>2, <1>3, ScannerClasses, Zenon DEF ScannerSpec!TokenAt, Unclear

\* The text of a run is what lies between its beginning and pos.
LEMMA RunText ==
  ASSUME LexTypeOK, NEW b, NEW p \in 0..Len(input), NEW w, RunSoFar(b, p, w)
  PROVE  /\ b \in 0..p /\ b \in 0..Len(input) /\ b < p /\ b < Len(input)
         /\ w \in Seq(STRING) /\ Len(w) = p - b
         /\ \A k \in 1..(p - b) : w[k] = input[b + k]
         /\ w[1] = input[b + 1]
         /\ input[b + 1] \notin Special /\ input[b + 1] \notin Delimiter
<1>1. input \in Seq(STRING) /\ Len(input) \in Nat
  BY CurCharType
<1>2. b \in 0..(p - 1) /\ w = SubSeq(input, b + 1, p)
  BY DEF RunSoFar
<1>3. b \in 0..p /\ b \in 0..Len(input) /\ b < p /\ b < Len(input) /\ p \in b..Len(input)
  BY <1>1, <1>2
<1>4. /\ w \in Seq(STRING) /\ Len(w) = p - b
      /\ \A k \in 1..(p - b) : w[k] = input[b + k]
  BY <1>1, <1>2, <1>3, PartOfText
<1>5. 1 \in 1..(p - b) /\ b \in b..(p - 1)
  BY <1>2, <1>3
<1>6. input[b + 1] \notin Special /\ input[b + 1] \notin Delimiter
  BY <1>5 DEF RunSoFar, Special
<1> QED
  BY <1>3, <1>4, <1>5, <1>6

\* A run that has come to a delimiter is a token of the type that RunType says.
LEMMA RunDone ==
  ASSUME LexTypeOK, NEW b, RunSoFar(b, pos, text), isDelimiter
  PROVE  ScannerSpec!TokenAt(b) = ScannerSpec!Token(ScannerSpec!RunType(text), text, pos)
<1>1. input \in Seq(STRING) /\ Len(input) \in Nat /\ pos \in 0..Len(input)
  BY CurCharType DEF LexTypeOK
<1>2. /\ b \in 0..pos /\ b \in 0..Len(input) /\ b < Len(input)
      /\ input[b + 1] \notin Special /\ input[b + 1] \notin Delimiter
  BY <1>1, RunText
<1>3. curChar \in Delimiter /\ curChar # EOF
  BY DEF isDelimiter, EOF, Delimiter, Space
<1>4. pos < Len(input)
  BY <1>3, CurCharType
<1>5. FirstIn(input, b, Delimiter) = pos
  BY <1>2, <1>3, RunEnd DEF RunSoFar
<1>6. text = SubSeq(input, b + 1, pos)
  BY DEF RunSoFar
<1> QED
  BY <1>1, <1>2, <1>4, <1>5, <1>6, TokenAtRun

\* no token, however the run goes on behind e
NoToken(w, e) ==
  /\ ~ScannerSpec!IsNumber(w) /\ w \notin Unclear
  /\ e < Len(input) => ~ScannerSpec!IsIdentifier(w) /\ ~ScannerSpec!IsBoolean(w)

\* A run that is no token is an error.
LEMMA RunBad ==
  ASSUME NEW b \in 0..Len(input), input \in Seq(STRING), b < Len(input),
         input[b + 1] \notin Special, input[b + 1] \notin Delimiter,
         NoToken(SubSeq(input, b + 1, FirstIn(input, b, Delimiter)),
                 FirstIn(input, b, Delimiter))
  PROVE  ScannerSpec!TokenAt(b).type = "error"
<1> DEFINE e == FirstIn(input, b, Delimiter)
           w == SubSeq(input, b + 1, e)
<1>1. /\ e < Len(input) =>
           ScannerSpec!TokenAt(b) = ScannerSpec!Token(ScannerSpec!RunType(w), w, e)
      /\ e = Len(input) /\ ~ScannerSpec!IsNumber(w) /\ w \notin Unclear =>
           ScannerSpec!TokenAt(b) = ScannerSpec!Token("error", <<>>, b)
  BY TokenAtRun
<1>2. e \in b..Len(input) /\ Len(input) \in Nat
  BY FirstInFacts
<1> HIDE DEF e, w
<1>3. NoToken(w, e)
  BY DEF e, w
<1>4. CASE e < Len(input)
  <2>1. ScannerSpec!RunType(w) = "error"
    BY <1>3, <1>4 DEF NoToken, Unclear, ScannerSpec!RunType
  <2> QED
    BY <1>1, <1>4, <2>1 DEF ScannerSpec!Token
<1>5. CASE e = Len(input)
  BY <1>1, <1>3, <1>5 DEF NoToken, ScannerSpec!Token
<1> QED
  BY <1>2, <1>4, <1>5

\* A run grows by a character that does not delimit it.
LEMMA RunGrows ==
  ASSUME LexTypeOK, NEW b, RunSoFar(b, pos, text), pos < Len(input), curChar \notin Delimiter
  PROVE  RunSoFar(b, pos + 1, Append(text, curChar))
<1>1. input \in Seq(STRING) /\ Len(input) \in Nat /\ pos \in 0..Len(input)
  BY CurCharType DEF LexTypeOK
<1>2. /\ b \in 0..(pos - 1) /\ input[b + 1] \notin {EOF, "(", ")", "'"}
      /\ \A k \in b..(pos - 1) : input[k + 1] \notin Delimiter
      /\ text = SubSeq(input, b + 1, pos)
  BY DEF RunSoFar
<1>3. curChar = input[pos + 1]
  BY DEF curChar
<1>4. b \in 0..Len(input) /\ pos \in b..Len(input)
  BY <1>1, <1>2
<1>5. SubSeq(input, b + 1, pos + 1) = Append(text, curChar)
  BY <1>1, <1>2, <1>3, <1>4, PartOfText
<1>6. ASSUME NEW k \in b..((pos + 1) - 1) PROVE input[k + 1] \notin Delimiter
  <2>1. k = pos \/ k \in b..(pos - 1)
    BY <1>1, <1>2
  <2> QED
    BY <1>2, <1>3, <2>1
<1>7. b \in 0..((pos + 1) - 1)
  BY <1>1, <1>2
<1> QED
  BY <1>2, <1>5, <1>6, <1>7 DEF RunSoFar

\* It begins with one that is neither a delimiter nor a token by itself.
LEMMA RunBegins ==
  ASSUME LexTypeOK, curChar \notin Special, curChar \notin Delimiter
  PROVE  /\ pos < Len(input)
         /\ RunSoFar(pos, pos + 1, <<curChar>>)
<1>1. input \in Seq(STRING) /\ Len(input) \in Nat /\ pos \in 0..Len(input)
  BY CurCharType DEF LexTypeOK
<1>2. pos < Len(input) /\ curChar = input[pos + 1] /\ curChar \in STRING
  BY CurCharType DEF curChar, Special
<1>3. SubSeq(input, pos + 1, pos + 1) = <<curChar>>
  <2> DEFINE v == SubSeq(input, pos + 1, pos + 1)
  <2>1. v \in Seq(STRING) /\ Len(v) = 1 /\ v[1] = input[pos + 1]
    BY <1>1, <1>2
  <2>2. <<curChar>> \in Seq(STRING) /\ Len(<<curChar>>) = 1 /\ <<curChar>>[1] = curChar
    BY <1>2
  <2> HIDE DEF v
  <2>3. v = <<v[1]>>
    BY <2>1
  <2> QED
    BY <1>2, <2>1, <2>3 DEF v
<1>4. ASSUME NEW k \in pos..((pos + 1) - 1) PROVE input[k + 1] \notin Delimiter
  <2>1. k = pos
    BY <1>1
  <2> QED
    BY <1>2, <2>1
<1>5. pos \in 0..((pos + 1) - 1)
  BY <1>1
<1> QED
  BY <1>2, <1>3, <1>4, <1>5 DEF RunSoFar, Special

\* Which characters are of which class.
LEMMA Classes ==
  /\ \A c \in Digit : c \notin Initial /\ c \notin Special /\ c \notin Delimiter
  /\ \A c \in Initial : c \notin Special /\ c \notin Delimiter
  /\ \A c \in Subsequent : c \notin Delimiter /\ c # EOF
  /\ \A c \in {"+", "-", ".", "#"} :
       c \notin Initial /\ c \notin Digit /\ c \notin Special /\ c \notin Delimiter
  /\ \A c \in {"t", "f"} \cup Radix \cup Exactness : c \notin Delimiter /\ c # EOF
  /\ \A c \in {"t", "f"} : c \notin Radix \cup Exactness
  /\ EOF \notin Delimiter
<1>0. \A c \in Digit : c \notin Letter
  BY DEF Digit, Letter
<1>1. \A c \in Digit : c \notin SpecialInitial
  BY DEF Digit, SpecialInitial
<1>2. \A c \in Digit : c \notin Special /\ c \notin Delimiter
  BY DEF Digit, Special, EOF, Delimiter, Space
<1>3. \A c \in Letter : c \notin Special
  BY DEF Letter, Special, EOF
<1>4. ASSUME NEW c \in Letter PROVE c \notin Delimiter
  BY DEF Letter, Delimiter, Space
<1>5. \A c \in SpecialInitial : c \notin Special
  BY DEF SpecialInitial, Special, EOF
<1>6. \A c \in SpecialInitial : c \notin Delimiter
  BY DEF SpecialInitial, Delimiter, Space
<1>7. \A c \in {"+", "-", ".", "@"} : c \notin Delimiter /\ c # EOF
  BY DEF Delimiter, Space, EOF
<1>8. \A c \in {"+", "-", ".", "#"} : c \notin Letter
  BY DEF Letter
<1>9. \A c \in {"+", "-", ".", "#"} : c \notin SpecialInitial /\ c \notin Digit
  BY DEF SpecialInitial, Digit
<1>10. \A c \in {"+", "-", ".", "#"} : c \notin Special /\ c \notin Delimiter
  BY DEF Special, EOF, Delimiter, Space
<1>11. \A c \in {"t", "f"} \cup Radix \cup Exactness : c \notin Delimiter /\ c # EOF
  BY DEF Radix, Exactness, Delimiter, Space, EOF
<1>12. \A c \in {"t", "f"} : c \notin Radix \cup Exactness
  BY DEF Radix, Exactness
<1>13. EOF \notin Delimiter /\ EOF \in Special
  BY DEF EOF, Delimiter, Space, Special
<1>14. \A c \in Digit : c \notin Initial
  BY <1>0, <1>1 DEF Initial
<1>15. \A c \in Initial : c \notin Special /\ c \notin Delimiter
  BY <1>3, <1>4, <1>5, <1>6 DEF Initial
<1>16. \A c \in {"+", "-", ".", "#"} : c \notin Initial
  BY <1>8, <1>9 DEF Initial
<1>17. \A c \in Subsequent : c \notin Delimiter /\ c # EOF
  <2>1. \A c \in Initial \cup Digit : c \notin Delimiter /\ c # EOF
    BY <1>2, <1>13, <1>15
  <2> QED
    BY <1>7, <2>1 DEF Subsequent
<1> QED
  BY <1>2, <1>9, <1>10, <1>11, <1>12, <1>13, <1>14, <1>15, <1>16, <1>17

\* The type of each run that is a token.
LEMMA RunTypes ==
  /\ \A w : ScannerSpec!IsNumber(w) => ScannerSpec!RunType(w) = "NUMBER"
  /\ \A w : w[1] \in Initial /\ (\A k \in 1..Len(w) : w[k] \in Subsequent) =>
       ScannerSpec!RunType(w) = "SYMBOL"
  /\ \A w \in {<<"+">>, <<"-">>, <<".", ".", ".">>} : ScannerSpec!RunType(w) = "SYMBOL"
  /\ \A w \in {<<"#", "t">>, <<"#", "f">>} : ScannerSpec!RunType(w) = "BOOL"
  /\ ScannerSpec!RunType(<<".">>) = "PERIOD"
<1>1. ASSUME NEW w, ScannerSpec!IsNumber(w)
      PROVE  ~ScannerSpec!IsIdentifier(w) /\ ~ScannerSpec!IsBoolean(w)
  <2>1. \/ w[1] \in Digit
        \/ Len(w) > 1 /\ \/ w[1] \in {"+", "-"}
                         \/ w[1] = "." /\ w[2] # "."
                         \/ w[1] = "#" /\ w[2] \in Radix \cup Exactness
    BY <1>1, ScannerClasses DEF ScannerSpec!IsNumber
  <2>2. w[1] \notin Initial
    BY <2>1, Classes
  <2>3. w \notin {<<"+">>, <<"-">>, <<".", ".", ".">>}
    <3>1. ASSUME w \in {<<"+">>, <<"-">>}
          PROVE  Len(w) = 1 /\ w[1] \in {"+", "-"}
      BY <3>1
    <3>2. ASSUME w = <<".", ".", ".">>
          PROVE  w[1] = "." /\ w[2] = "."
      BY <3>2
    <3>3. ASSUME w \in {<<"+">>, <<"-">>} PROVE FALSE
      <4>1. ~(Len(w) > 1)
        BY <3>1, <3>3
      <4>2. w[1] \notin Digit
        BY <3>1, <3>3, Classes
      <4> QED
        BY <2>1, <4>1, <4>2, Zenon
    <3>4. ASSUME w = <<".", ".", ".">> PROVE FALSE
      <4>1. w[1] = "." /\ w[2] = "."
        BY <3>2, <3>4
      <4>2. "." \notin Digit
        BY Classes
      <4>3. w[1] \notin Digit /\ w[1] \notin {"+", "-"} /\ w[1] # "#" /\ ~(w[2] # ".")
        BY <4>1, <4>2
      <4> QED
        BY <2>1, <4>3, Zenon
    <3> QED
      BY <3>3, <3>4
  <2>4. w \notin {<<"#", "t">>, <<"#", "f">>}
    BY <2>1, Classes
  <2> QED
    BY <2>2, <2>3, <2>4, ScannerClasses DEF ScannerSpec!IsIdentifier, ScannerSpec!IsBoolean
<1>2. ASSUME NEW w \in {<<"#", "t">>, <<"#", "f">>} PROVE ~ScannerSpec!IsIdentifier(w)
  <2>1. w[1] = "#"
    OBVIOUS
  <2>2. w \notin {<<"+">>, <<"-">>, <<".", ".", ".">>}
    OBVIOUS
  <2> QED
    BY <2>1, <2>2, Classes, ScannerClasses DEF ScannerSpec!IsIdentifier
<1>3. /\ ~ScannerSpec!IsIdentifier(<<".">>) /\ ~ScannerSpec!IsBoolean(<<".">>)
      /\ ~ScannerSpec!IsNumber(<<".">>)
  <2>1. <<".">>[1] = "." /\ Len(<<".">>) = 1
    OBVIOUS
  <2>2. <<".">> \notin {<<"+">>, <<"-">>, <<".", ".", ".">>, <<"#", "t">>, <<"#", "f">>}
    OBVIOUS
  <2> QED
    BY <2>1, <2>2, Classes, ScannerClasses
    DEF ScannerSpec!IsIdentifier, ScannerSpec!IsBoolean, ScannerSpec!IsNumber
<1>4. \A w : w[1] \in Initial /\ (\A k \in 1..Len(w) : w[k] \in Subsequent) =>
        ScannerSpec!IsIdentifier(w)
  BY ScannerClasses DEF ScannerSpec!IsIdentifier
<1> QED
  BY <1>1, <1>2, <1>3, <1>4
  DEF ScannerSpec!RunType, ScannerSpec!IsIdentifier, ScannerSpec!IsBoolean

\* A sequence with one more element.
LEMMA AppendFacts ==
  ASSUME NEW S, NEW s \in Seq(S), NEW x \in S
  PROVE  /\ Len(s) \in Nat /\ Len(Append(s, x)) = Len(s) + 1
         /\ Append(s, x)[Len(s) + 1] = x
         /\ \A k \in 1..Len(s) : Append(s, x)[k] = s[k]
OBVIOUS

\* What begins like a number, and goes on, is one.
LEMMA NumberGrows ==
  ASSUME NEW w \in Seq(STRING), NEW c \in STRING
  PROVE  /\ w # <<>> /\ ScannerSpec!IsNumber(w) => ScannerSpec!IsNumber(Append(w, c))
         /\ w \in {<<"+">>, <<"-">>} => ScannerSpec!IsNumber(Append(w, c))
         /\ w = <<".">> /\ c # "." => ScannerSpec!IsNumber(Append(w, c))
         /\ w = <<"#">> /\ c \in Radix \cup Exactness => ScannerSpec!IsNumber(Append(w, c))
         /\ c \in Digit => ScannerSpec!IsNumber(<<c>>)
<1> DEFINE v == Append(w, c)
           n == Len(w)
<1>1. /\ n \in Nat /\ Len(v) = n + 1 /\ v[n + 1] = c
      /\ \A k \in 1..n : v[k] = w[k]
  <2>1. Len(w) \in Nat /\ Len(Append(w, c)) = Len(w) + 1
    BY AppendFacts
  <2>2. Append(w, c)[Len(w) + 1] = c
    BY AppendFacts
  <2>3. \A k \in 1..Len(w) : Append(w, c)[k] = w[k]
    OBVIOUS
  <2> QED
    BY <2>1, <2>2, <2>3, Zenon
<1> HIDE DEF v, n
<1>2. ASSUME w # <<>>, ScannerSpec!IsNumber(w) PROVE ScannerSpec!IsNumber(v)
  <2>1. n > 0
    BY <1>1, <1>2 DEF n
  <2>2. 1 \in 1..n /\ Len(v) > 1 /\ (n > 1 => 2 \in 1..n)
    BY <1>1, <2>1
  <2>3. v[1] = w[1] /\ (n > 1 => v[2] = w[2])
    BY <1>1, <2>2
  <2> QED
    BY <1>2, <2>2, <2>3 DEF ScannerSpec!IsNumber, n
<1>3. ASSUME Len(w) = 1 PROVE Len(v) > 1 /\ v[1] = w[1] /\ v[2] = c
  <2>1. n = 1 /\ 1 \in 1..n /\ n + 1 = 2
    BY <1>3 DEF n
  <2>2. Len(v) = 2 /\ v[2] = c
    BY <1>1, <2>1
  <2>3. v[1] = w[1]
    BY <1>1, <2>1
  <2> QED
    BY <2>2, <2>3
<1>4. w \in {<<"+">>, <<"-">>} => Len(w) = 1 /\ w[1] \in {"+", "-"}
  OBVIOUS
<1>5. w = <<".">> => Len(w) = 1 /\ w[1] = "."
  OBVIOUS
<1>6. w = <<"#">> => Len(w) = 1 /\ w[1] = "#"
  OBVIOUS
<1>7. w \in {<<"+">>, <<"-">>} => ScannerSpec!IsNumber(v)
  BY <1>3, <1>4 DEF ScannerSpec!IsNumber
<1>8. w = <<".">> /\ c # "." => ScannerSpec!IsNumber(v)
  BY <1>3, <1>5 DEF ScannerSpec!IsNumber
<1>9. w = <<"#">> /\ c \in Radix \cup Exactness => ScannerSpec!IsNumber(v)
  BY <1>3, <1>6, ScannerClasses DEF ScannerSpec!IsNumber
<1>10. c \in Digit => ScannerSpec!IsNumber(<<c>>)
  <2>1. <<c>>[1] = c
    OBVIOUS
  <2> QED
    BY <2>1, ScannerClasses DEF ScannerSpec!IsNumber
<1> QED
  BY <1>2, <1>7, <1>8, <1>9, <1>10 DEF v

-----------------------------------------------------------------------------

\* A step inside a token is a stutter of the scanner.
LEMMA Stutters ==
  ASSUME pc # "error", NEW place, place # "error", NEW w, GoTo(place, w)
  PROVE  UNCHANGED ScannerSpec!vars
BY DEF GoTo, ScannerSpec!vars

\* A token returned where the scanner finds it is a step of the scanner.
LEMMA Returns ==
  ASSUME pc # "error", ~Ended, Origin \in Int, Origin # -1,
         NEW type \in TokenTypes, NEW w, Return(type, w),
         ScannerSpec!TokenAt(Origin) = ScannerSpec!Token(type, w, pos')
  PROVE  ScannerSpec!Next
<1>1. ScannerSpec!Upcoming = ScannerSpec!Token(type, w, pos')
  BY ScannerTerms DEF ScannerSpec!Upcoming, Origin
<1>2. ScannerSpec!Asked
  BY ScannerTerms DEF ScannerSpec!Asked
<1>3. ScannerSpec!Upcoming.type \notin {"waits", "error"}
  BY <1>1 DEF ScannerSpec!Token, TokenTypes
<1>4. tokens' = Append(tokens, ScannerSpec!Upcoming) /\ input' = input /\ pc' = "idle"
  BY <1>1 DEF Return, ScannerSpec!Token
<1>5. ScannerSpec!Scan
  BY <1>2, <1>3, <1>4 DEF ScannerSpec!Scan
<1> QED
  BY <1>5 DEF ScannerSpec!Next

\* An Error where the scanner finds no token is its failure.
LEMMA Fails ==
  ASSUME pc # "error", ~Ended, Origin \in Int, Origin # -1, Throw,
         ScannerSpec!TokenAt(Origin).type = "error"
  PROVE  ScannerSpec!Next
<1>1. ScannerSpec!Upcoming.type = "error"
  BY ScannerTerms DEF ScannerSpec!Upcoming, Origin
<1>2. ScannerSpec!Asked
  BY ScannerTerms DEF ScannerSpec!Asked
<1>3. ScannerSpec!Fail
  BY <1>1, <1>2 DEF ScannerSpec!Fail, Throw, GoTo
<1> QED
  BY <1>3 DEF ScannerSpec!Next

\* What each step does: it keeps the invariant, and is a step of the scanner or none
Follows == ScanInv' /\ (ScannerSpec!Next \/ UNCHANGED ScannerSpec!vars)

\* The text and the place in it.
LEMMA TextTypes ==
  ASSUME LexTypeOK
  PROVE  input \in Seq(STRING) /\ Len(input) \in Nat /\ pos \in 0..Len(input) /\ pos \in Nat
<1>1. input \in Seq(STRING) /\ Len(input) \in Nat /\ pos \in 0..Len(input)
  BY CurCharType DEF LexTypeOK
<1> QED
  BY <1>1

\* A step inside a token keeps the text and the tokens.
LEMMA GoToKeeps ==
  ASSUME NEW place, NEW w, GoTo(place, w)
  PROVE  /\ input' = input /\ tokens' = tokens /\ pc' = place /\ text' = w
         /\ Origin' = Origin /\ Ended' = Ended
BY DEF GoTo, Origin, LastEnd, Ended

\* After a token.
LEMMA AfterReturn ==
  ASSUME LexTypeOK, peek \/ consume, NEW type \in TokenTypes, NEW w \in Seq(STRING),
         Return(type, w)
  PROVE  ScanInv'
<1>1. tokens' # <<>> /\ tokens'[Len(tokens')] = [type |-> type, text |-> w, end |-> pos']
  BY ReturnLast
<1>2. LastEnd' = pos'
  BY <1>1 DEF LastEnd
<1>3. pc' = "idle"
  BY DEF Return
<1> QED
  BY <1>2, <1>3
  DEF ScanInv, AtRest, Looking, InComment, InString, InRun, StillAsked, RunPlaces

\* After an Error.
LEMMA AfterThrow ==
  ASSUME Throw
  PROVE  ScanInv'
<1>1. pc' = "error"
  BY DEF Throw, GoTo
<1> QED
  BY <1>1 DEF ScanInv, AtRest, Looking, InComment, InString, InRun, StillAsked, RunPlaces

\* Before a token, behind a blank or a comment.
LEMMA AfterBlank ==
  ASSUME pc # "error", ~Ended, GoTo("next", <<>>), Origin = BeginsIn(input, pos')
  PROVE  Follows
<1>1. /\ input' = input /\ pc' = "next" /\ text' = <<>> /\ Origin' = Origin
      /\ Ended' = Ended
  BY GoToKeeps
<1>2. Looking'
  BY <1>1, Zenon DEF Looking
<1>3. StillAsked'
  BY <1>1, Zenon DEF StillAsked
<1>4. AtRest' /\ InComment' /\ InString' /\ InRun'
  BY <1>1 DEF AtRest, InComment, InString, InRun, RunPlaces
<1>5. UNCHANGED ScannerSpec!vars
  BY Stutters
<1> QED
  BY <1>2, <1>3, <1>4, <1>5 DEF ScanInv, Follows

\* Inside a run.
LEMMA AfterRun ==
  ASSUME pc # "error", ~Ended, NEW place \in RunPlaces, NEW w, GoTo(place, w),
         RunSoFar(Origin, pos', w), Shape(pc, text)'
  PROVE  Follows
<1>1. /\ input' = input /\ pc' = place /\ text' = w /\ Origin' = Origin /\ Ended' = Ended
  BY GoToKeeps
<1>2. RunSoFar(Origin, pos, text)'
  BY <1>1 DEF RunSoFar
<1>3. place # "error" /\ place \notin {"idle", "next", "comment", "string"}
  BY DEF RunPlaces
<1>4. ScanInv'
  BY <1>1, <1>2, <1>3
  DEF ScanInv, AtRest, Looking, InComment, InString, InRun, StillAsked
<1>5. UNCHANGED ScannerSpec!vars
  BY <1>3, Stutters
<1> QED
  BY <1>4, <1>5 DEF Follows

\* Where the lexer meets neither a blank nor a comment, the token begins.
LEMMA TokenHere ==
  ASSUME LexTypeOK, ScanInv, pc = "next", curChar \notin Space, curChar # ";"
  PROVE  Origin = pos /\ pos \in Nat /\ text = <<>>
<1>1. Origin = BeginsIn(input, pos) /\ text = <<>>
  BY DEF ScanInv, Looking
<1>2. input \in Seq(STRING) /\ Len(input) \in Nat /\ pos \in 0..Len(input)
  BY TextTypes, Zenon
<1>3. ~(pos < Len(input) /\ (input[pos + 1] \in Space \/ input[pos + 1] = ";"))
  BY DEF curChar
<1>4. BeginsIn(input, pos) = pos
  BY <1>2, <1>3, BeginsStep
<1>5. pos \in Nat
  BY TextTypes, Zenon
<1> QED
  BY <1>1, <1>4, <1>5

\* what holds wherever the lexer is inside a run
RunHere == pc # "error" /\ ~Ended /\ Origin \in Int /\ Origin # -1 /\ pos \in 0..Len(input)
           /\ input \in Seq(STRING) /\ RunSoFar(Origin, pos, text) /\ Shape(pc, text)

\* It does.
LEMMA InsideRun ==
  ASSUME LexTypeOK, ScanInv, pc \in RunPlaces
  PROVE  RunHere
<1>1. RunSoFar(Origin, pos, text) /\ Shape(pc, text)
  BY DEF ScanInv, InRun
<1>2. pc # "error" /\ ~Ended
  BY DEF ScanInv, StillAsked, RunPlaces
<1>3. input \in Seq(STRING) /\ Len(input) \in Nat /\ pos \in 0..Len(input)
  BY CurCharType DEF LexTypeOK
<1>4. Origin \in 0..(pos - 1)
  BY <1>1 DEF RunSoFar
<1>5. Origin \in Int /\ Origin # -1
  BY <1>3, <1>4
<1> QED
  BY <1>1, <1>2, <1>3, <1>5 DEF RunHere

\* The run ends at a delimiter.
LEMMA RunReturns ==
  ASSUME LexTypeOK, RunHere, isDelimiter, peek, NEW type \in TokenTypes, Return(type, text),
         ScannerSpec!RunType(text) = type
  PROVE  Follows
<1>1. text \in Seq(STRING)
  BY DEF LexTypeOK
<1>2. ScanInv'
  BY <1>1, AfterReturn
<1>3. ScannerSpec!TokenAt(Origin) = ScannerSpec!Token(type, text, pos)
  BY RunDone DEF RunHere
<1>4. pos' = pos
  BY DEF peek
<1>5. ScannerSpec!Next
  BY <1>3, <1>4, Returns DEF RunHere
<1> QED
  BY <1>2, <1>5 DEF Follows

\* the run from its beginning to its delimiter, and where that is
RunStop == FirstIn(input, Origin, Delimiter)
WholeRun == SubSeq(input, Origin + 1, RunStop)

\* The run as it goes on behind the text so far.
LEMMA RunOn ==
  ASSUME LexTypeOK, RunHere
  PROVE  /\ Len(text) \in Nat /\ Len(WholeRun) \in Nat
         /\ Len(text) >= 1 /\ Len(WholeRun) >= Len(text)
         /\ \A k \in 1..Len(text) : WholeRun[k] = text[k]
         /\ pos < Len(input) /\ curChar \notin Delimiter =>
              Len(WholeRun) > Len(text) /\ WholeRun[Len(text) + 1] = curChar
         /\ pos = Len(input) \/ curChar \in Delimiter => WholeRun = text
         /\ pos = Len(input) => RunStop = Len(input)
<1> DEFINE b == Origin
           e == RunStop
           L == Len(input)
<1>1. input \in Seq(STRING) /\ L \in Nat /\ pos \in 0..L /\ RunSoFar(b, pos, text)
  BY DEF RunHere
<1>2. /\ b \in 0..pos /\ b \in 0..L /\ b < pos /\ Len(text) = pos - b
      /\ \A k \in 1..(pos - b) : text[k] = input[b + k]
  BY <1>1, RunText
<1>3. \A k \in b..(pos - 1) : input[k + 1] \notin Delimiter
  BY <1>1 DEF RunSoFar
<1>4. /\ e \in pos..L
      /\ pos < L /\ curChar \notin Delimiter => e > pos
      /\ pos = L \/ curChar \in Delimiter => e = pos
  BY <1>2, <1>3, RunEnd DEF RunStop
<1>5. e \in b..L
  BY <1>1, <1>2, <1>4
<1>6. /\ Len(WholeRun) = e - b
      /\ \A k \in 1..(e - b) : WholeRun[k] = input[b + k]
  <2> HIDE DEF e
  <2>1. WholeRun = SubSeq(input, b + 1, e)
    BY DEF WholeRun, e
  <2> QED
    BY <1>1, <1>2, <1>5, <2>1, PartOfText
<1>7. curChar = IF pos < L THEN input[pos + 1] ELSE EOF
  BY DEF curChar
<1>8. text = SubSeq(input, b + 1, pos)
  BY <1>1 DEF RunSoFar
<1>9. e = pos => WholeRun = text
  BY <1>8 DEF WholeRun
<1> HIDE DEF b, e, L
<1>10. /\ Len(text) \in Nat /\ Len(WholeRun) \in Nat
       /\ Len(text) >= 1 /\ Len(WholeRun) >= Len(text)
  BY <1>1, <1>2, <1>4, <1>6
<1>11. \A k \in 1..Len(text) : WholeRun[k] = text[k]
  BY <1>1, <1>2, <1>4, <1>6
<1>12. ASSUME pos < L, curChar \notin Delimiter
       PROVE  Len(WholeRun) > Len(text) /\ WholeRun[Len(text) + 1] = curChar
  <2>1. e > pos /\ pos - b + 1 \in 1..(e - b) /\ b + (pos - b + 1) = pos + 1
    BY <1>1, <1>2, <1>4, <1>12
  <2>2. WholeRun[pos - b + 1] = input[pos + 1]
    BY <1>6, <2>1
  <2> QED
    BY <1>1, <1>2, <1>6, <1>7, <1>12, <2>1, <2>2
<1>13. pos = L => e = L
  BY <1>4
<1> QED
  BY <1>4, <1>9, <1>10, <1>11, <1>12, <1>13 DEF e, L

\* The run cannot be a token.
LEMMA RunThrows ==
  ASSUME LexTypeOK, RunHere, Throw, NoToken(WholeRun, RunStop)
  PROVE  Follows
<1>1. RunSoFar(Origin, pos, text) /\ input \in Seq(STRING) /\ pos \in 0..Len(input)
  BY DEF RunHere
<1>2. /\ Origin \in 0..Len(input) /\ Origin < Len(input)
      /\ input[Origin + 1] \notin Special /\ input[Origin + 1] \notin Delimiter
  BY <1>1, RunText
<1>3. ScannerSpec!TokenAt(Origin).type = "error"
  BY <1>1, <1>2, RunBad DEF WholeRun, RunStop
<1>4. ScannerSpec!Next
  BY <1>3, Fails DEF RunHere
<1> QED
  BY <1>4, AfterThrow DEF Follows

\* The first character of a run.
LEMMA RunStarts ==
  ASSUME LexTypeOK, ScanInv, pc = "next", curChar \notin Special, curChar \notin Delimiter,
         consume
  PROVE  /\ grown = <<curChar>> /\ <<curChar>>[1] = curChar /\ Len(<<curChar>>) = 1
         /\ \A place \in RunPlaces : GoTo(place, grown) /\ Shape(pc, text)' => Follows
<1>1. curChar \notin Space /\ curChar # ";"
  BY DEF Delimiter
<1>2. Origin = pos /\ pos \in Nat /\ text = <<>>
  BY <1>1, TokenHere
<1>3. pos < Len(input) /\ RunSoFar(pos, pos + 1, <<curChar>>)
  BY RunBegins
<1>4. pos' = pos + 1
  BY <1>3, Zenon DEF consume
<1>5. curChar \in STRING
  BY <1>3, CurCharType DEF Special
<1>6. grown = <<curChar>> /\ <<curChar>>[1] = curChar /\ Len(<<curChar>>) = 1
  <2>1. grown = Append(<<>>, curChar)
    BY <1>2, <1>3 DEF grown
  <2>2. Append(<<>>, curChar) = <<curChar>>
    BY <1>5
  <2> QED
    BY <2>1, <2>2
<1>7. pc # "error" /\ ~Ended
  BY DEF ScanInv, StillAsked
<1>8. ASSUME NEW place \in RunPlaces, GoTo(place, grown), Shape(pc, text)'
      PROVE  Follows
  <2>1. RunSoFar(Origin, pos', grown)
    BY <1>2, <1>3, <1>4, <1>6
  <2> QED
    BY <1>7, <1>8, <2>1, AfterRun
<1> QED
  BY <1>6, <1>8

\* One more character of it, and the next look without one.
LEMMA RunGoesOn ==
  ASSUME LexTypeOK, RunHere, NEW place \in RunPlaces, NEW w, GoTo(place, w),
         Shape(pc, text)',
         \/ consume /\ w = grown /\ curChar \notin Delimiter
         \/ peek /\ w = text
  PROVE  Follows
<1>1. pos \in 0..Len(input) /\ Len(input) \in Nat
  BY TextTypes, Zenon
<1>2. RunSoFar(Origin, pos, text)
  BY DEF RunHere
<1>3. RunSoFar(Origin, pos', w)
  <2>1. CASE peek /\ w = text
    BY <1>2, <2>1 DEF peek
  <2>2. CASE consume /\ w = grown /\ curChar \notin Delimiter /\ pos < Len(input)
    BY <1>2, <2>2, RunGrows DEF consume, grown
  <2>3. CASE consume /\ w = grown /\ ~(pos < Len(input))
    BY <1>2, <2>3 DEF consume, grown
  <2> QED
    BY <2>1, <2>2, <2>3
<1> QED
  BY <1>3, AfterRun DEF RunHere

-----------------------------------------------------------------------------

\* The parser asks for a token: nothing that the scanner sees.
LEMMA ScanNextToken ==
  ASSUME LexTypeOK, ScanInv, nextToken
  PROVE  Follows
<1>1. pc = "idle" /\ ~Ended /\ GoTo("next", <<>>) /\ pos' = pos
  BY DEF nextToken
<1>2. pos = LastEnd
  BY <1>1 DEF ScanInv, AtRest
<1>3. Origin = BeginsIn(input, pos')
  BY <1>1, <1>2, Zenon DEF Origin
<1>4. pc # "error"
  BY <1>1
<1> QED
  BY <1>1, <1>3, <1>4, AfterBlank

\* The end of the input, or a byte 255.
LEMMA ScanAtEnd ==
  ASSUME LexTypeOK, ScanInv, AtEnd
  PROVE  Follows
<1>1. pc = "next" /\ curChar = EOF /\ peek /\ Return("EOF", <<>>)
  BY DEF AtEnd
<1>2. curChar \notin Space /\ curChar # ";"
  BY <1>1 DEF EOF, Space
<1>3. Origin = pos /\ pos \in Nat
  BY <1>1, <1>2, TokenHere
<1>4. input \in Seq(STRING) /\ Len(input) \in Nat /\ pos \in 0..Len(input)
  BY TextTypes, Zenon
<1>5. pos = Len(input) \/ input[pos + 1] = EOF
  BY <1>1, <1>4 DEF curChar
<1>6. ScannerSpec!TokenAt(pos) = ScannerSpec!Token("EOF", <<>>, pos)
  BY <1>5, ScannerClasses, Zenon DEF ScannerSpec!TokenAt
<1>7. pos' = pos /\ "EOF" \in TokenTypes /\ <<>> \in Seq(STRING)
  BY <1>1 DEF peek, TokenTypes
<1>8. pc # "error" /\ ~Ended
  BY <1>1 DEF ScanInv, StillAsked
<1>9. Origin \in Int /\ Origin # -1
  BY <1>3
<1>10. ScannerSpec!Next
  BY <1>1, <1>3, <1>6, <1>7, <1>8, <1>9, Returns
<1> QED
  BY <1>1, <1>7, <1>10, AfterReturn DEF Follows

\* A blank.
LEMMA ScanSkipSpace ==
  ASSUME LexTypeOK, ScanInv, SkipSpace
  PROVE  Follows
<1>1. pc = "next" /\ curChar \in Space /\ consume /\ GoTo("next", <<>>)
  BY DEF SkipSpace
<1>2. input \in Seq(STRING) /\ Len(input) \in Nat /\ pos \in 0..Len(input)
  BY TextTypes, Zenon
<1>3. curChar # EOF
  BY <1>1 DEF EOF, Space
<1>4. pos < Len(input) /\ curChar = input[pos + 1]
  BY <1>3, CurCharType DEF curChar
<1>5. pos' = pos + 1
  BY <1>1, <1>4 DEF consume
<1>6. BeginsIn(input, pos) = BeginsIn(input, pos + 1)
  BY <1>1, <1>2, <1>4, BeginsStep
<1>7. Origin = BeginsIn(input, pos)
  BY <1>1 DEF ScanInv, Looking
<1>8. pc # "error" /\ ~Ended
  BY <1>1 DEF ScanInv, StillAsked
<1>9. Origin = BeginsIn(input, pos')
  BY <1>5, <1>6, <1>7, Zenon
<1> QED
  BY <1>1, <1>8, <1>9, AfterBlank

\* A parenthesis or a quote.
LEMMA ScanPunctuation ==
  ASSUME LexTypeOK, ScanInv, Punctuation
  PROVE  Follows
<1>1. /\ pc = "next" /\ consume /\ curChar \in {"(", ")", "'"}
      /\ \E type \in {"LPAREN", "RPAREN", "QUOTE"} :
           type = ScannerSpec!PunctuationType(curChar) /\ Return(type, <<curChar>>)
  BY DEF Punctuation, ScannerSpec!PunctuationType
<1>2. curChar \notin Space /\ curChar # ";" /\ curChar # EOF
  BY <1>1 DEF EOF, Space
<1>3. Origin = pos /\ pos \in Nat
  BY <1>1, <1>2, TokenHere
<1>4. pos < Len(input) /\ curChar = input[pos + 1] /\ curChar \in STRING
  BY <1>2, CurCharType DEF curChar
<1>5. pos' = pos + 1
  BY <1>1, <1>4 DEF consume
<1>6. ScannerSpec!TokenAt(pos)
        = ScannerSpec!Token(ScannerSpec!PunctuationType(curChar), <<curChar>>, pos + 1)
  <2>1. pos # Len(input)
    BY <1>3, <1>4, TextTypes
  <2> QED
    BY <1>1, <1>2, <1>4, <2>1, ScannerClasses, Zenon DEF ScannerSpec!TokenAt
<1>7. <<curChar>> \in Seq(STRING)
  BY <1>4, CharSeqFacts
<1>8. pc # "error" /\ ~Ended
  BY <1>1 DEF ScanInv, StillAsked
<1>9. Origin \in Int /\ Origin # -1
  BY <1>3
<1>10. PICK type \in {"LPAREN", "RPAREN", "QUOTE"} :
         type = ScannerSpec!PunctuationType(curChar) /\ Return(type, <<curChar>>)
  BY <1>1
<1>11. type \in TokenTypes
  BY DEF TokenTypes
<1>12. ScannerSpec!Next
  BY <1>3, <1>5, <1>6, <1>8, <1>9, <1>10, <1>11, Returns
<1> QED
  BY <1>1, <1>7, <1>10, <1>11, <1>12, AfterReturn DEF Follows

\* A character that begins no token.
LEMMA ScanInvalidCharacter ==
  ASSUME LexTypeOK, ScanInv, InvalidCharacter
  PROVE  Follows
<1>1. /\ pc = "next" /\ Throw
      /\ curChar \notin Space \cup Digit \cup Initial
                     \cup {EOF, "(", ")", "'", "+", "-", ".", ";", "\"", "#"}
  BY DEF InvalidCharacter
<1>2. curChar \notin Special /\ curChar \notin Delimiter
  BY <1>1 DEF Special, Delimiter
<1>3. Origin = pos /\ pos \in Nat
  BY <1>1, TokenHere
<1>4. pos < Len(input) /\ curChar = input[pos + 1]
  BY <1>1, CurCharType DEF curChar
<1>5. input \in Seq(STRING) /\ Len(input) \in Nat /\ pos \in 0..Len(input)
  BY TextTypes, Zenon
<1> DEFINE e == FirstIn(input, pos, Delimiter)
           w == SubSeq(input, pos + 1, e)
<1>6. e \in pos..Len(input) /\ e > pos
  <2>1. pos \in 0..pos /\ \A k \in pos..(pos - 1) : input[k + 1] \notin Delimiter
    BY <1>3
  <2> QED
    BY <1>2, <1>4, <2>1, RunEnd
<1>7. w[1] = curChar
  <2> HIDE DEF e
  <2>1. 1 \in 1..(e - pos)
    BY <1>3, <1>5, <1>6
  <2> QED
    BY <1>4, <1>5, <1>6, <2>1, PartOfText
<1> HIDE DEF e, w
<1>8. /\ w[1] \notin Digit /\ w[1] \notin Initial
      /\ w[1] # "+" /\ w[1] # "-" /\ w[1] # "." /\ w[1] # "#"
  BY <1>1, <1>7
<1>9. NoToken(w, e)
  <2>1. ~ScannerSpec!IsNumber(w)
    BY <1>8, ScannerClasses DEF ScannerSpec!IsNumber
  <2>2. w \notin Unclear /\ w # <<".", ".", ".">>
    BY <1>8 DEF Unclear
  <2>3. ~ScannerSpec!IsBoolean(w)
    BY <1>8 DEF ScannerSpec!IsBoolean
  <2>4. ~ScannerSpec!IsIdentifier(w)
    BY <1>8, <2>2, ScannerClasses DEF ScannerSpec!IsIdentifier, Unclear
  <2> QED
    BY <2>1, <2>2, <2>3, <2>4 DEF NoToken
<1>10. ScannerSpec!TokenAt(pos).type = "error"
  BY <1>2, <1>4, <1>5, <1>9, RunBad DEF e, w
<1>11. pc # "error" /\ ~Ended
  BY <1>1 DEF ScanInv, StillAsked
<1>12. Origin \in Int /\ Origin # -1
  BY <1>3
<1>13. ScannerSpec!Next
  BY <1>1, <1>3, <1>10, <1>11, <1>12, Fails
<1> QED
  BY <1>1, <1>13, AfterThrow DEF Follows

\* What begins like an identifier is nothing else.
LEMMA InitialOnly ==
  ASSUME NEW w, w[1] \in Initial
  PROVE  /\ ~ScannerSpec!IsNumber(w) /\ w \notin Unclear
         /\ ~ScannerSpec!IsBoolean(w) /\ w # <<".", ".", ".">>
<1>1. w[1] \notin Digit /\ w[1] # "+" /\ w[1] # "-" /\ w[1] # "." /\ w[1] # "#"
  BY Classes
<1>2. ~ScannerSpec!IsNumber(w)
  BY <1>1, ScannerClasses DEF ScannerSpec!IsNumber
<1>3. w \notin Unclear /\ w # <<".", ".", ".">>
  BY <1>1 DEF Unclear
<1>4. ~ScannerSpec!IsBoolean(w)
  BY <1>1 DEF ScannerSpec!IsBoolean
<1> QED
  BY <1>2, <1>3, <1>4

\* An identifier, up to its delimiter or to a character that it cannot have.
LEMMA ScanIdentifier ==
  ASSUME LexTypeOK, ScanInv, getIdentifier
  PROVE  Follows
<1>1. CASE pc = "next" /\ curChar \in Initial /\ consume /\ GoTo("ident", grown)
  <2>1. curChar \notin Special /\ curChar \notin Delimiter /\ curChar \in Subsequent
    BY <1>1, Classes DEF Subsequent
  <2>2. /\ grown = <<curChar>> /\ <<curChar>>[1] = curChar /\ Len(<<curChar>>) = 1
        /\ \A place \in RunPlaces : GoTo(place, grown) /\ Shape(pc, text)' => Follows
    BY <1>1, <2>1, RunStarts
  <2>3. pc' = "ident" /\ text' = <<curChar>>
    BY <1>1, <2>2 DEF GoTo
  <2>4. text'[1] \in Initial /\ \A k \in 1..Len(text') : text'[k] \in Subsequent
    BY <1>1, <2>1, <2>2, <2>3
  <2>5. Shape(pc, text)'
    BY <2>3, <2>4 DEF Shape
  <2> QED
    BY <1>1, <2>2, <2>5 DEF RunPlaces
<1>2. CASE pc = "ident"
  <2>1. RunHere
    BY <1>2, InsideRun DEF RunPlaces
  <2>2. /\ text[1] \in Initial /\ \A k \in 1..Len(text) : text[k] \in Subsequent
        /\ text \in Seq(STRING)
    BY <1>2, <2>1 DEF RunHere, Shape, LexTypeOK
  <2>3. /\ Len(text) \in Nat /\ Len(WholeRun) \in Nat
        /\ Len(text) >= 1 /\ Len(WholeRun) >= Len(text)
        /\ \A k \in 1..Len(text) : WholeRun[k] = text[k]
        /\ pos < Len(input) /\ curChar \notin Delimiter =>
             Len(WholeRun) > Len(text) /\ WholeRun[Len(text) + 1] = curChar
        /\ pos = Len(input) => RunStop = Len(input)
    BY <2>1, RunOn
  <2>4. CASE curChar \in Subsequent /\ consume /\ GoTo("ident", grown)
    <3>1. curChar \notin Delimiter /\ curChar # EOF
      BY <2>4, Classes
    <3>2. pos < Len(input) /\ curChar \in STRING
      BY <3>1, CurCharType
    <3>3. pc' = "ident" /\ text' = Append(text, curChar)
      BY <2>4, <3>2 DEF GoTo, grown
    <3>4. /\ Len(text') = Len(text) + 1 /\ text'[Len(text) + 1] = curChar
          /\ \A k \in 1..Len(text) : text'[k] = text[k]
      BY <2>2, <3>2, <3>3, AppendFacts
    <3>5. text'[1] \in Initial /\ \A k \in 1..Len(text') : text'[k] \in Subsequent
      <4>1. 1 \in 1..Len(text)
        BY <2>3
      <4>2. ASSUME NEW k \in 1..Len(text') PROVE text'[k] \in Subsequent
        <5>1. k \in 1..Len(text) \/ k = Len(text) + 1
          BY <2>3, <3>4
        <5> QED
          BY <2>2, <2>4, <3>4, <5>1
      <4> QED
        BY <2>2, <3>4, <4>1, <4>2
    <3>6. Shape(pc, text)'
      BY <3>3, <3>5 DEF Shape
    <3> QED
      BY <2>1, <2>4, <3>1, <3>6, RunGoesOn DEF RunPlaces
  <2>5. CASE isDelimiter /\ peek /\ Return("SYMBOL", text)
    <3>1. ScannerSpec!RunType(text) = "SYMBOL"
      BY <2>2, RunTypes
    <3> QED
      BY <2>1, <2>5, <3>1, RunReturns DEF TokenTypes
  <2>6. CASE curChar \notin Subsequent /\ ~isDelimiter /\ Throw
    <3>1. WholeRun[1] \in Initial
      BY <2>2, <2>3
    <3>2. ~ScannerSpec!IsNumber(WholeRun) /\ WholeRun \notin Unclear
          /\ ~ScannerSpec!IsBoolean(WholeRun) /\ WholeRun # <<".", ".", ".">>
      BY <3>1, InitialOnly
    <3>3. ASSUME RunStop < Len(input) PROVE ~ScannerSpec!IsIdentifier(WholeRun)
      <4>1. pos < Len(input)
        BY <2>3, <3>3, TextTypes
      <4>2. Len(text) + 1 \in 1..Len(WholeRun) /\ WholeRun[Len(text) + 1] \notin Subsequent
        BY <2>3, <2>6, <4>1 DEF isDelimiter
      <4> QED
        BY <3>2, <4>2, ScannerClasses DEF ScannerSpec!IsIdentifier, Unclear
    <3>4. NoToken(WholeRun, RunStop)
      BY <3>2, <3>3 DEF NoToken
    <3> QED
      BY <2>1, <2>6, <3>4, RunThrows
  <2> QED
    BY <1>2, <2>4, <2>5, <2>6 DEF getIdentifier
<1> QED
  BY <1>1, <1>2 DEF getIdentifier

\* No step of a run looks at another text.
LEMMA PeekStays ==
  ASSUME peek, NEW place, NEW w, GoTo(place, w)
  PROVE  /\ pos' = pos /\ curChar' = curChar /\ isDelimiter' = isDelimiter /\ input' = input
         /\ pc' = place /\ text' = w
BY DEF peek, GoTo, curChar, isDelimiter

\* A sign, a dot or # before what makes it a number, or before the end of the text.
LEMMA ToNumber ==
  ASSUME LexTypeOK, RunHere, peek, GoTo("number", text), ~isDelimiter,
         pos = Len(input) => text \in Unclear,
         pos # Len(input) => ScannerSpec!IsNumber(Append(text, curChar))
  PROVE  Follows
<1>1. /\ pos' = pos /\ curChar' = curChar /\ isDelimiter' = isDelimiter /\ input' = input
      /\ pc' = "number" /\ text' = text
  BY PeekStays
<1>2. ScannerSpec!IsNumber(Append(text, curChar))' = ScannerSpec!IsNumber(Append(text, curChar))
  BY <1>1 DEF ScannerSpec!IsNumber
<1>3. Shape(pc, text)'
  BY <1>1, <1>2 DEF Shape
<1> QED
  BY <1>3, RunGoesOn DEF RunPlaces

\* A sign, alone or before a number.
LEMMA ScanPeculiar ==
  ASSUME LexTypeOK, ScanInv, getPeculiarIdentifier
  PROVE  Follows
<1>1. CASE pc = "next" /\ curChar \in {"+", "-"} /\ consume /\ GoTo("sign", grown)
  <2>1. curChar \notin Special /\ curChar \notin Delimiter
    BY <1>1, Classes
  <2>2. /\ grown = <<curChar>>
        /\ \A place \in RunPlaces : GoTo(place, grown) /\ Shape(pc, text)' => Follows
    BY <1>1, <2>1, RunStarts
  <2>3. pc' = "sign" /\ text' \in {<<"+">>, <<"-">>}
    BY <1>1, <2>2 DEF GoTo
  <2>4. Shape(pc, text)'
    BY <2>3 DEF Shape
  <2> QED
    BY <1>1, <2>2, <2>4 DEF RunPlaces
<1>2. CASE pc = "sign" /\ peek
  <2>1. RunHere
    BY <1>2, InsideRun DEF RunPlaces
  <2>2. text \in {<<"+">>, <<"-">>} /\ text \in Seq(STRING)
    BY <1>2, <2>1 DEF RunHere, Shape, LexTypeOK
  <2>3. CASE isDelimiter /\ Return("SYMBOL", text)
    <3>1. ScannerSpec!RunType(text) = "SYMBOL"
      BY <2>2, RunTypes
    <3> QED
      BY <1>2, <2>1, <2>3, <3>1, RunReturns DEF TokenTypes
  <2>4. CASE ~isDelimiter /\ GoTo("number", text)
    <3>1. ASSUME pos # Len(input) PROVE ScannerSpec!IsNumber(Append(text, curChar))
      <4>1. curChar \in STRING
        BY <3>1, TextTypes, CharSeqFacts DEF curChar
      <4> QED
        BY <2>2, <4>1, NumberGrows
    <3>2. text \in Unclear
      BY <2>2 DEF Unclear
    <3> QED
      BY <1>2, <2>1, <2>4, <3>1, <3>2, ToNumber
  <2> QED
    BY <1>2, <2>3, <2>4 DEF getPeculiarIdentifier
<1> QED
  BY <1>1, <1>2 DEF getPeculiarIdentifier

\* A number, up to its delimiter; at the end of the input it stays.
LEMMA ScanNumber ==
  ASSUME LexTypeOK, ScanInv, getNumber
  PROVE  Follows
<1>1. CASE pc = "next" /\ curChar \in Digit /\ consume /\ GoTo("digits", grown)
  <2>1. curChar \notin Special /\ curChar \notin Delimiter
    BY <1>1, Classes
  <2>2. /\ grown = <<curChar>>
        /\ \A place \in RunPlaces : GoTo(place, grown) /\ Shape(pc, text)' => Follows
    BY <1>1, <2>1, RunStarts
  <2>3. pc' = "digits" /\ text' = <<curChar>>
    BY <1>1, <2>2 DEF GoTo
  <2>4. ScannerSpec!IsNumber(<<curChar>>)
    <3>1. <<curChar>>[1] = curChar
      OBVIOUS
    <3> QED
      BY <1>1, <3>1, ScannerClasses DEF ScannerSpec!IsNumber
  <2>5. ScannerSpec!IsNumber(text)'
    BY <2>3, <2>4 DEF ScannerSpec!IsNumber
  <2>6. Shape(pc, text)'
    BY <2>3, <2>5 DEF Shape
  <2> QED
    BY <1>1, <2>2, <2>6 DEF RunPlaces
<1>2. CASE pc \in {"number", "digits"} /\ consume /\ GoTo("digits", grown)
           /\ (pc = "digits" => ~isDelimiter)
  <2>1. RunHere
    BY <1>2, InsideRun DEF RunPlaces
  <2>2. Shape(pc, text) /\ text \in Seq(STRING) /\ text # <<>>
    <3>1. Shape(pc, text) /\ text \in Seq(STRING)
      BY <2>1 DEF RunHere, LexTypeOK
    <3>2. Len(text) \in Nat /\ Len(text) >= 1
      BY <2>1, RunOn
    <3> QED
      BY <3>1, <3>2
  <2>3. pc' = "digits" /\ text' = grown /\ input' = input
    BY <1>2 DEF GoTo
  <2>4. CASE pos = Len(input)
    <3>1. curChar = EOF /\ grown = text /\ pos' = pos
      BY <1>2, <2>4, TextTypes DEF curChar, grown, consume
    <3>2. curChar \notin Delimiter
      BY <3>1, Classes
    <3>3. ScannerSpec!IsNumber(text) \/ text \in Unclear
      BY <1>2, <2>2, <2>4 DEF Shape
    <3>4. ScannerSpec!IsNumber(text)' = ScannerSpec!IsNumber(text)
      BY <2>3, <3>1 DEF ScannerSpec!IsNumber
    <3>5. Shape(pc, text)'
      BY <2>3, <2>4, <3>1, <3>3, <3>4 DEF Shape
    <3> QED
      BY <1>2, <2>1, <3>2, <3>5, RunGoesOn DEF RunPlaces
  <2>5. CASE pos # Len(input)
    <3>1. pos < Len(input) /\ curChar \in STRING /\ grown = Append(text, curChar)
      BY <2>5, TextTypes, CharSeqFacts DEF curChar, grown
    <3>2. ~isDelimiter
      BY <1>2, <2>2, <2>5 DEF Shape
    <3>3. ScannerSpec!IsNumber(grown)
      <4>1. CASE pc = "number"
        BY <2>2, <2>5, <3>1, <4>1 DEF Shape
      <4>2. CASE pc = "digits"
        <5>1. ScannerSpec!IsNumber(text)
          BY <2>2, <2>5, <4>2 DEF Shape
        <5> QED
          BY <2>2, <3>1, <5>1, NumberGrows
      <4> QED
        BY <1>2, <4>1, <4>2
    <3>4. ScannerSpec!IsNumber(text)'
      BY <2>3, <3>3 DEF ScannerSpec!IsNumber
    <3>5. Shape(pc, text)'
      BY <2>3, <3>4 DEF Shape
    <3> QED
      BY <1>2, <2>1, <3>2, <3>5, RunGoesOn DEF RunPlaces, isDelimiter
  <2> QED
    BY <2>4, <2>5
<1>3. CASE pc = "digits" /\ isDelimiter /\ peek /\ Return("NUMBER", text)
  <2>1. RunHere
    BY <1>3, InsideRun DEF RunPlaces
  <2>2. pos # Len(input)
    BY <1>3, Classes, TextTypes DEF isDelimiter, curChar
  <2>3. ScannerSpec!IsNumber(text)
    BY <1>3, <2>1, <2>2 DEF RunHere, Shape
  <2>4. ScannerSpec!RunType(text) = "NUMBER"
    BY <2>3, RunTypes
  <2> QED
    BY <1>3, <2>1, <2>4, RunReturns DEF TokenTypes
<1> QED
  BY <1>1, <1>2, <1>3 DEF getNumber

\* What begins with two dots, or with #, is hardly a token.
LEMMA DotsOnly ==
  ASSUME NEW w, w[1] = ".", w[2] = ".", Len(w) \in Nat, Len(w) >= 2
  PROVE  /\ ~ScannerSpec!IsNumber(w) /\ w \notin Unclear /\ ~ScannerSpec!IsBoolean(w)
         /\ w # <<".", ".", ".">> => ~ScannerSpec!IsIdentifier(w)
<1>1. "." \notin Digit /\ "." \notin Initial
  BY Classes
<1>2. ~ScannerSpec!IsNumber(w)
  BY <1>1, ScannerClasses DEF ScannerSpec!IsNumber
<1>3. w \notin Unclear
  BY DEF Unclear
<1>4. ~ScannerSpec!IsBoolean(w)
  BY DEF ScannerSpec!IsBoolean
<1>5. w # <<".", ".", ".">> => ~ScannerSpec!IsIdentifier(w)
  BY <1>1, <1>3, ScannerClasses DEF ScannerSpec!IsIdentifier, Unclear
<1> QED
  BY <1>2, <1>3, <1>4, <1>5

\* The same of #.
LEMMA PoundOnly ==
  ASSUME NEW w, w[1] = "#"
  PROVE  /\ w \notin Unclear /\ ~ScannerSpec!IsIdentifier(w)
         /\ ~(Len(w) > 1 /\ w[2] \in Radix \cup Exactness) => ~ScannerSpec!IsNumber(w)
         /\ ~(Len(w) = 2 /\ w[2] \in {"t", "f"}) => ~ScannerSpec!IsBoolean(w)
<1>1. "#" \notin Digit /\ "#" \notin Initial
  BY Classes
<1>2. w \notin Unclear /\ w # <<".", ".", ".">>
  BY DEF Unclear
<1>3. ~ScannerSpec!IsIdentifier(w)
  BY <1>1, <1>2, ScannerClasses DEF ScannerSpec!IsIdentifier, Unclear
<1>4. ~(Len(w) > 1 /\ w[2] \in Radix \cup Exactness) => ~ScannerSpec!IsNumber(w)
  BY <1>1, ScannerClasses DEF ScannerSpec!IsNumber
<1>5. ASSUME ~(Len(w) = 2 /\ w[2] \in {"t", "f"}) PROVE ~ScannerSpec!IsBoolean(w)
  <2>1. ASSUME w \in {<<"#", "t">>, <<"#", "f">>} PROVE Len(w) = 2 /\ w[2] \in {"t", "f"}
    BY <2>1
  <2> QED
    BY <1>5, <2>1 DEF ScannerSpec!IsBoolean
<1> QED
  BY <1>2, <1>3, <1>4, <1>5

\* Short sequences are what their elements make them.
LEMMA Pair ==
  ASSUME NEW S, NEW w \in Seq(S), NEW a, NEW b, Len(w) = 2, w[1] = a, w[2] = b
  PROVE  w = <<a, b>>
OBVIOUS

\* The same of three.
LEMMA Triple ==
  ASSUME NEW S, NEW w \in Seq(S), NEW a, NEW b, NEW c,
         Len(w) = 3, w[1] = a, w[2] = b, w[3] = c
  PROVE  w = <<a, b, c>>
OBVIOUS

\* One more character of a short text.
LEMMA Longer ==
  ASSUME NEW S, NEW a \in S, NEW b \in S, NEW c \in S
  PROVE  /\ Append(<<a>>, c) = <<a, c>>
         /\ Append(<<a, b>>, c) = <<a, b, c>>
<1>1. ASSUME NEW w \in Seq(S), w = <<a>> PROVE Append(w, c) = <<a, c>>
  <2> DEFINE v == Append(w, c)
  <2>1. v \in Seq(S)
    OBVIOUS
  <2>2. Len(v) = Len(w) + 1 /\ v[Len(w) + 1] = c /\ \A k \in 1..Len(w) : v[k] = w[k]
    BY AppendFacts
  <2> HIDE DEF v
  <2>3. Len(w) = 1 /\ w[1] = a
    BY <1>1
  <2>4. Len(v) = 2 /\ v[1] = a /\ v[2] = c
    BY <2>2, <2>3
  <2>5. v = <<a, c>>
    BY <2>1, <2>4, Pair
  <2> QED
    BY <2>5 DEF v
<1>2. ASSUME NEW w \in Seq(S), w = <<a, b>> PROVE Append(w, c) = <<a, b, c>>
  <2> DEFINE v == Append(w, c)
  <2>1. v \in Seq(S)
    OBVIOUS
  <2>2. Len(v) = Len(w) + 1 /\ v[Len(w) + 1] = c /\ \A k \in 1..Len(w) : v[k] = w[k]
    BY AppendFacts
  <2> HIDE DEF v
  <2>3. Len(w) = 2 /\ w[1] = a /\ w[2] = b
    BY <1>2
  <2>4. Len(v) = 3 /\ v[1] = a /\ v[2] = b /\ v[3] = c
    BY <2>2, <2>3
  <2>5. v = <<a, b, c>>
    BY <2>1, <2>4, Triple
  <2> QED
    BY <2>5 DEF v
<1>3. <<a>> \in Seq(S) /\ <<a, b>> \in Seq(S)
  OBVIOUS
<1> QED
  BY <1>1, <1>2, <1>3, Zenon

\* A dot, an ellipsis or a number that begins with a dot.
LEMMA ScanDot ==
  ASSUME LexTypeOK, ScanInv, getDot
  PROVE  Follows
<1>0. "." \notin Special /\ "." \notin Delimiter /\ "." # EOF
  BY Classes DEF EOF
<1>1. CASE pc = "next" /\ curChar = "." /\ consume /\ GoTo("dot", grown)
  <2>1. /\ grown = <<curChar>>
        /\ \A place \in RunPlaces : GoTo(place, grown) /\ Shape(pc, text)' => Follows
    BY <1>0, <1>1, RunStarts
  <2>2. pc' = "dot" /\ text' = <<".">>
    BY <1>1, <2>1 DEF GoTo
  <2>3. Shape(pc, text)'
    BY <2>2 DEF Shape
  <2> QED
    BY <1>1, <2>1, <2>3 DEF RunPlaces
<1>2. CASE pc = "dot"
  <2>1. RunHere /\ text = <<".">>
    BY <1>2, InsideRun DEF RunPlaces, RunHere, Shape
  <2>2. CASE isDelimiter /\ peek /\ Return("PERIOD", text)
    <3>1. ScannerSpec!RunType(text) = "PERIOD"
      BY <2>1, RunTypes
    <3> QED
      BY <2>1, <2>2, <3>1, RunReturns DEF TokenTypes
  <2>3. CASE curChar = "." /\ consume /\ GoTo("dots", grown)
    <3>1. grown = Append(text, curChar) /\ curChar \in STRING /\ text \in Seq(STRING)
      BY <1>0, <2>3, CurCharType DEF grown, LexTypeOK
    <3>2. pc' = "dots" /\ text' = <<".", ".">>
      BY <2>1, <2>3, <3>1, Longer DEF GoTo
    <3>3. Shape(pc, text)'
      BY <3>2 DEF Shape
    <3> QED
      BY <1>0, <2>1, <2>3, <3>3, RunGoesOn DEF RunPlaces
  <2>4. CASE ~isDelimiter /\ curChar # "." /\ peek /\ GoTo("number", text)
    <3>1. ASSUME pos # Len(input) PROVE ScannerSpec!IsNumber(Append(text, curChar))
      <4>1. curChar \in STRING
        BY <3>1, TextTypes, CharSeqFacts DEF curChar
      <4> QED
        BY <2>1, <2>4, <4>1, NumberGrows DEF LexTypeOK
    <3>2. text \in Unclear
      BY <2>1 DEF Unclear
    <3> QED
      BY <2>1, <2>4, <3>1, <3>2, ToNumber
  <2> QED
    BY <1>2, <2>2, <2>3, <2>4 DEF getDot
<1>3. CASE pc = "dots"
  <2>1. RunHere /\ text = <<".", ".">>
    BY <1>3, InsideRun DEF RunPlaces, RunHere, Shape
  <2>2. CASE curChar = "." /\ consume /\ GoTo("ellipsis", grown)
    <3>1. grown = Append(text, curChar) /\ curChar \in STRING /\ text \in Seq(STRING)
      BY <1>0, <2>2, CurCharType DEF grown, LexTypeOK
    <3>2. pc' = "ellipsis" /\ text' = <<".", ".", ".">>
      <4>1. Append(text, curChar) = <<".", ".", ".">>
        <5>1. Append(<<curChar, curChar>>, curChar) = <<curChar, curChar, curChar>>
          BY <3>1, Longer, Zenon
        <5> QED
          BY <2>1, <2>2, <5>1, Zenon
      <4> QED
        BY <2>2, <3>1, <4>1 DEF GoTo
    <3>3. Shape(pc, text)'
      BY <3>2 DEF Shape
    <3> QED
      BY <1>0, <2>1, <2>2, <3>3, RunGoesOn DEF RunPlaces
  <2>3. CASE curChar # "." /\ Throw
    <3>1. /\ Len(WholeRun) \in Nat /\ Len(WholeRun) >= Len(text)
          /\ \A k \in 1..Len(text) : WholeRun[k] = text[k]
          /\ pos < Len(input) /\ curChar \notin Delimiter => WholeRun[Len(text) + 1] = curChar
          /\ pos = Len(input) \/ curChar \in Delimiter => WholeRun = text
      BY <2>1, RunOn
    <3>2. Len(text) = 2 /\ text[1] = "." /\ text[2] = "."
      BY <2>1
    <3>3. Len(WholeRun) >= 2 /\ WholeRun[1] = "." /\ WholeRun[2] = "."
      BY <3>1, <3>2
    <3>4. ASSUME WholeRun = <<".", ".", ".">> PROVE FALSE
      <4>1. WholeRun[3] = "." /\ Len(WholeRun) = 3
        BY <3>4
      <4>2. pos < Len(input) /\ curChar \notin Delimiter
        BY <3>1, <3>2, <4>1, TextTypes
      <4> QED
        BY <2>3, <3>1, <3>2, <4>1, <4>2
    <3>5. NoToken(WholeRun, RunStop)
      BY <3>1, <3>3, <3>4, DotsOnly DEF NoToken
    <3> QED
      BY <2>1, <2>3, <3>5, RunThrows
  <2> QED
    BY <1>3, <2>2, <2>3 DEF getDot
<1>4. CASE pc = "ellipsis"
  <2>1. RunHere /\ text = <<".", ".", ".">>
    BY <1>4, InsideRun DEF RunPlaces, RunHere, Shape
  <2>2. CASE isDelimiter /\ peek /\ Return("SYMBOL", text)
    <3>1. ScannerSpec!RunType(text) = "SYMBOL"
      BY <2>1, RunTypes
    <3> QED
      BY <2>1, <2>2, <3>1, RunReturns DEF TokenTypes
  <2>3. CASE ~isDelimiter /\ Throw
    <3>1. /\ Len(WholeRun) \in Nat /\ Len(WholeRun) >= Len(text)
          /\ \A k \in 1..Len(text) : WholeRun[k] = text[k]
          /\ pos < Len(input) /\ curChar \notin Delimiter => Len(WholeRun) > Len(text)
          /\ pos = Len(input) => RunStop = Len(input)
      BY <2>1, RunOn
    <3>2. Len(text) = 3 /\ text[1] = "." /\ text[2] = "."
      BY <2>1
    <3>3. Len(WholeRun) >= 2 /\ WholeRun[1] = "." /\ WholeRun[2] = "."
      BY <3>1, <3>2
    <3>4. ASSUME RunStop < Len(input), WholeRun = <<".", ".", ".">> PROVE FALSE
      <4>1. Len(WholeRun) = 3
        BY <3>4
      <4>2. pos < Len(input) /\ curChar \notin Delimiter
        BY <2>3, <3>1, <3>4, TextTypes DEF isDelimiter
      <4> QED
        BY <3>1, <3>2, <4>1, <4>2
    <3>5. NoToken(WholeRun, RunStop)
      BY <3>1, <3>3, <3>4, DotsOnly DEF NoToken
    <3> QED
      BY <2>1, <2>3, <3>5, RunThrows
  <2> QED
    BY <1>4, <2>2, <2>3 DEF getDot
<1> QED
  BY <1>1, <1>2, <1>3, <1>4 DEF getDot

\* A boolean, or a number with a prefix.
LEMMA ScanPound ==
  ASSUME LexTypeOK, ScanInv, getPoundSpecial
  PROVE  Follows
<1>1. CASE pc = "next" /\ curChar = "#" /\ consume /\ GoTo("pound", grown)
  <2>1. curChar \notin Special /\ curChar \notin Delimiter
    BY <1>1, Classes
  <2>2. /\ grown = <<curChar>>
        /\ \A place \in RunPlaces : GoTo(place, grown) /\ Shape(pc, text)' => Follows
    BY <1>1, <2>1, RunStarts
  <2>3. pc' = "pound" /\ text' = <<"#">>
    BY <1>1, <2>2 DEF GoTo
  <2>4. Shape(pc, text)'
    BY <2>3 DEF Shape
  <2> QED
    BY <1>1, <2>2, <2>4 DEF RunPlaces
<1>2. CASE pc = "pound"
  <2>1. RunHere /\ text = <<"#">>
    BY <1>2, InsideRun DEF RunPlaces, RunHere, Shape
  <2>2. CASE curChar \in {"t", "f"} /\ consume /\ GoTo("bool", grown)
    <3>1. curChar \notin Delimiter /\ curChar # EOF
      BY <2>2, Classes
    <3>2. grown = Append(text, curChar) /\ curChar \in STRING /\ text \in Seq(STRING)
      BY <3>1, CurCharType DEF grown, LexTypeOK
    <3>3. pc' = "bool" /\ text' \in {<<"#", "t">>, <<"#", "f">>}
      <4>1. Append(text, curChar) = <<"#", curChar>>
        <5>1. "#" \in STRING
          <6>1. Len(text) = 1 /\ text[1] = "#"
            BY <2>1
          <6>2. text[1] \in STRING
            BY <3>2, <6>1
          <6> QED
            BY <6>1, <6>2, Zenon
        <5>2. Append(<<"#">>, curChar) = <<"#", curChar>>
          BY <3>2, <5>1, Longer, Zenon
        <5> QED
          BY <2>1, <5>2, Zenon
      <4> QED
        BY <2>2, <3>2, <4>1 DEF GoTo
    <3>4. Shape(pc, text)'
      BY <3>3 DEF Shape
    <3> QED
      BY <2>1, <2>2, <3>1, <3>4, RunGoesOn DEF RunPlaces
  <2>3. CASE curChar \in Radix \cup Exactness /\ peek /\ GoTo("number", text)
    <3>1. curChar \notin Delimiter /\ curChar # EOF
      BY <2>3, Classes
    <3>2. pos # Len(input) /\ curChar \in STRING
      BY <3>1, CurCharType, TextTypes
    <3>3. ScannerSpec!IsNumber(Append(text, curChar))
      BY <2>1, <2>3, <3>2, NumberGrows DEF LexTypeOK
    <3> QED
      BY <2>1, <2>3, <3>1, <3>2, <3>3, ToNumber DEF isDelimiter
  <2>4. CASE curChar \notin {"t", "f"} \cup Radix \cup Exactness /\ Throw
    <3>1. /\ Len(WholeRun) \in Nat /\ Len(WholeRun) >= Len(text)
          /\ \A k \in 1..Len(text) : WholeRun[k] = text[k]
          /\ pos < Len(input) /\ curChar \notin Delimiter => WholeRun[Len(text) + 1] = curChar
          /\ pos = Len(input) \/ curChar \in Delimiter => WholeRun = text
      BY <2>1, RunOn
    <3>2. Len(text) = 1 /\ text[1] = "#"
      BY <2>1
    <3>3. WholeRun[1] = "#"
      BY <3>1, <3>2
    <3>4. Len(WholeRun) > 1 => WholeRun[2] = curChar
      <4>1. CASE pos = Len(input) \/ curChar \in Delimiter
        BY <3>1, <3>2, <4>1
      <4>2. CASE ~(pos = Len(input) \/ curChar \in Delimiter)
        <5>1. pos < Len(input)
          BY <4>2, TextTypes
        <5> QED
          BY <3>1, <3>2, <4>2, <5>1
      <4> QED
        BY <4>1, <4>2
    <3>5. /\ ~(Len(WholeRun) > 1 /\ WholeRun[2] \in Radix \cup Exactness)
          /\ ~(Len(WholeRun) = 2 /\ WholeRun[2] \in {"t", "f"})
      BY <2>4, <3>4
    <3>6. NoToken(WholeRun, RunStop)
      BY <3>3, <3>5, PoundOnly DEF NoToken
    <3> QED
      BY <2>1, <2>4, <3>6, RunThrows
  <2> QED
    BY <1>2, <2>2, <2>3, <2>4 DEF getPoundSpecial
<1>3. CASE pc = "bool"
  <2>1. RunHere /\ text \in {<<"#", "t">>, <<"#", "f">>}
    BY <1>3, InsideRun DEF RunPlaces, RunHere, Shape
  <2>2. CASE isDelimiter /\ peek /\ Return("BOOL", text)
    <3>1. ScannerSpec!RunType(text) = "BOOL"
      BY <2>1, RunTypes
    <3> QED
      BY <2>1, <2>2, <3>1, RunReturns DEF TokenTypes
  <2>3. CASE ~isDelimiter /\ Throw
    <3>1. /\ Len(WholeRun) \in Nat /\ Len(WholeRun) >= Len(text)
          /\ \A k \in 1..Len(text) : WholeRun[k] = text[k]
          /\ pos < Len(input) /\ curChar \notin Delimiter => Len(WholeRun) > Len(text)
          /\ pos = Len(input) => RunStop = Len(input)
      BY <2>1, RunOn
    <3>2. Len(text) = 2 /\ text[1] = "#" /\ text[2] \in {"t", "f"}
      BY <2>1
    <3>3. WholeRun[1] = "#" /\ WholeRun[2] \in {"t", "f"}
      BY <3>1, <3>2
    <3>4. WholeRun[2] \notin Radix \cup Exactness
      BY <3>3, Classes
    <3>5. ASSUME RunStop < Len(input) PROVE Len(WholeRun) # 2
      <4>1. pos < Len(input) /\ curChar \notin Delimiter
        BY <2>3, <3>1, <3>5, TextTypes DEF isDelimiter
      <4>2. Len(WholeRun) > Len(text)
        BY <3>1, <4>1, Zenon
      <4>3. Len(WholeRun) \in Nat /\ Len(text) = 2
        BY <3>1, <3>2
      <4> DEFINE n == Len(WholeRun)
                 m == Len(text)
      <4> HIDE DEF n, m
      <4>4. n > m /\ n \in Nat /\ m = 2
        BY <4>2, <4>3, Zenon DEF n, m
      <4>5. n # 2
        BY <4>4
      <4> QED
        BY <4>5, Zenon DEF n
    <3>6. NoToken(WholeRun, RunStop)
      BY <3>3, <3>4, <3>5, PoundOnly DEF NoToken
    <3> QED
      BY <2>1, <2>3, <3>6, RunThrows
  <2> QED
    BY <1>3, <2>2, <2>3 DEF getPoundSpecial
<1> QED
  BY <1>1, <1>2, <1>3 DEF getPoundSpecial

\* A comment, from its semicolon to the end of its line.
LEMMA ScanComment ==
  ASSUME LexTypeOK, ScanInv, skipComment
  PROVE  Follows
<1>1. input \in Seq(STRING) /\ Len(input) \in Nat /\ pos \in 0..Len(input)
  BY TextTypes, Zenon
<1>2. pc \in {"next", "comment"} /\ consume
  BY DEF skipComment
<1>3. pc # "error" /\ ~Ended
  BY <1>2 DEF ScanInv, StillAsked
<1>4. ASSUME GoTo("comment", <<>>), InComment' PROVE Follows
  <2>1. /\ pc' = "comment" /\ Ended' = Ended
    BY <1>4, GoToKeeps
  <2>2. AtRest' /\ Looking' /\ InString' /\ InRun' /\ StillAsked'
    BY <1>3, <2>1 DEF AtRest, Looking, InString, InRun, StillAsked, RunPlaces
  <2>3. UNCHANGED ScannerSpec!vars
    BY <1>3, <1>4, Stutters
  <2> QED
    BY <1>4, <2>2, <2>3 DEF ScanInv, Follows
<1>5. ASSUME NEW q \in 0..(pos' - 1), GoTo("comment", <<>>),
             input[q + 1] = ";", Origin = BeginsIn(input, q),
             \A k \in q..(pos' - 1) : input[k + 1] \notin LineEnd
      PROVE  Follows
  <2>1. input' = input /\ Origin' = Origin
    BY <1>5, GoToKeeps
  <2>2. InComment'
    BY <1>5, <2>1 DEF InComment
  <2> QED
    BY <1>4, <1>5, <2>2
<1>6. CASE pc = "next" /\ curChar = ";" /\ GoTo("comment", <<>>)
  <2>1. curChar # EOF /\ curChar \notin LineEnd
    BY <1>6 DEF EOF, LineEnd
  <2>2. pos < Len(input) /\ input[pos + 1] = curChar
    BY <2>1, CurCharType DEF curChar
  <2>3. pos' = pos + 1 /\ pos \in 0..(pos' - 1)
    BY <1>1, <1>2, <2>2 DEF consume
  <2>4. ASSUME NEW k \in pos..(pos' - 1) PROVE input[k + 1] \notin LineEnd
    <3>1. k = pos
      BY <1>1, <2>3
    <3> QED
      BY <2>1, <2>2, <3>1
  <2>5. Origin = BeginsIn(input, pos)
    BY <1>6 DEF ScanInv, Looking
  <2>6. input[pos + 1] = ";"
    BY <1>6, <2>2
  <2> QED
    BY <1>5, <1>6, <2>3, <2>4, <2>5, <2>6
<1>7. CASE pc = "comment"
  <2>1. PICK q \in 0..(pos - 1) :
          /\ input[q + 1] = ";"
          /\ Origin = BeginsIn(input, q)
          /\ \A k \in q..(pos - 1) : input[k + 1] \notin LineEnd
    BY <1>7 DEF ScanInv, InComment
  <2>2. CASE curChar \notin LineEnd /\ GoTo("comment", <<>>)
    <3>1. q \in 0..(pos' - 1)
      BY <1>1, <1>2 DEF consume
    <3>2. ASSUME NEW k \in q..(pos' - 1) PROVE input[k + 1] \notin LineEnd
      <4>1. k \in q..(pos - 1) \/ (k = pos /\ pos < Len(input))
        BY <1>1, <1>2 DEF consume
      <4> QED
        BY <2>1, <2>2, <4>1 DEF curChar
    <3> QED
      BY <1>5, <2>1, <2>2, <3>1, <3>2
  <2>3. CASE curChar \in LineEnd /\ GoTo("next", <<>>)
    <3>1. curChar # EOF
      BY <2>3 DEF EOF, LineEnd
    <3>2. pos < Len(input) /\ input[pos + 1] = curChar
      BY <3>1, CurCharType DEF curChar
    <3>3. pos' = pos + 1
      BY <1>2, <3>2 DEF consume
    <3>4. q \in 0..Len(input) /\ pos \in q..Len(input) /\ q < Len(input)
      BY <1>1, <3>2
    <3>5. FirstIn(input, q, LineEnd) = pos
      BY <1>1, <2>1, <2>3, <3>2, <3>4, FirstInIs
    <3>6. pos # Len(input)
      BY <1>1, <3>2
    <3>7. BeginsIn(input, q) = IF FirstIn(input, q, LineEnd) = Len(input) THEN -1
                               ELSE BeginsIn(input, FirstIn(input, q, LineEnd) + 1)
      BY <1>1, <2>1, <3>4, BeginsStep
    <3>8. Origin = BeginsIn(input, pos')
      BY <2>1, <3>3, <3>5, <3>6, <3>7, Zenon
    <3> QED
      BY <1>3, <2>3, <3>8, AfterBlank
  <2> QED
    BY <1>7, <2>2, <2>3 DEF skipComment
<1> QED
  BY <1>6, <1>7 DEF skipComment

\* A string, up to its quote.
LEMMA ScanString ==
  ASSUME LexTypeOK, ScanInv, getString
  PROVE  Follows
<1>1. input \in Seq(STRING) /\ Len(input) \in Nat /\ pos \in 0..Len(input)
  BY TextTypes, Zenon
<1>2. pc \in {"next", "string"} /\ consume
  BY DEF getString
<1>3. pc # "error" /\ ~Ended
  BY <1>2 DEF ScanInv, StillAsked
<1>4. ASSUME NEW w, GoTo("string", w),
             Origin \in 0..(pos' - 1), input[Origin + 1] = "\"",
             \A k \in (Origin + 1)..(pos' - 1) : input[k + 1] # "\"",
             w = SubSeq(input, Origin + 2, pos')
      PROVE  Follows
  <2>1. /\ input' = input /\ pc' = "string" /\ text' = w /\ Origin' = Origin
        /\ Ended' = Ended
    BY <1>4, GoToKeeps
  <2>2. InString'
    BY <1>4, <2>1 DEF InString
  <2>3. AtRest' /\ Looking' /\ InComment' /\ InRun' /\ StillAsked'
    BY <1>3, <2>1 DEF AtRest, Looking, InComment, InRun, StillAsked, RunPlaces
  <2>4. UNCHANGED ScannerSpec!vars
    BY <1>3, <1>4, Stutters
  <2> QED
    BY <2>2, <2>3, <2>4 DEF ScanInv, Follows
<1>5. CASE pc = "next" /\ curChar = "\"" /\ GoTo("string", <<>>)
  <2>1. curChar # EOF /\ curChar \notin Space /\ curChar # ";"
    BY <1>5 DEF EOF, Space
  <2>2. pos < Len(input) /\ input[pos + 1] = curChar
    BY <2>1, CurCharType DEF curChar
  <2>3. pos' = pos + 1
    BY <1>2, <2>2 DEF consume
  <2>4. Origin = pos
    BY <1>5, <2>1, TokenHere
  <2>5. <<>> = SubSeq(input, pos + 2, pos + 1)
    BY <1>1
  <2>6. Origin \in 0..(pos' - 1) /\ \A k \in (Origin + 1)..(pos' - 1) : FALSE
    BY <1>1, <2>3, <2>4
  <2>7. input[Origin + 1] = "\"" /\ <<>> = SubSeq(input, Origin + 2, pos')
    BY <1>5, <2>2, <2>3, <2>4, <2>5
  <2> QED
    BY <1>4, <1>5, <2>6, <2>7
<1>6. CASE pc = "string"
  <2>1. /\ Origin \in 0..(pos - 1)
        /\ input[Origin + 1] = "\""
        /\ \A k \in (Origin + 1)..(pos - 1) : input[k + 1] # "\""
        /\ text = SubSeq(input, Origin + 2, pos)
    BY <1>6 DEF ScanInv, InString
  <2>0. Origin \in 0..(pos - 1)
    BY <2>1
  <2>2. /\ Origin + 1 \in 0..Len(input) /\ pos \in (Origin + 1)..Len(input)
        /\ (Origin + 1) + 1 = Origin + 2 /\ Origin \in Int /\ Origin # -1
    BY <1>1, <2>0
  <2>3. CASE curChar # "\"" /\ GoTo("string", grown)
    <3>0. pos' = IF pos < Len(input) THEN pos + 1 ELSE pos
      BY <1>2 DEF consume
    <3>1. Origin \in 0..(pos' - 1)
      BY <1>1, <2>0, <3>0
    <3>2. ASSUME NEW k \in (Origin + 1)..(pos' - 1) PROVE input[k + 1] # "\""
      <4>1. k \in (Origin + 1)..(pos - 1) \/ (k = pos /\ pos < Len(input))
        BY <1>1, <2>0, <3>0
      <4> QED
        BY <2>1, <2>3, <4>1 DEF curChar
    <3>3. grown = SubSeq(input, Origin + 2, pos')
      <4>1. CASE pos < Len(input)
        <5>1. SubSeq(input, (Origin + 1) + 1, pos + 1)
                = Append(SubSeq(input, (Origin + 1) + 1, pos), input[pos + 1])
          BY <1>1, <2>2, <4>1, PartOfText
        <5>2. pos' = pos + 1 /\ curChar = input[pos + 1] /\ grown = Append(text, curChar)
          BY <1>2, <4>1 DEF consume, curChar, grown
        <5> QED
          BY <2>1, <2>2, <5>1, <5>2
      <4>2. CASE ~(pos < Len(input))
        BY <1>2, <2>1, <4>2 DEF consume, grown
      <4> QED
        BY <4>1, <4>2
    <3> QED
      BY <1>4, <2>1, <2>3, <3>1, <3>2, <3>3
  <2>4. CASE curChar = "\"" /\ Return("STRING", text)
    <3>1. curChar # EOF
      BY <2>4 DEF EOF
    <3>2. pos < Len(input) /\ input[pos + 1] = curChar
      BY <3>1, CurCharType DEF curChar
    <3>3. pos' = pos + 1 /\ pos # Len(input)
      BY <1>1, <1>2, <3>2 DEF consume
    <3>4. input[pos + 1] \in {"\""} /\ \A k \in (Origin + 1)..(pos - 1) : input[k + 1] \notin {"\""}
      BY <2>1, <2>4, <3>2
    <3>5. FirstIn(input, Origin + 1, {"\""}) = pos
      BY <1>1, <2>2, <3>4, FirstInIs
    <3>6. ScannerSpec!FirstFrom(Origin + 1, {"\""}) = pos
      BY <3>5, ScannerTerms
    <3>7. Origin # Len(input)
      BY <1>1, <2>0
    <3>8. input[Origin + 1] = "\"" /\ "\"" # EOF /\ "\"" \notin {"(", ")", "'"}
      BY <2>1 DEF EOF
    <3>9. ScannerSpec!TokenAt(Origin)
            = ScannerSpec!Token("STRING", SubSeq(input, Origin + 2, pos), pos + 1)
      <4>1. ScannerSpec!EOF = EOF
        BY ScannerClasses
      <4>2. input[Origin + 1] # EOF /\ input[Origin + 1] \notin {"(", ")", "'"}
        BY <3>8
      <4> DEFINE c == input[Origin + 1]
                 s == ScannerSpec!FirstFrom(Origin + 1, {"\""})
      <4>3. s = pos /\ s < Len(input) /\ s # Len(input) /\ c = "\""
        BY <3>2, <3>3, <3>6, <3>8
      <4> QED
        BY <3>7, <4>1, <4>2, <4>3, Zenon DEF ScannerSpec!TokenAt
    <3>10. "STRING" \in TokenTypes /\ text \in Seq(STRING)
      BY DEF TokenTypes, LexTypeOK
    <3>11. ScannerSpec!Next
      BY <1>3, <2>1, <2>2, <2>4, <3>3, <3>9, <3>10, Returns
    <3>12. ScanInv'
      BY <1>2, <2>4, <3>10, AfterReturn
    <3> QED
      BY <3>11, <3>12 DEF Follows
  <2> QED
    BY <1>6, <2>3, <2>4 DEF getString
<1> QED
  BY <1>5, <1>6 DEF getString

-----------------------------------------------------------------------------

\* Each step of the lexer is a step of the scanner or none.
LEMMA ScanStep ==
  ASSUME LexTypeOK, ScanInv, LexNext
  PROVE  Follows
BY ScanNextToken, ScanAtEnd, ScanSkipSpace, ScanPunctuation, ScanInvalidCharacter,
   ScanIdentifier, ScanPeculiar, ScanNumber, ScanDot, ScanComment, ScanString, ScanPound
DEF LexNext

\* It begins as the scanner does.
LEMMA ScanInit ==
  ASSUME Init
  PROVE  ScanInv /\ ScannerSpec!Init
<1>1. input \in Seq(STRING) /\ pos = 0 /\ pc = "idle" /\ tokens = <<>>
  BY InputsAssumption DEF Init, LexInit
<1>2. ScanInv
  BY <1>1 DEF ScanInv, AtRest, Looking, InComment, InString, InRun, StillAsked, RunPlaces,
              LastEnd
<1>3. ScannerSpec!Init
  BY <1>1 DEF ScannerSpec!Init
<1> QED
  BY <1>2, <1>3

\* While programs run and numbers are converted, neither side moves.
LEMMA ScanReader ==
  ASSUME LInv, ScanInv, [Next]_vars
  PROVE  Follows
<1>1. CASE Lex
  BY <1>1, ScanStep DEF Lex, LInv
<1>2. CASE UNCHANGED lexVars
  <2>1. /\ input' = input /\ pos' = pos /\ pc' = pc /\ text' = text /\ tokens' = tokens
    BY <1>2 DEF lexVars
  <2>2. Origin' = Origin /\ LastEnd' = LastEnd /\ Ended' = Ended
    BY <2>1 DEF Origin, LastEnd, Ended
  <2>3. AtRest' /\ Looking' /\ InComment' /\ InString' /\ StillAsked'
    BY <2>1, <2>2
    DEF ScanInv, AtRest, Looking, InComment, InString, StillAsked
  <2>4. InRun'
    <3>1. RunSoFar(Origin, pos, text)' = RunSoFar(Origin, pos, text)
      BY <2>1, <2>2 DEF RunSoFar
    <3>2. ScannerSpec!IsNumber(text)' = ScannerSpec!IsNumber(text)
      BY <2>1 DEF ScannerSpec!IsNumber
    <3>3. curChar' = curChar /\ isDelimiter' = isDelimiter
      BY <2>1 DEF curChar, isDelimiter
    <3>4. ScannerSpec!IsNumber(Append(text, curChar))'
            = ScannerSpec!IsNumber(Append(text, curChar))
      BY <2>1, <3>3 DEF ScannerSpec!IsNumber
    <3>5. Shape(pc, text)' = Shape(pc, text)
      BY <2>1, <3>2, <3>3, <3>4 DEF Shape
    <3> QED
      BY <2>1, <3>1, <3>5 DEF ScanInv, InRun
  <2>5. UNCHANGED ScannerSpec!vars
    BY <2>1 DEF ScannerSpec!vars
  <2> QED
    BY <2>3, <2>4, <2>5 DEF ScanInv, Follows
<1>3. UNCHANGED vars => UNCHANGED lexVars
  BY DEF vars, lexVars
<1> QED
  BY <1>1, <1>2, <1>3 DEF Next, Run

(***************************************************************************)
(* For every set of texts, the lexer does what the scanner promises: its      *)
(* state maps to a state of the scanner, it returns the token that the whole  *)
(* text has at this place, throws only where the text has none, and does      *)
(* nothing else.  (That it comes to an end is a matter of TLC.)              *)
(***************************************************************************)
THEOREM LexerScans == Spec => ScannerSpec!Init /\ [][ScannerSpec!Next]_(ScannerSpec!vars)
<1> DEFINE I == LInv /\ ScanInv
<1>1. Init => I /\ ScannerSpec!Init
  BY LInit, ScanInit
<1>2. I /\ [Next]_vars => I' /\ [ScannerSpec!Next]_(ScannerSpec!vars)
  BY ReaderStep, ScanReader DEF Follows
<1> QED
  BY <1>1, <1>2, PTL DEF Spec

-----------------------------------------------------------------------------
\* Digits and powers of ten.

\* the characters that can be digits
Figural == {cstr[j] : j \in 1..Len(cstr)}

\* The characters that can be digits, in their order.
LEMMA CstrFacts ==
  /\ Len(cstr) = 23
  /\ cstr[1] = "." /\ cstr[2] = "0" /\ cstr[3] = "1" /\ cstr[4] = "2" /\ cstr[5] = "3"
  /\ cstr[6] = "4" /\ cstr[7] = "5" /\ cstr[8] = "6" /\ cstr[9] = "7" /\ cstr[10] = "8"
  /\ cstr[11] = "9" /\ cstr[12] = "a" /\ cstr[13] = "A" /\ cstr[14] = "b" /\ cstr[15] = "B"
  /\ cstr[16] = "c" /\ cstr[17] = "C" /\ cstr[18] = "d" /\ cstr[19] = "D" /\ cstr[20] = "e"
  /\ cstr[21] = "E" /\ cstr[22] = "f" /\ cstr[23] = "F"
  BY DEF cstr

\* The value of a character that can be a digit, and of the ten digits.
LEMMA DigitValues ==
  /\ Digit \subseteq Figural
  /\ \A c \in Figural : digit_value(c) \in Int
  /\ \A k \in 0..9 : cstr[k + 2] \in Digit /\ digit_value(cstr[k + 2]) = k
  /\ \A c \in Digit : digit_value(c) \in 0..9
<1>1. Figural = {cstr[j] : j \in 1..23}
  BY CstrFacts DEF Figural
<1>2. ASSUME NEW c \in Figural
      PROVE  \E k \in 1..23 : cstr[k] = c /\ digit_value(c) = IF k <= 11 THEN k - 2
                                                            ELSE 10 + ((k - 12) \div 2)
  <2> DEFINE k == CHOOSE j \in 1..23 : cstr[j] = c
  <2>1. k \in 1..23 /\ cstr[k] = c
    BY <1>1
  <2>2. digit_value(c) = IF k <= 11 THEN k - 2 ELSE 10 + ((k - 12) \div 2)
    BY CstrFacts DEF digit_value
  <2> HIDE DEF k
  <2> QED
    BY <2>1, <2>2
<1>3. \A c \in Figural : digit_value(c) \in Int
  BY <1>2
<1>4. ASSUME NEW k \in 0..9
      PROVE  cstr[k + 2] \in Digit /\ digit_value(cstr[k + 2]) = k
  <2>1. k + 2 \in 1..23
    OBVIOUS
  <2>2. PICK j \in 1..23 : /\ cstr[j] = cstr[k + 2]
                           /\ digit_value(cstr[k + 2]) = IF j <= 11 THEN j - 2
                                                         ELSE 10 + ((j - 12) \div 2)
    BY <1>1, <1>2, <2>1
  <2>3. j = k + 2
    BY <2>2, CstrFacts
  <2>4. cstr[k + 2] \in Digit
    BY CstrFacts DEF Digit
  <2> QED
    BY <2>2, <2>3, <2>4
<1>5. ASSUME NEW c \in Digit PROVE \E k \in 0..9 : c = cstr[k + 2]
  <2>1. /\ cstr[0 + 2] = "0" /\ cstr[1 + 2] = "1" /\ cstr[2 + 2] = "2" /\ cstr[3 + 2] = "3"
        /\ cstr[4 + 2] = "4" /\ cstr[5 + 2] = "5" /\ cstr[6 + 2] = "6" /\ cstr[7 + 2] = "7"
        /\ cstr[8 + 2] = "8" /\ cstr[9 + 2] = "9"
    BY CstrFacts
  <2>2. 0 \in 0..9 /\ 1 \in 0..9 /\ 2 \in 0..9 /\ 3 \in 0..9 /\ 4 \in 0..9
        /\ 5 \in 0..9 /\ 6 \in 0..9 /\ 7 \in 0..9 /\ 8 \in 0..9 /\ 9 \in 0..9
    OBVIOUS
  <2> QED
    BY <2>1, <2>2, Zenon DEF Digit
<1>6. Digit \subseteq Figural
  <2>1. \A k \in 0..9 : k + 2 \in 1..23
    OBVIOUS
  <2>2. \A k \in 0..9 : cstr[k + 2] \in Figural
    BY <1>1, <2>1
  <2> QED
    BY <1>5, <2>2
<1> QED
  BY <1>3, <1>4, <1>5, <1>6

\* the equations of PowerOfTen
PowersOfTen(P, L) ==
  P \in [0..L -> Nat \ {0}] /\ P[0] = 1 /\ \A j \in 1..L : P[j] = 10 * P[j - 1]

\* PowerOfTen is computed by a function that meets them.
LEMMA PowerSolved ==
  ASSUME NEW L \in Nat
  PROVE  \E P : PowersOfTen(P, L) /\ PowerOfTen(L) = P[L]
<1> DEFINE X == Nat \ {0}
           E(j, f) == IF j = 0 THEN 1 ELSE 10 * f[j - 1]
           T == [j \in 0..L |-> [f \in [0..L -> X] |-> E(j, f)]]
           P == CHOOSE P : P = [j \in 0..L |-> E(j, P)]
<1>1. PowerOfTen(L) = P[L]
  BY DEF PowerOfTen
<1>2. ASSUME NEW j \in 0..L, NEW f \in [0..L -> X] PROVE E(j, f) \in X
  <2>1. CASE j = 0
    BY <2>1
  <2>2. CASE j # 0
    <3>1. j - 1 \in 0..L
      BY <2>2
    <3>2. f[j - 1] \in Nat \ {0}
      BY <3>1
    <3> QED
      BY <2>2, <3>2
  <2> QED
    BY <2>1, <2>2
<1>3. ASSUME NEW j \in 0..L, NEW f \in [0..L -> X], NEW g \in [0..L -> X],
             \A i \in 0..(j - 1) : f[i] = g[i]
      PROVE  E(j, f) = E(j, g)
  <2>1. j # 0 => j - 1 \in 0..(j - 1)
    OBVIOUS
  <2> QED
    BY <1>3, <2>1
<1>4. X # {}
  <2>1. 1 \in X
    OBVIOUS
  <2> QED
    BY <2>1
<1>5. T \in Functionals(L, X)
  BY <1>2 DEF Functionals
<1> HIDE DEF E, X
<1>6. LooksBelow(T, L, X)
  BY <1>3 DEF LooksBelow
<1>7. PICK F : Fixpoint(F, T, L, X)
  <2> HIDE DEF T, P
  <2> QED
    BY <1>4, <1>5, <1>6, RecursiveFunction
<1>8. F = [j \in 0..L |-> E(j, F)]
  BY <1>7 DEF Fixpoint
<1>9. P = [j \in 0..L |-> E(j, P)]
  <2> HIDE DEF T
  <2> QED
    BY <1>8
<1> HIDE DEF P
<1>10. \A j \in 0..L : P[j] = E(j, P)
  BY <1>9
<1>11. P[0] = 1
  BY <1>10 DEF E
<1>12. \A j \in 1..L : P[j] = 10 * P[j - 1]
  BY <1>10 DEF E
<1> DEFINE Q == {j \in Nat : j <= L => P[j] \in Nat \ {0}}
<1>13. ASSUME NEW j \in Nat, \A i \in 0..(j - 1) : i \in Q
       PROVE  j \in Q
  <2> SUFFICES ASSUME j <= L PROVE P[j] \in Nat \ {0}
    OBVIOUS
  <2>1. CASE j = 0
    BY <1>11, <2>1
  <2>2. CASE j # 0
    <3>1. j \in 1..L /\ j - 1 \in 0..(j - 1) /\ j - 1 <= L
      BY <2>2
    <3>2. P[j - 1] \in Nat \ {0}
      BY <1>13, <3>1
    <3>3. P[j] = 10 * P[j - 1]
      BY <1>12, <3>1
    <3> QED
      BY <3>2, <3>3
  <2> QED
    BY <2>1, <2>2
<1> HIDE DEF Q
<1>14. Nat \subseteq Q
  BY <1>13, NatSetInduction
<1>15. ASSUME NEW j \in 0..L PROVE P[j] \in Nat \ {0}
  BY <1>14 DEF Q
<1>16. P \in [0..L -> Nat \ {0}]
  <2>1. \A j \in 0..L : E(j, P) \in Nat \ {0}
    BY <1>10, <1>15
  <2> QED
    BY <1>9, <2>1
<1> QED
  BY <1>1, <1>11, <1>12, <1>16 DEF PowersOfTen

\* A power of ten is a natural other than 0.
LEMMA PowerType ==
  ASSUME NEW L \in Nat
  PROVE  PowerOfTen(L) \in Nat \ {0}
<1>1. PICK P : PowersOfTen(P, L) /\ PowerOfTen(L) = P[L]
  BY PowerSolved
<1>2. L \in 0..L
  OBVIOUS
<1> QED
  BY <1>1, <1>2 DEF PowersOfTen

\* the equations of Natural
Positional(N, w, radix) ==
  /\ N \in [0..Len(w) -> Int] /\ N[0] = 0
  /\ \A k \in 1..Len(w) : N[k] = N[k - 1] * radix + digit_value(w[k])

\* Natural is computed by a function that meets them.
LEMMA NaturalSolved ==
  ASSUME NEW w \in Seq(Figural), NEW radix \in Int
  PROVE  \E N : Positional(N, w, radix) /\ Natural(w, radix) = N[Len(w)]
<1> DEFINE L == Len(w)
           E(k, f) == IF k = 0 THEN 0 ELSE f[k - 1] * radix + digit_value(w[k])
           T == [k \in 0..L |-> [f \in [0..L -> Int] |-> E(k, f)]]
           N == CHOOSE N : N = [k \in 0..L |-> E(k, N)]
<1>0. L \in Nat
  OBVIOUS
<1>1. Natural(w, radix) = N[L]
  BY DEF Natural
<1>2. \A k \in 1..L : digit_value(w[k]) \in Int
  BY SeqFacts, DigitValues
<1> HIDE DEF L
<1>3. ASSUME NEW k \in 0..L, NEW f \in [0..L -> Int] PROVE E(k, f) \in Int
  <2>1. CASE k = 0
    BY <2>1
  <2>2. CASE k # 0
    <3>1. k - 1 \in 0..L /\ k \in 1..L
      BY <1>0, <2>2
    <3>2. f[k - 1] \in Int /\ digit_value(w[k]) \in Int
      BY <1>2, <3>1
    <3> QED
      BY <2>2, <3>2
  <2> QED
    BY <2>1, <2>2
<1>4. ASSUME NEW k \in 0..L, NEW f \in [0..L -> Int], NEW g \in [0..L -> Int],
             \A i \in 0..(k - 1) : f[i] = g[i]
      PROVE  E(k, f) = E(k, g)
  <2>1. k # 0 => k - 1 \in 0..(k - 1)
    BY <1>0
  <2> QED
    BY <1>4, <2>1
<1>5. T \in Functionals(L, Int)
  BY <1>3 DEF Functionals
<1> HIDE DEF E
<1>6. LooksBelow(T, L, Int)
  BY <1>4 DEF LooksBelow
<1>7. PICK F : Fixpoint(F, T, L, Int)
  <2> HIDE DEF T, N
  <2>1. Int # {}
    OBVIOUS
  <2> QED
    BY <1>0, <1>5, <1>6, <2>1, RecursiveFunction
<1>8. F = [k \in 0..L |-> E(k, F)]
  BY <1>7 DEF Fixpoint
<1>9. N = [k \in 0..L |-> E(k, N)]
  <2> HIDE DEF T
  <2> QED
    BY <1>8
<1> HIDE DEF N
<1>10. \A k \in 0..L : N[k] = E(k, N)
  BY <1>9
<1>11. N[0] = 0
  BY <1>0, <1>10 DEF E
<1>12. \A k \in 1..L : N[k] = N[k - 1] * radix + digit_value(w[k])
  <2>1. \A k \in 1..L : k \in 0..L /\ k # 0
    BY <1>0
  <2> QED
    BY <1>10, <2>1, Zenon DEF E
<1> DEFINE Q == {k \in Nat : k <= L => N[k] \in Int}
<1>13. ASSUME NEW k \in Nat, \A i \in 0..(k - 1) : i \in Q
       PROVE  k \in Q
  <2> SUFFICES ASSUME k <= L PROVE N[k] \in Int
    OBVIOUS
  <2>1. CASE k = 0
    BY <1>11, <2>1
  <2>2. CASE k # 0
    <3>1. k \in 1..L /\ k - 1 \in 0..(k - 1) /\ k - 1 <= L
      BY <1>0, <2>2
    <3>2. N[k - 1] \in Int /\ digit_value(w[k]) \in Int
      BY <1>2, <1>13, <3>1
    <3>3. N[k] = N[k - 1] * radix + digit_value(w[k])
      BY <1>12, <3>1
    <3> QED
      BY <3>2, <3>3
  <2> QED
    BY <2>1, <2>2
<1> HIDE DEF Q
<1>14. Nat \subseteq Q
  BY <1>13, NatSetInduction
<1>15. ASSUME NEW k \in 0..L PROVE N[k] \in Int
  <2>1. k \in Q /\ k <= L
    BY <1>0, <1>14
  <2> QED
    BY <2>1 DEF Q
<1>16. N \in [0..L -> Int]
  <2>1. \A k \in 0..L : E(k, N) \in Int
    BY <1>10, <1>15
  <2> QED
    BY <1>9, <2>1
<1> QED
  BY <1>1, <1>11, <1>12, <1>16 DEF Positional, L

\* The value of a text, of an empty one, and of one with a digit more.
LEMMA NaturalFacts ==
  ASSUME NEW radix \in Int
  PROVE  /\ Natural(<<>>, radix) = 0
         /\ \A w \in Seq(Figural) :
              /\ Natural(w, radix) \in Int
              /\ \A c \in Figural :
                   Natural(Append(w, c), radix) = Natural(w, radix) * radix + digit_value(c)
<1>1. Natural(<<>>, radix) = 0
  <2>1. <<>> \in Seq(Figural) /\ Len(<<>>) = 0
    OBVIOUS
  <2> QED
    BY <2>1, NaturalSolved DEF Positional
<1>2. ASSUME NEW w \in Seq(Figural)
      PROVE  Natural(w, radix) \in Int
  <2>1. PICK N : Positional(N, w, radix) /\ Natural(w, radix) = N[Len(w)]
    BY NaturalSolved
  <2> QED
    BY <2>1 DEF Positional
<1>3. ASSUME NEW w \in Seq(Figural), NEW c \in Figural
      PROVE  Natural(Append(w, c), radix) = Natural(w, radix) * radix + digit_value(c)
  <2> DEFINE v == Append(w, c)
             L == Len(w)
  <2>1. /\ v \in Seq(Figural) /\ L \in Nat /\ Len(v) = L + 1 /\ v[L + 1] = c
        /\ \A k \in 1..L : v[k] = w[k]
    OBVIOUS
  <2> HIDE DEF v
  <2>2. PICK N : Positional(N, w, radix) /\ Natural(w, radix) = N[L]
    BY NaturalSolved
  <2>3. PICK M : Positional(M, v, radix) /\ Natural(v, radix) = M[L + 1]
    BY <2>1, NaturalSolved
  <2> HIDE DEF L
  <2>4. /\ N[0] = 0 /\ M[0] = 0
        /\ \A k \in 1..L : N[k] = N[k - 1] * radix + digit_value(w[k])
        /\ \A k \in 1..(L + 1) : M[k] = M[k - 1] * radix + digit_value(v[k])
    BY <2>1, <2>2, <2>3 DEF Positional, L
  <2> DEFINE Q == {k \in Nat : k <= L => M[k] = N[k]}
  <2>5. ASSUME NEW k \in Nat, \A i \in 0..(k - 1) : i \in Q
        PROVE  k \in Q
    <3> SUFFICES ASSUME k <= L, k # 0 PROVE M[k] = N[k]
      BY <2>4
    <3>1. k \in 1..L /\ k \in 1..(L + 1) /\ k - 1 \in 0..(k - 1) /\ k - 1 <= L
      BY <2>1
    <3>2. M[k - 1] = N[k - 1]
      BY <2>5, <3>1
    <3> QED
      BY <2>1, <2>4, <3>1, <3>2
  <2> HIDE DEF Q
  <2>6. L \in Q
    BY <2>1, <2>5, NatSetInduction
  <2>7. M[L] = N[L]
    BY <2>1, <2>6 DEF Q
  <2>8. M[L + 1] = M[L] * radix + digit_value(c)
    <3>1. L + 1 \in 1..(L + 1) /\ (L + 1) - 1 = L
      BY <2>1
    <3> QED
      BY <2>1, <2>4, <3>1
  <2> QED
    BY <2>2, <2>3, <2>7, <2>8 DEF v
<1> QED
  BY <1>1, <1>2, <1>3

\* A text of at most L digits is a number below the L-th power of ten.
LEMMA DigitsBounded ==
  ASSUME NEW L \in Nat, NEW w \in Seq(Digit), Len(w) <= L
  PROVE  Natural(w, 10) \in 0..(PowerOfTen(L) - 1)
<1> DEFINE n == Len(w)
<1>1. w \in Seq(Figural)
  BY DigitValues
<1>2. PICK N : Positional(N, w, 10) /\ Natural(w, 10) = N[n]
  BY <1>1, NaturalSolved
<1>3. PICK P : PowersOfTen(P, L) /\ PowerOfTen(L) = P[L]
  BY PowerSolved
<1>4. n \in Nat /\ n <= L /\ \A k \in 1..n : digit_value(w[k]) \in 0..9
  BY DigitValues
<1> HIDE DEF n
<1>5. /\ N[0] = 0 /\ \A k \in 1..n : N[k] = N[k - 1] * 10 + digit_value(w[k])
      /\ \A k \in 0..n : N[k] \in Int
      /\ P[0] = 1 /\ \A k \in 1..L : P[k] = 10 * P[k - 1]
      /\ \A k \in 0..L : P[k] \in Nat /\ P[k] > 0
  <2>1. N \in [0..n -> Int] /\ P \in [0..L -> Nat \ {0}]
    BY <1>2, <1>3, Zenon DEF Positional, PowersOfTen, n
  <2>2. /\ N[0] = 0 /\ \A k \in 1..n : N[k] = N[k - 1] * 10 + digit_value(w[k])
        /\ P[0] = 1 /\ \A k \in 1..L : P[k] = 10 * P[k - 1]
    BY <1>2, <1>3, Zenon DEF Positional, PowersOfTen, n
  <2>3. \A k \in 0..L : P[k] \in Nat /\ P[k] > 0
    BY <2>1
  <2> QED
    BY <2>1, <2>2, <2>3
<1> DEFINE Q == {k \in Nat : k <= n => N[k] >= 0 /\ N[k] < P[k]}
           R == {k \in Nat : n + k <= L => P[n] <= P[n + k]}
<1>6. ASSUME NEW k \in Nat, \A i \in 0..(k - 1) : i \in Q
      PROVE  k \in Q
  <2> SUFFICES ASSUME k <= n PROVE N[k] >= 0 /\ N[k] < P[k]
    OBVIOUS
  <2>1. CASE k = 0
    BY <1>5, <2>1
  <2>2. CASE k # 0
    <3>1. k \in 1..n /\ k \in 1..L /\ k - 1 \in 0..(k - 1) /\ k - 1 \in 0..n /\ k - 1 \in 0..L
      BY <1>4, <2>2
    <3>2. N[k - 1] >= 0 /\ N[k - 1] < P[k - 1]
      BY <1>6, <3>1
    <3>3. /\ N[k] = N[k - 1] * 10 + digit_value(w[k]) /\ P[k] = 10 * P[k - 1]
          /\ digit_value(w[k]) \in 0..9 /\ N[k - 1] \in Int /\ P[k - 1] \in Int
      BY <1>4, <1>5, <3>1
    <3> DEFINE a == N[k - 1]
               b == P[k - 1]
               d == digit_value(w[k])
    <3>4. a * 10 + d >= 0 /\ a * 10 + d < 10 * b
      <4>1. a \in Int /\ b \in Int /\ d \in 0..9 /\ a >= 0 /\ a < b
        BY <3>2, <3>3
      <4> HIDE DEF a, b, d
      <4> QED
        BY <4>1
    <3> QED
      BY <3>3, <3>4
  <2> QED
    BY <2>1, <2>2
<1>7. ASSUME NEW k \in Nat, \A i \in 0..(k - 1) : i \in R
      PROVE  k \in R
  <2> SUFFICES ASSUME n + k <= L PROVE P[n] <= P[n + k]
    OBVIOUS
  <2>0. P[n] \in Nat
    BY <1>4, <1>5
  <2>1. CASE k = 0
    BY <1>4, <2>0, <2>1
  <2>2. CASE k # 0
    <3> DEFINE j == n + k
    <3>1. /\ j \in 1..L /\ k - 1 \in 0..(k - 1) /\ j - 1 \in 0..L
          /\ n + (k - 1) = j - 1 /\ j - 1 <= L
      BY <1>4, <2>2
    <3>2. P[n] <= P[j - 1]
      BY <1>7, <3>1
    <3> HIDE DEF j
    <3>3. P[j] = 10 * P[j - 1] /\ P[j - 1] \in Nat
      BY <1>5, <3>1
    <3>4. P[n] <= P[j]
      BY <2>0, <3>2, <3>3
    <3> QED
      BY <3>4 DEF j
  <2> QED
    BY <2>1, <2>2
<1> HIDE DEF Q, R
<1>8. n \in Q /\ L - n \in R
  <2>1. n \in Nat /\ L - n \in Nat
    BY <1>4
  <2>2. Nat \subseteq Q /\ Nat \subseteq R
    BY <1>6, <1>7, NatSetInduction
  <2> QED
    BY <2>1, <2>2
<1>9. N[n] >= 0 /\ N[n] < P[n] /\ P[n] <= P[L]
  <2>1. n + (L - n) = L /\ L <= L /\ n <= n
    BY <1>4
  <2> QED
    BY <1>8, <2>1 DEF Q, R
<1> QED
  <2>1. N[n] \in Int /\ P[n] \in Nat /\ P[L] \in Nat
    BY <1>4, <1>5
  <2> QED
    BY <1>2, <1>3, <1>9, <2>1

\* the equation of DecimalDigits
InDecimal(D, n) ==
  D \in [0..n -> Seq(Digit)] /\
  \A k \in 0..n : D[k] = IF k < 10 THEN <<cstr[k + 2]>>
                         ELSE Append(D[k \div 10], cstr[(k % 10) + 2])

\* Quotient and remainder by ten.
LEMMA ByTen ==
  ASSUME NEW k \in Nat
  PROVE  /\ k % 10 \in 0..9 /\ k \div 10 \in Nat /\ k = (k \div 10) * 10 + (k % 10)
         /\ k >= 10 => k \div 10 \in 0..(k - 1)
<1>1. k % 10 \in 0..9 /\ k \div 10 \in Int /\ k = 10 * (k \div 10) + (k % 10)
  OBVIOUS
<1> DEFINE q == k \div 10
           r == k % 10
<1> HIDE DEF q, r
<1>2. q \in Int /\ r \in 0..9 /\ k = 10 * q + r
  BY <1>1 DEF q, r
<1>3. q \in Nat /\ k = q * 10 + r /\ (k >= 10 => q \in 0..(k - 1))
  BY <1>2
<1> QED
  BY <1>1, <1>3 DEF q, r

\* DecimalDigits is computed by a function that meets it.
LEMMA DecimalSolved ==
  ASSUME NEW n \in Nat
  PROVE  \E D : InDecimal(D, n) /\ DecimalDigits(n) = D[n]
<1> DEFINE X == Seq(Digit)
           E(k, f) == IF k < 10 THEN <<cstr[k + 2]>>
                      ELSE Append(f[k \div 10], cstr[(k % 10) + 2])
           T == [k \in 0..n |-> [f \in [0..n -> X] |-> E(k, f)]]
           D == CHOOSE D : D = [k \in 0..n |-> E(k, D)]
<1>1. DecimalDigits(n) = D[n]
  BY DEF DecimalDigits
<1>2. ASSUME NEW k \in 0..n
      PROVE  /\ k < 10 => <<cstr[k + 2]>> \in X
             /\ cstr[(k % 10) + 2] \in Digit
             /\ k >= 10 => k \div 10 \in 0..(k - 1) /\ k \div 10 \in 0..n
  <2>1. \A j \in 0..9 : cstr[j + 2] \in Digit
    BY DigitValues
  <2>2. k % 10 \in 0..9 /\ (k >= 10 => k \div 10 \in 0..(k - 1))
    BY ByTen
  <2> QED
    BY <2>1, <2>2
<1>3. ASSUME NEW k \in 0..n, NEW f \in [0..n -> X] PROVE E(k, f) \in X
  <2>1. CASE k < 10
    BY <1>2, <2>1
  <2>2. CASE ~(k < 10)
    <3>1. f[k \div 10] \in X
      BY <1>2, <2>2
    <3> QED
      BY <1>2, <2>2, <3>1
  <2> QED
    BY <2>1, <2>2
<1>4. ASSUME NEW k \in 0..n, NEW f \in [0..n -> X], NEW g \in [0..n -> X],
             \A i \in 0..(k - 1) : f[i] = g[i]
      PROVE  E(k, f) = E(k, g)
  <2>1. ~(k < 10) => f[k \div 10] = g[k \div 10]
    BY <1>2, <1>4
  <2> QED
    BY <2>1
<1>5. T \in Functionals(n, X)
  BY <1>3 DEF Functionals
<1> HIDE DEF E
<1>6. LooksBelow(T, n, X)
  BY <1>4 DEF LooksBelow
<1>7. PICK F : Fixpoint(F, T, n, X)
  <2>1. X # {}
    <3>1. <<>> \in X
      OBVIOUS
    <3> QED
      BY <3>1
  <2> HIDE DEF T, D, X
  <2> QED
    BY <1>5, <1>6, <2>1, RecursiveFunction
<1>8. F = [k \in 0..n |-> E(k, F)]
  BY <1>7 DEF Fixpoint
<1>9. D = [k \in 0..n |-> E(k, D)]
  <2> HIDE DEF T
  <2> QED
    BY <1>8
<1> HIDE DEF D
<1>10. \A k \in 0..n : D[k] = E(k, D)
  BY <1>9
<1> DEFINE Q == {k \in Nat : k <= n => D[k] \in X}
<1>11. ASSUME NEW k \in Nat, \A i \in 0..(k - 1) : i \in Q
       PROVE  k \in Q
  <2> SUFFICES ASSUME k <= n PROVE D[k] \in X
    OBVIOUS
  <2>0. k \in 0..n
    OBVIOUS
  <2>1. CASE k < 10
    <3>1. D[k] = <<cstr[k + 2]>>
      BY <1>10, <2>0, <2>1 DEF E
    <3> QED
      BY <1>2, <2>0, <2>1, <3>1
  <2>2. CASE ~(k < 10)
    <3>1. k \div 10 \in 0..(k - 1) /\ k \div 10 \in 0..n
      BY <1>2, <2>0, <2>2
    <3>2. D[k \div 10] \in X
      BY <1>11, <3>1
    <3>3. D[k] = Append(D[k \div 10], cstr[(k % 10) + 2])
      BY <1>10, <2>0, <2>2 DEF E
    <3> QED
      BY <1>2, <2>0, <3>2, <3>3
  <2> QED
    BY <2>1, <2>2
<1> HIDE DEF Q
<1>12. ASSUME NEW k \in 0..n PROVE D[k] \in X
  <2>1. k \in Q /\ k <= n
    BY <1>11, NatSetInduction
  <2> QED
    BY <2>1 DEF Q
<1>13. D \in [0..n -> Seq(Digit)]
  <2>1. \A k \in 0..n : E(k, D) \in Seq(Digit)
    BY <1>10, <1>12
  <2> QED
    BY <1>9, <2>1
<1> QED
  BY <1>1, <1>10, <1>13 DEF InDecimal, E

(***************************************************************************)
(* The digits that are written of a natural number spell it.                 *)
(***************************************************************************)
LEMMA DecimalSpells ==
  ASSUME NEW n \in Nat
  PROVE  /\ DecimalDigits(n) \in Seq(Digit) /\ Len(DecimalDigits(n)) >= 1
         /\ Natural(DecimalDigits(n), 10) = n
<1>1. PICK D : InDecimal(D, n) /\ DecimalDigits(n) = D[n]
  BY DecimalSolved
<1> DEFINE Spells(k) == D[k] \in Seq(Digit) /\ Len(D[k]) >= 1 /\ Natural(D[k], 10) = k
           Q == {k \in Nat : k <= n => Spells(k)}
<1>2. ASSUME NEW k \in Nat, \A i \in 0..(k - 1) : i \in Q
      PROVE  k \in Q
  <2> SUFFICES ASSUME k <= n PROVE Spells(k)
    OBVIOUS
  <2>0. k \in 0..n /\ \A j \in 0..9 : /\ cstr[j + 2] \in Digit /\ cstr[j + 2] \in Figural
                                      /\ digit_value(cstr[j + 2]) = j
    BY DigitValues
  <2>1. CASE k < 10
    <3> DEFINE c == cstr[k + 2]
    <3>1. D[k] = <<c>> /\ c \in Digit /\ c \in Figural /\ digit_value(c) = k
      <4>1. k \in 0..9
        BY <2>1
      <4> QED
        BY <1>1, <2>0, <2>1, <4>1 DEF InDecimal
    <3> HIDE DEF c
    <3>2. D[k] = Append(<<>>, c) /\ <<>> \in Seq(Figural) /\ D[k] \in Seq(Digit) /\ Len(D[k]) = 1
      BY <3>1
    <3>3. Natural(D[k], 10) = Natural(<<>>, 10) * 10 + digit_value(c)
      <4>1. Natural(Append(<<>>, c), 10) = Natural(<<>>, 10) * 10 + digit_value(c)
        <5>1. <<>> \in Seq(Figural) /\ 10 \in Int
          OBVIOUS
        <5> QED
          BY <3>1, <5>1, NaturalFacts, Zenon
      <4> QED
        BY <3>2, <4>1
    <3>4. Natural(<<>>, 10) = 0
      BY NaturalFacts
    <3> QED
      BY <3>1, <3>2, <3>3, <3>4
  <2>2. CASE ~(k < 10)
    <3> DEFINE c == cstr[(k % 10) + 2]
               q == k \div 10
    <3>1. /\ k % 10 \in 0..9 /\ q \in Nat /\ k = q * 10 + (k % 10)
          /\ q \in 0..(k - 1)
      BY <2>2, ByTen
    <3>2. D[k] = Append(D[q], c)
      BY <1>1, <2>0, <2>2 DEF InDecimal
    <3>3. c \in Digit /\ c \in Figural /\ digit_value(c) = k % 10
      BY <2>0, <3>1
    <3> HIDE DEF c, q
    <3>4. q <= n
      BY <3>1
    <3>5. Spells(q)
      BY <1>2, <3>1, <3>4
    <3> DEFINE u == D[q]
    <3>6. u \in Seq(Digit) /\ u \in Seq(Figural) /\ Len(u) >= 1 /\ Natural(u, 10) = q
      BY <3>5, DigitValues
    <3> HIDE DEF u
    <3>7. Append(u, c) \in Seq(Digit) /\ Len(Append(u, c)) >= 1
      BY <3>3, <3>6
    <3>8. Natural(Append(u, c), 10) = q * 10 + (k % 10)
      BY <3>3, <3>6, NaturalFacts
    <3> QED
      BY <3>1, <3>2, <3>7, <3>8 DEF u
  <2> QED
    BY <2>1, <2>2
<1> HIDE DEF Q
<1>3. n \in Q
  BY <1>2, NatSetInduction
<1>4. Spells(n)
  BY <1>3 DEF Q
<1> QED
  BY <1>1, <1>4

-----------------------------------------------------------------------------
\* Where the loops over characters stop.

\* Such a loop stops behind the text at the latest.
LEMMA SkipFacts ==
  ASSUME NEW X, NEW s \in Seq(X), NEW k \in 1..(Len(s) + 1), NEW S, NUL \notin S
  PROVE  /\ SkipOver(s, k, S) \in k..(Len(s) + 1)
         /\ At(s, SkipOver(s, k, S)) \notin S
         /\ \A j \in k..(SkipOver(s, k, S) - 1) : s[j] \in S
<1> DEFINE n == Len(s)
           M == {e \in k..(n + 1) : At(s, e) \notin S}
           Stop(e) == At(s, e) \notin S /\ \A j \in k..(e - 1) : s[j] \in S
           e0 == CHOOSE e \in k..(n + 1) : Stop(e)
<1>1. n \in Nat /\ k \in 1..(n + 1)
  OBVIOUS
<1>2. n + 1 \in M
  <2>1. At(s, n + 1) = NUL
    BY <1>1 DEF At
  <2> QED
    BY <1>1, <2>1
<1>3. SkipOver(s, k, S) = e0
  BY DEF SkipOver
<1>4. \E m \in M : \A j \in M : m <= j
  <2>1. M \in SUBSET Nat /\ M # {}
    BY <1>1, <1>2
  <2> HIDE DEF M
  <2> QED
    BY <2>1, LeastNatural
<1>5. PICK m \in M : \A j \in M : m <= j
  BY <1>4
<1>6. m \in k..(n + 1) /\ At(s, m) \notin S
  OBVIOUS
<1>7. ASSUME NEW j \in k..(m - 1) PROVE s[j] \in S
  <2>1. j \in k..(n + 1) /\ ~(m <= j) /\ j <= n
    BY <1>1, <1>6
  <2>2. j \notin M
    BY <1>5, <2>1
  <2>3. At(s, j) \in S
    BY <2>1, <2>2
  <2> QED
    BY <2>1, <2>3 DEF At
<1>8. e0 \in k..(n + 1) /\ Stop(e0)
  <2>1. \E e \in k..(n + 1) : Stop(e)
    BY <1>6, <1>7
  <2> HIDE DEF Stop
  <2> QED
    BY <2>1
<1> QED
  BY <1>3, <1>8

\* It stops where the first other character is.
LEMMA SkipIs ==
  ASSUME NEW X, NEW s \in Seq(X), NEW k \in 1..(Len(s) + 1), NEW S, NUL \notin S,
         NEW e \in k..(Len(s) + 1), At(s, e) \notin S, \A j \in k..(e - 1) : s[j] \in S
  PROVE  SkipOver(s, k, S) = e
<1> DEFINE f == SkipOver(s, k, S)
<1>1. /\ f \in k..(Len(s) + 1) /\ At(s, f) \notin S /\ \A j \in k..(f - 1) : s[j] \in S
  BY SkipFacts
<1>2. Len(s) \in Nat /\ e \in Nat /\ k \in Nat
  OBVIOUS
<1> HIDE DEF f
<1>3. ~(f < e)
  <2> SUFFICES ASSUME f < e PROVE FALSE
    OBVIOUS
  <2>1. f \in k..(e - 1) /\ f <= Len(s)
    BY <1>1, <1>2
  <2> QED
    BY <1>1, <2>1 DEF At
<1>4. ~(e < f)
  <2> SUFFICES ASSUME e < f PROVE FALSE
    OBVIOUS
  <2>1. e \in k..(f - 1) /\ e <= Len(s)
    BY <1>1, <1>2
  <2> QED
    BY <1>1, <2>1 DEF At
<1> QED
  BY <1>1, <1>2, <1>3, <1>4 DEF f

\* The digits of a radix.
LEMMA RadixDigits ==
  ASSUME NEW radix \in 2..36
  PROVE  /\ ston_digits(radix) \subseteq Figural
         /\ NUL \notin ston_digits(radix) /\ NUL \notin {".", "#"} /\ NUL \notin Digit
         /\ "+" \notin ston_digits(radix) /\ "-" \notin ston_digits(radix)
         /\ "i" \notin ston_digits(radix) /\ "/" \notin ston_digits(radix)
         /\ radix = 10 => ston_digits(radix) = Digit \cup {"."}
<1> DEFINE req == IF radix <= 10 THEN radix ELSE 2 * radix - 10
<1>1. ston_digits(radix) = {cstr[k] : k \in {j \in 1..23 : j - 1 <= req}}
  BY CstrFacts DEF ston_digits
<1>2. ston_digits(radix) \subseteq Figural
  BY <1>1, CstrFacts DEF Figural
<1>3. Figural = {cstr[k] : k \in 1..23}
  BY CstrFacts DEF Figural
<1>4. "" \notin Figural /\ "+" \notin Figural /\ "-" \notin Figural
      /\ "i" \notin Figural /\ "/" \notin Figural
  <2>1. \A j \in 1..23 : cstr[j] \in
          Digit \cup {".", "a", "A", "b", "B", "c", "C", "d", "D", "e", "E", "f", "F"}
    BY CstrFacts DEF Digit
  <2>2. Figural \subseteq
          Digit \cup {".", "a", "A", "b", "B", "c", "C", "d", "D", "e", "E", "f", "F"}
    BY <1>3, <2>1
  <2> QED
    BY <2>2 DEF Digit
<1>5. radix = 10 => ston_digits(radix) = Digit \cup {"."}
  <2> SUFFICES ASSUME radix = 10 PROVE ston_digits(radix) = Digit \cup {"."}
    OBVIOUS
  <2>1. req = 10
    OBVIOUS
  <2>2. {j \in 1..23 : j - 1 <= req} = 1..11
    BY <2>1
  <2>3. 1..11 = {1, 2, 3, 4, 5, 6, 7, 8, 9, 10, 11}
    OBVIOUS
  <2>4. ston_digits(radix) = {cstr[k] : k \in {1, 2, 3, 4, 5, 6, 7, 8, 9, 10, 11}}
    BY <1>1, <2>2, <2>3
  <2> QED
    BY <2>4, CstrFacts DEF Digit
<1>6. NUL \notin {".", "#"} /\ NUL \notin Digit
  BY DEF NUL, Digit
<1> QED
  BY <1>2, <1>4, <1>5, <1>6 DEF NUL

Signs == {"+", "-"}

(***************************************************************************)
(* What _ston_parse_real passes, from q behind the sign: digits up to d,      *)
(* points and #s up to h and an exponent up to the end.                      *)
(***************************************************************************)
Passed(s, p, radix, f, q, d, h) ==
  /\ q \in p..(Len(s) + 1) /\ d \in q..(Len(s) + 1) /\ h \in d..(Len(s) + 1)
  /\ f.end \in h..(Len(s) + 1)
  /\ q = IF At(s, p) \in Signs THEN p + 1 ELSE p
  /\ At(s, d) \notin ston_digits(radix) /\ At(s, h) \notin {".", "#"}
  /\ \A j \in q..(d - 1) : s[j] \in ston_digits(radix)
  /\ \A j \in d..(h - 1) : s[j] \in {".", "#"}
  /\ f.valid = WellFormed(s, q, d, h, radix)
  /\ f.end = ExponentEnd(s, h)
  /\ f.sign = (q # p)
  /\ f.iunit = (d = q /\ At(s, d) = "i")
  /\ f.decimal = (Points(s, q, h) # {} \/ Marked(s, h))
  /\ f.pound = ("#" \in {s[k] : k \in d..(h - 1)})
  /\ f.dup = Overwritten(s, d, h)
  /\ Marked(s, h) =>
       LET k == IF At(s, h + 1) \in Signs THEN h + 2 ELSE h + 1
       IN k \in (h + 1)..f.end /\ \A j \in k..(f.end - 1) : s[j] \in Digit
  /\ f.dup \in Seq(Character) /\ Len(f.dup) = Len(s)
  /\ \A j \in 1..Len(s) :
       f.dup[j] = CASE j \in d..(h - 1) /\ s[j] = "#" -> "0"
                    [] j = h /\ s[j] \in Marker -> "@"
                    [] OTHER -> s[j]

\* What it returns, in terms of the places where its loops stop.
LEMMA ParsePlaces ==
  ASSUME NEW s \in Seq(Character), NEW p \in 1..(Len(s) + 1), NEW radix \in 2..36,
         NEW q, NEW d, NEW h, q = IF At(s, p) \in {"+", "-"} THEN p + 1 ELSE p,
         d = SkipOver(s, q, ston_digits(radix)), h = SkipOver(s, d, {".", "#"})
  PROVE  /\ q \in Nat /\ d \in Nat /\ h \in Nat
         /\ Passed(s, p, radix, ston_parse_real(s, p, radix), q, d, h)
<1> DEFINE n == Len(s)
           k == IF At(s, h + 1) \in {"+", "-"} THEN h + 2 ELSE h + 1
           f == ston_parse_real(s, p, radix)
           end == ExponentEnd(s, h)
           dup == Overwritten(s, d, h)
           unit == d = q /\ At(s, d) = "i"
           dec == Points(s, q, h) # {} \/ Marked(s, h)
           pound == "#" \in {s[j] : j \in d..(h - 1)}
           sign == q # p
<1>0. f = [valid |-> WellFormed(s, q, d, h, radix), end |-> end, sign |-> sign,
           iunit |-> unit, decimal |-> dec, pound |-> pound, dup |-> dup]
  BY Zenon DEF ston_parse_real
<1>1. /\ f.valid = WellFormed(s, q, d, h, radix)
      /\ f.end = end
      /\ f.sign = (q # p)
      /\ f.iunit = (d = q /\ At(s, d) = "i")
      /\ f.decimal = (Points(s, q, h) # {} \/ Marked(s, h))
      /\ f.pound = ("#" \in {s[j] : j \in d..(h - 1)})
      /\ f.dup = dup
  <2> HIDE DEF unit, dec, pound, sign, f, end, dup
  <2>1. /\ f.valid = WellFormed(s, q, d, h, radix) /\ f.end = end /\ f.sign = sign
        /\ f.iunit = unit /\ f.decimal = dec /\ f.pound = pound /\ f.dup = dup
    BY <1>0
  <2> QED
    BY <2>1, Zenon DEF unit, dec, pound, sign
<1> HIDE DEF unit, dec, pound, sign
<1>2. n \in Nat /\ p \in 1..(n + 1) /\ p \in Nat /\ \A j \in 1..n : s[j] \in Character
  BY SeqFacts
<1> HIDE DEF f
<1>3. \A j \in Nat : At(s, j) # "" => j <= n
  BY <1>2 DEF At, NUL
<1>3a. \A j \in Nat : At(s, j) \in {"+", "-"} \/ At(s, j) \in Marker => j <= n
  BY <1>3 DEF Marker
<1>4. q \in p..(n + 1) /\ q \in 1..(n + 1)
  <2>1. At(s, p) \in {"+", "-"} => p <= n
    BY <1>2, <1>3
  <2> QED
    BY <1>2, <2>1
<1>5. /\ d \in q..(n + 1) /\ At(s, d) \notin ston_digits(radix)
      /\ \A j \in q..(d - 1) : s[j] \in ston_digits(radix)
  BY <1>4, SkipFacts, RadixDigits
<1>6. d \in 1..(n + 1) /\ d \in Nat
  BY <1>2, <1>4, <1>5
<1>7. /\ h \in d..(n + 1) /\ At(s, h) \notin {".", "#"}
      /\ \A j \in d..(h - 1) : s[j] \in {".", "#"}
  BY <1>6, SkipFacts, RadixDigits
<1>8. h \in 1..(n + 1) /\ h \in Nat
  BY <1>2, <1>6, <1>7
<1>9. Marked(s, h) => k \in (h + 1)..(n + 1) /\ k \in 1..(n + 1)
  <2> SUFFICES ASSUME Marked(s, h) PROVE k \in (h + 1)..(n + 1) /\ k \in 1..(n + 1)
    OBVIOUS
  <2>1. h <= n
    BY <1>3a, <1>8 DEF Marked
  <2>2. At(s, h + 1) \in {"+", "-"} => h + 1 <= n
    <3>1. h + 1 \in Nat
      BY <1>8
    <3> QED
      BY <1>3a, <3>1
  <2> QED
    BY <1>8, <2>1, <2>2
<1> HIDE DEF k
<1>10. /\ Marked(s, h) => end \in k..(n + 1) /\ \A j \in k..(end - 1) : s[j] \in Digit
       /\ ~Marked(s, h) => end = h
  <2>1. Marked(s, h) => /\ SkipOver(s, k, Digit) \in k..(n + 1)
                        /\ \A j \in k..(SkipOver(s, k, Digit) - 1) : s[j] \in Digit
    BY <1>9, SkipFacts, RadixDigits
  <2>2. end = IF ~Marked(s, h) THEN h ELSE SkipOver(s, k, Digit)
    BY Zenon DEF ExponentEnd, k
  <2> QED
    BY <2>1, <2>2
<1> HIDE DEF end
<1>11. end \in h..(n + 1)
  BY <1>2, <1>8, <1>9, <1>10
<1>12. /\ dup \in Seq(Character) /\ Len(dup) = n
       /\ \A j \in 1..n : dup[j] = CASE j \in d..(h - 1) /\ s[j] = "#" -> "0"
                                     [] j = h /\ s[j] \in Marker -> "@"
                                     [] OTHER -> s[j]
  <2>1. "0" \in Character /\ "@" \in Character
    BY DEF Character, Digit
  <2>2. dup \in [1..n -> Character]
    BY <1>2, <2>1 DEF Overwritten
  <2>3. \A j \in 1..n : dup[j] = CASE j \in d..(h - 1) /\ s[j] = "#" -> "0"
                                     [] j = h /\ s[j] \in Marker -> "@"
                                     [] OTHER -> s[j]
    BY DEF Overwritten
  <2>4. dup \in Seq(Character) /\ Len(dup) = n
    BY <1>2, <2>2, FunctionIsSeq
  <2> QED
    BY <2>3, <2>4
<1> HIDE DEF dup
<1>13. Marked(s, h) =>
         LET kk == IF At(s, h + 1) \in Signs THEN h + 2 ELSE h + 1
         IN kk \in (h + 1)..f.end /\ \A j \in kk..(f.end - 1) : s[j] \in Digit
  <2>1. k = IF At(s, h + 1) \in Signs THEN h + 2 ELSE h + 1
    BY DEF k, Signs
  <2>2. Marked(s, h) => k \in (h + 1)..end
    BY <1>2, <1>8, <1>9, <1>10
  <2> QED
    BY <1>1, <1>10, <2>1, <2>2, Zenon
<1>14. q = IF At(s, p) \in Signs THEN p + 1 ELSE p
  BY DEF Signs
<1>15. q \in Nat /\ f.end \in h..(n + 1)
  BY <1>1, <1>2, <1>4, <1>11
<1>16. /\ f.dup \in Seq(Character) /\ Len(f.dup) = n
       /\ \A j \in 1..n : f.dup[j] = CASE j \in d..(h - 1) /\ s[j] = "#" -> "0"
                                     [] j = h /\ s[j] \in Marker -> "@"
                                     [] OTHER -> s[j]
  BY <1>1, <1>12
<1>17. /\ f.end = ExponentEnd(s, h) /\ f.dup = Overwritten(s, d, h)
       /\ f.pound = ("#" \in {s[j] : j \in d..(h - 1)})
  BY <1>1 DEF end, dup
<1>18. Passed(s, p, radix, f, q, d, h)
  BY <1>1, <1>4, <1>5, <1>7, <1>13, <1>14, <1>15, <1>16, <1>17, Zenon DEF Passed, n
<1> QED
  BY <1>6, <1>8, <1>15, <1>18 DEF f

\* What it returns, wherever it starts.
LEMMA ParseFacts ==
  ASSUME NEW s \in Seq(Character), NEW p \in 1..(Len(s) + 1), NEW radix \in 2..36
  PROVE  \E q, d, h \in Nat : Passed(s, p, radix, ston_parse_real(s, p, radix), q, d, h)
<1> DEFINE q == IF At(s, p) \in {"+", "-"} THEN p + 1 ELSE p
           d == SkipOver(s, q, ston_digits(radix))
           h == SkipOver(s, d, {".", "#"})
<1>1. /\ q = IF At(s, p) \in {"+", "-"} THEN p + 1 ELSE p
      /\ d = SkipOver(s, q, ston_digits(radix)) /\ h = SkipOver(s, d, {".", "#"})
  OBVIOUS
<1> HIDE DEF q, d, h
<1>2. /\ q \in Nat /\ d \in Nat /\ h \in Nat
      /\ Passed(s, p, radix, ston_parse_real(s, p, radix), q, d, h)
  BY <1>1, ParsePlaces, Zenon
<1> QED
  BY <1>2

-----------------------------------------------------------------------------
\* The texts that the conversions of GMP get.

\* digits behind an optional minus up to b
DigitsUpto(w, b) == \A j \in 1..(b - 1) : w[j] \in Figural \/ (j = 1 /\ w[1] = "-")

IntegerText(w) == DigitsUpto(w, Len(w) + 1)

FractionText(w) ==
  \E b \in 1..Len(w) : /\ w[b] = "/" /\ DigitsUpto(w, b)
                       /\ \A j \in (b + 1)..Len(w) : w[j] \in Figural

DecimalText(w) ==
  \E b \in 1..(Len(w) + 1) :
    /\ DigitsUpto(w, b)
    /\ b <= Len(w) => w[b] = "@"
    /\ \A j \in (b + 1)..Len(w) : w[j] \in Digit \/ (j = b + 1 /\ w[j] \in Signs)

\* A piece of a text.
LEMMA PieceFacts ==
  ASSUME NEW X, NEW w \in Seq(X), NEW a \in 1..(Len(w) + 1), NEW b \in (a - 1)..Len(w)
  PROVE  /\ SubSeq(w, a, b) \in Seq(X) /\ Len(SubSeq(w, a, b)) = b - a + 1
         /\ \A j \in 1..(b - a + 1) : SubSeq(w, a, b)[j] = w[a + j - 1]
<1>1. Len(w) \in Nat /\ a \in Nat /\ b \in Int
  OBVIOUS
<1>2. SubSeq(w, a, b) = [j \in 1..(b - a + 1) |-> w[a + j - 1]]
  OBVIOUS
<1>3. \A j \in 1..(b - a + 1) : a + j - 1 \in 1..Len(w) /\ w[a + j - 1] \in X
  BY <1>1
<1>4. b - a + 1 \in Nat
  BY <1>1
<1> QED
  BY <1>2, <1>3, <1>4

\* A piece of a text whose characters all belong to a set.
LEMMA PieceOf ==
  ASSUME NEW X, NEW Y, NEW w \in Seq(X), NEW a \in 1..(Len(w) + 1), NEW b \in (a - 1)..Len(w),
         \A j \in a..b : w[j] \in Y
  PROVE  SubSeq(w, a, b) \in Seq(Y)
<1> DEFINE n == b - a + 1
           v == SubSeq(w, a, b)
<1>1. /\ v \in Seq(X) /\ Len(v) = n /\ n \in Nat /\ \A j \in 1..n : v[j] = w[a + j - 1]
  BY PieceFacts
<1>2. a \in Nat /\ b \in Int
  OBVIOUS
<1>3. \A j \in 1..n : v[j] \in Y
  <2> SUFFICES ASSUME NEW j \in 1..n PROVE v[j] \in Y
    OBVIOUS
  <2>1. a + j - 1 \in a..b
    BY <1>2
  <2> QED
    BY <1>1, <2>1
<1> HIDE DEF v, n
<1>4. v \in [1..n -> Y]
  BY <1>1, <1>3
<1> QED
  BY <1>1, <1>4, FunctionIsSeq DEF v

\* The characters of such texts.
LEMMA TextCharacters ==
  /\ "-" \notin Figural /\ "@" \notin Figural /\ "/" \notin Figural
  /\ NUL \notin Figural /\ "+" \notin Figural /\ "i" \notin Figural /\ "#" \notin Figural
  /\ Digit \subseteq Figural /\ Signs \cap Figural = {} /\ NUL \notin Signs
<1>1. \A j \in 1..23 : cstr[j] \in
        Digit \cup {".", "a", "A", "b", "B", "c", "C", "d", "D", "e", "E", "f", "F"}
  BY CstrFacts DEF Digit
<1>2. Figural \subseteq
        Digit \cup {".", "a", "A", "b", "B", "c", "C", "d", "D", "e", "E", "f", "F"}
  <2>1. Figural = {cstr[k] : k \in 1..23}
    BY CstrFacts DEF Figural
  <2> QED
    BY <1>1, <2>1
<1>3. /\ "-" \notin Figural /\ "@" \notin Figural /\ "/" \notin Figural
      /\ NUL \notin Figural /\ "+" \notin Figural /\ "i" \notin Figural /\ "#" \notin Figural
  BY <1>2 DEF Digit, NUL
<1>4. Signs \cap Figural = {} /\ NUL \notin Signs
  BY <1>3 DEF Signs, NUL
<1> QED
  BY <1>3, <1>4, DigitValues

\* Where a character is first, in a text that the empty one is not part of.
LEMMA WhereFacts ==
  ASSUME NEW X, NUL \notin X, NEW w \in Seq(X), NEW c
  PROVE  /\ Where(w, c) \in 1..(Len(w) + 1)
         /\ Where(w, c) <= Len(w) => w[Where(w, c)] = c
         /\ \A j \in 1..(Where(w, c) - 1) : w[j] # c
         /\ \A b \in 1..(Len(w) + 1) :
              (b <= Len(w) => w[b] = c) /\ (\A j \in 1..(b - 1) : w[j] # c)
                => Where(w, c) = b
<1> DEFINE n == Len(w)
           S == {w[k] : k \in 1..n} \ {c}
           e == Where(w, c)
<1>1. n \in Nat /\ \A k \in 1..n : w[k] \in X
  BY SeqFacts
<1>2. NUL \notin S /\ e = SkipOver(w, 1, S) /\ 1 \in 1..(n + 1)
  <2>1. NUL \notin S
    BY <1>1
  <2>2. e = SkipOver(w, 1, S)
    BY Zenon DEF Where
  <2>3. 1 \in 1..(n + 1)
    BY <1>1
  <2> QED
    BY <2>1, <2>2, <2>3
<1> HIDE DEF S, e, n
<1>3. /\ e \in 1..(n + 1) /\ At(w, e) \notin S /\ \A j \in 1..(e - 1) : w[j] \in S
  BY <1>2, SkipFacts DEF n
<1>4. \A k \in 1..n : w[k] \in S <=> w[k] # c
  BY DEF S, n
<1>5. e <= n => w[e] = c
  BY <1>1, <1>3, <1>4 DEF At, n
<1>6. \A j \in 1..(e - 1) : w[j] # c
  BY <1>1, <1>3, <1>4
<1>7. ASSUME NEW b \in 1..(n + 1), b <= n => w[b] = c, \A j \in 1..(b - 1) : w[j] # c
      PROVE  e = b
  <2>1. ~(e < b)
    <3> SUFFICES ASSUME e < b PROVE FALSE
      OBVIOUS
    <3>1. e \in 1..(b - 1) /\ e <= n
      BY <1>1, <1>3
    <3> QED
      BY <1>5, <1>7, <3>1
  <2>2. ~(b < e)
    <3> SUFFICES ASSUME b < e PROVE FALSE
      OBVIOUS
    <3>1. b \in 1..(e - 1) /\ b <= n
      BY <1>1, <1>3
    <3> QED
      BY <1>6, <1>7, <3>1
  <2> QED
    BY <1>1, <1>3, <2>1, <2>2
<1> QED
  BY <1>3, <1>5, <1>6, <1>7 DEF e, n

\* A text without its sign, and the number that it is of.
LEMMA UnsignedFacts ==
  ASSUME NEW w \in Seq(Character), IntegerText(w), NEW radix \in Int
  PROVE  /\ Unsigned(w) \in Seq(Figural)
         /\ Natural(Unsigned(w), radix) \in Int
         /\ Neg(w, Natural(Unsigned(w), radix)) \in Int
<1> DEFINE n == Len(w)
<1>1. n \in Nat /\ \A j \in 1..n : w[j] \in Figural \/ (j = 1 /\ w[1] = "-")
  BY SeqFacts DEF IntegerText, DigitsUpto
<1>2. Unsigned(w) \in Seq(Figural)
  <2>1. CASE Signed(w)
    <3>1. w # <<>> /\ Unsigned(w) = Tail(w)
      BY <2>1 DEF Signed, Unsigned
    <3>2. n >= 1 /\ Tail(w) = SubSeq(w, 2, n)
      BY <3>1
    <3>3. \A j \in 2..n : w[j] \in Figural
      BY <1>1
    <3>4. 2 \in 1..(n + 1) /\ n \in (2 - 1)..n
      BY <1>1, <3>2
    <3>5. SubSeq(w, 2, n) \in Seq(Figural)
      BY <3>3, <3>4, PieceOf
    <3> QED
      BY <3>1, <3>2, <3>5
  <2>2. CASE ~Signed(w)
    <3>1. \A j \in 1..n : w[j] \in Figural
      BY <1>1, <2>2 DEF Signed
    <3>2. w \in [1..n -> Figural]
      BY <3>1
    <3> QED
      BY <1>1, <2>2, <3>2, FunctionIsSeq DEF Unsigned
  <2> QED
    BY <2>1, <2>2
<1>3. Natural(Unsigned(w), radix) \in Int
  BY <1>2, NaturalFacts
<1> QED
  BY <1>2, <1>3 DEF Neg

\* the characters of such texts
NumeralCharacter == Figural \cup Signs \cup {"/", "@"}

\* Such a text has no byte 0 that would end it.
LEMMA NumeralText ==
  ASSUME NEW w \in Seq(Character), IntegerText(w) \/ FractionText(w) \/ DecimalText(w)
  PROVE  w \in Seq(NumeralCharacter) /\ NUL \notin NumeralCharacter
<1> DEFINE n == Len(w)
           C == NumeralCharacter
<1>1. n \in Nat
  OBVIOUS
<1>2. Figural \subseteq C /\ Digit \subseteq C /\ Signs \subseteq C /\ "-" \in C /\ "/" \in C /\ "@" \in C
  BY TextCharacters DEF NumeralCharacter, Signs
<1>3. NUL \notin C
  BY TextCharacters DEF NumeralCharacter, NUL
<1> HIDE DEF C, n
<1>4. ASSUME NEW b \in 1..(n + 1), DigitsUpto(w, b) PROVE \A j \in 1..(b - 1) : w[j] \in C
  BY <1>2, <1>4 DEF DigitsUpto
<1>5. \A j \in 1..n : w[j] \in C
  <2>1. CASE IntegerText(w)
    BY <1>1, <1>4, <2>1 DEF IntegerText, n
  <2>2. CASE FractionText(w)
    <3>1. PICK b \in 1..n : /\ w[b] = "/" /\ DigitsUpto(w, b)
                            /\ \A j \in (b + 1)..n : w[j] \in Figural
      BY <2>2 DEF FractionText, n
    <3>2. \A j \in 1..(b - 1) : w[j] \in C
      BY <1>1, <1>4, <3>1
    <3>3. \A j \in 1..n : j \in 1..(b - 1) \/ j = b \/ j \in (b + 1)..n
      BY <1>1
    <3> QED
      BY <1>2, <3>1, <3>2, <3>3
  <2>3. CASE DecimalText(w)
    <3>1. PICK b \in 1..(n + 1) :
            /\ DigitsUpto(w, b)
            /\ b <= n => w[b] = "@"
            /\ \A j \in (b + 1)..n : w[j] \in Digit \/ (j = b + 1 /\ w[j] \in Signs)
      BY <2>3 DEF DecimalText, n
    <3>2. \A j \in 1..(b - 1) : w[j] \in C
      BY <1>4, <3>1
    <3>3. \A j \in 1..n : j \in 1..(b - 1) \/ (j = b /\ b <= n) \/ j \in (b + 1)..n
      BY <1>1
    <3> QED
      BY <1>2, <3>1, <3>2, <3>3
  <2> QED
    BY <2>1, <2>2, <2>3
<1>6. w \in [1..n -> C]
  BY <1>5 DEF n
<1> QED
  BY <1>1, <1>3, <1>6, FunctionIsSeq DEF C

\* Digits behind an optional minus up to b are an integer's text.
LEMMA UptoText ==
  ASSUME NEW w \in Seq(Character), NEW b \in 1..(Len(w) + 1), DigitsUpto(w, b)
  PROVE  LET v == SubSeq(w, 1, b - 1) IN
         v \in Seq(Character) /\ IntegerText(v) /\ Len(v) = b - 1 /\ (b > 1 => v[1] = w[1])
         /\ \A j \in 1..(b - 1) : v[j] = w[j]
<1> DEFINE v == SubSeq(w, 1, b - 1)
<1>1. 1 \in 1..(Len(w) + 1) /\ b - 1 \in (1 - 1)..Len(w) /\ b - 1 \in Nat
  OBVIOUS
<1>2. v \in Seq(Character) /\ Len(v) = (b - 1) - 1 + 1
      /\ \A j \in 1..((b - 1) - 1 + 1) : v[j] = w[1 + j - 1]
  BY <1>1, PieceFacts
<1> HIDE DEF v
<1>3. Len(v) = b - 1 /\ \A j \in 1..(b - 1) : v[j] = w[j]
  BY <1>1, <1>2
<1>4. b > 1 => v[1] = w[1]
  BY <1>1, <1>3
<1>5. IntegerText(v)
  BY <1>1, <1>3, <1>4 DEF IntegerText, DigitsUpto
<1> QED
  BY <1>2, <1>3, <1>4, <1>5 DEF v

\* What GMP makes of the text of an integer is an integer,
LEMMA MpzType ==
  ASSUME NEW w \in Seq(Character), IntegerText(w), NEW radix \in Int
  PROVE  \E m \in Int : mpz_set_str(w, radix) = Big(m)
BY UnsignedFacts DEF mpz_set_str

\* no number begins with the character that ends a part of a text
LEMMA UptoOther ==
  ASSUME NEW w, NEW b \in Nat, DigitsUpto(w, b), NEW c, c \notin Figural, c # "-"
  PROVE  \A j \in 1..(b - 1) : w[j] # c
BY DEF DigitsUpto

\* of the text of a fraction a fraction,
LEMMA MpqType ==
  ASSUME NEW w \in Seq(Character), FractionText(w), NEW radix \in Int
  PROVE  \E m, n \in Int : mpq_set_str(w, radix) = Rational(2, m, n)
<1>1. PICK b \in 1..Len(w) : /\ w[b] = "/" /\ DigitsUpto(w, b)
                             /\ \A j \in (b + 1)..Len(w) : w[j] \in Figural
  BY DEF FractionText
<1>2. \A j \in 1..(b - 1) : w[j] # "/"
  BY <1>1, TextCharacters, UptoOther
<1>3. Where(w, "/") = b
  <2>1. b \in 1..(Len(w) + 1) /\ w \in Seq(NumeralCharacter) /\ NUL \notin NumeralCharacter
    BY NumeralText
  <2> QED
    BY <1>1, <1>2, <2>1, WhereFacts
<1> DEFINE num == SubSeq(w, 1, b - 1)
           den == SubSeq(w, b + 1, Len(w))
           m == Neg(w, Natural(Unsigned(num), radix))
           n == IF den = <<>> THEN 1 ELSE Natural(den, radix)
<1>4. num \in Seq(Character) /\ IntegerText(num)
  BY <1>1, UptoText
<1>5. den \in Seq(Figural)
  <2>1. b + 1 \in 1..(Len(w) + 1) /\ Len(w) \in ((b + 1) - 1)..Len(w)
    OBVIOUS
  <2> QED
    BY <1>1, <2>1, PieceOf
<1>6. Natural(Unsigned(num), radix) \in Int /\ Natural(den, radix) \in Int
  BY <1>4, <1>5, UnsignedFacts, NaturalFacts
<1>7. mpq_set_str(w, radix) = Rational(2, m, n)
  BY <1>3, Zenon DEF mpq_set_str
<1>8. m \in Int /\ n \in Int
  <2> HIDE DEF num, den
  <2> QED
    BY <1>6 DEF Neg
<1> QED
  BY <1>7, <1>8

\* The digits in front of an exponent, and the exponent.
LEMMA DecimalParts ==
  ASSUME NEW w \in Seq(Character), DecimalText(w)
  PROVE  /\ Mantissa(w) \in Seq(Figural)
         /\ ExponentText(w) # <<>> => Exponent(ExponentText(w)) \in Int
<1>1. PICK b \in 1..(Len(w) + 1) :
        /\ DigitsUpto(w, b)
        /\ b <= Len(w) => w[b] = "@"
        /\ \A j \in (b + 1)..Len(w) : w[j] \in Digit \/ (j = b + 1 /\ w[j] \in Signs)
  BY DEF DecimalText
<1>2. w \in Seq(NumeralCharacter) /\ NUL \notin NumeralCharacter
  BY NumeralText
<1>3. \A j \in 1..(b - 1) : w[j] # "@"
  <2>1. "@" \notin Figural /\ "@" # "-" /\ b \in Nat
    BY TextCharacters
  <2> QED
    BY <1>1, <2>1, UptoOther
<1>4. Where(w, "@") = b
  BY <1>1, <1>2, <1>3, WhereFacts
<1>5. Mantissa(w) \in Seq(Figural)
  <2> DEFINE u == Unsigned(w)
             e == Where(u, "@")
             k == IF Signed(w) THEN b - 1 ELSE b
  <2>1. /\ u \in Seq(NumeralCharacter) /\ Len(u) = (IF Signed(w) THEN Len(w) - 1 ELSE Len(w))
        /\ \A j \in 1..Len(u) : u[j] = IF Signed(w) THEN w[j + 1] ELSE w[j]
    BY <1>2 DEF Unsigned, Signed
  <2>2. Signed(w) => b > 1
    <3>1. Signed(w) => w[1] = "-" /\ Len(w) >= 1
      BY DEF Signed
    <3> QED
      BY <1>1, <3>1
  <2>3. k \in 1..(Len(u) + 1) /\ \A j \in 1..(k - 1) : u[j] \in Figural
    <3>1. k \in 1..(Len(u) + 1)
      BY <2>1, <2>2
    <3>2. ASSUME NEW j \in 1..(k - 1) PROVE u[j] \in Figural
      <4>1. CASE Signed(w)
        <5>1. j + 1 \in 1..(b - 1) /\ j + 1 # 1 /\ j \in 1..Len(u)
          BY <2>1, <4>1
        <5> QED
          BY <1>1, <2>1, <4>1, <5>1 DEF DigitsUpto
      <4>2. CASE ~Signed(w)
        <5>1. j \in 1..(b - 1) /\ j \in 1..Len(u) /\ j \in 1..Len(w)
          BY <2>1, <4>2
        <5>2. j = 1 => w[1] # "-"
          BY <4>2, <5>1 DEF Signed
        <5> QED
          BY <1>1, <2>1, <4>2, <5>1, <5>2 DEF DigitsUpto
      <4> QED
        BY <4>1, <4>2
    <3> QED
      BY <3>1, <3>2
  <2>4. k <= Len(u) => u[k] = "@"
    <3>1. CASE Signed(w)
      BY <1>1, <2>1, <2>2, <3>1
    <3>2. CASE ~Signed(w)
      BY <1>1, <2>1, <3>2
    <3> QED
      BY <3>1, <3>2
  <2> HIDE DEF u, k
  <2>5. \A j \in 1..(k - 1) : u[j] # "@"
    BY <2>3, TextCharacters
  <2>6. e = k
    BY <1>2, <2>1, <2>3, <2>4, <2>5, WhereFacts
  <2> HIDE DEF e
  <2>7. SubSeq(u, 1, k - 1) \in Seq(Figural)
    <3>1. 1 \in 1..(Len(u) + 1) /\ k - 1 \in (1 - 1)..Len(u)
      BY <2>1, <2>3
    <3> QED
      BY <2>1, <2>3, <3>1, PieceOf
  <2>8. Mantissa(w) = SubSeq(u, 1, e - 1)
    BY DEF Mantissa, u, e
  <2> QED
    BY <2>6, <2>7, <2>8
<1>6. ASSUME ExponentText(w) # <<>> PROVE Exponent(ExponentText(w)) \in Int
  <2> DEFINE x == ExponentText(w)
             n == Len(w) - b
             y == IF x[1] = "+" THEN Tail(x) ELSE x
  <2>1. x = SubSeq(w, b + 1, Len(w))
    BY <1>4 DEF ExponentText
  <2>2. b <= Len(w)
    <3> SUFFICES ASSUME ~(b <= Len(w)) PROVE FALSE
      OBVIOUS
    <3>1. b + 1 > Len(w)
      OBVIOUS
    <3>2. x = <<>>
      BY <2>1, <3>1
    <3> QED
      BY <1>6, <3>2
  <2>3. /\ x \in Seq(Character) /\ Len(x) = n /\ n \in Nat
        /\ \A j \in 1..n : x[j] = w[b + j]
    <3>1. b + 1 \in 1..(Len(w) + 1) /\ Len(w) \in ((b + 1) - 1)..Len(w)
      BY <2>2
    <3>2. /\ x \in Seq(Character) /\ Len(x) = Len(w) - (b + 1) + 1
          /\ \A j \in 1..(Len(w) - (b + 1) + 1) : x[j] = w[(b + 1) + j - 1]
      BY <2>1, <3>1, PieceFacts
    <3>3. Len(w) - (b + 1) + 1 = n /\ \A j \in 1..n : (b + 1) + j - 1 = b + j
      OBVIOUS
    <3> QED
      BY <2>2, <3>2, <3>3
  <2> HIDE DEF x
  <2>4. n >= 1
    BY <1>6, <2>3 DEF x
  <2>5. \A j \in 1..n : x[j] \in Digit \/ (j = 1 /\ x[1] \in Signs)
    <3> SUFFICES ASSUME NEW j \in 1..n PROVE x[j] \in Digit \/ (j = 1 /\ x[1] \in Signs)
      OBVIOUS
    <3>1. b + j \in (b + 1)..Len(w) /\ (b + j = b + 1 => j = 1)
      OBVIOUS
    <3> QED
      BY <1>1, <2>3, <3>1
  <2> HIDE DEF n
  <2>6. y \in Seq(Character) /\ IntegerText(y)
    <3>1. CASE x[1] = "+"
      <4>1. y = Tail(x) /\ x # <<>>
        BY <2>3, <2>4, <3>1
      <4>2. /\ Tail(x) \in Seq(Character) /\ Len(Tail(x)) = n - 1
            /\ \A j \in 1..(n - 1) : Tail(x)[j] = x[j + 1]
        BY <2>3, <2>4, <4>1
      <4>3. \A j \in 1..(n - 1) : Tail(x)[j] \in Figural
        <5> SUFFICES ASSUME NEW j \in 1..(n - 1) PROVE Tail(x)[j] \in Figural
          OBVIOUS
        <5>1. j + 1 \in 1..n /\ j + 1 # 1
          BY <2>3
        <5> QED
          BY <2>5, <4>2, <5>1, TextCharacters
      <4>4. IntegerText(Tail(x))
        BY <2>3, <4>2, <4>3 DEF IntegerText, DigitsUpto
      <4> QED
        BY <4>1, <4>2, <4>4
    <3>2. CASE x[1] # "+"
      <4>1. \A j \in 1..n : x[j] \in Figural \/ (j = 1 /\ x[1] = "-")
        BY <2>5, <3>2, TextCharacters DEF Signs
      <4> QED
        BY <2>3, <3>2, <4>1 DEF IntegerText, DigitsUpto
    <3> QED
      BY <3>1, <3>2
  <2>7. Exponent(x) = Neg(y, Natural(Unsigned(y), 10))
    BY DEF Exponent
  <2> HIDE DEF y
  <2> QED
    BY <2>6, <2>7, UnsignedFacts DEF x
<1> QED
  BY <1>5, <1>6

\* Digits without the point.
LEMMA WithoutPointType ==
  ASSUME NEW m \in Seq(Figural)
  PROVE  WithoutPoint(m) \in Seq(Figural) /\ Fraction(m) \in Nat
<1> DEFINE k == Where(m, ".")
<1>1. k \in 1..(Len(m) + 1)
  BY TextCharacters, WhereFacts
<1>2. Fraction(m) \in Nat
  BY <1>1 DEF Fraction
<1>3. WithoutPoint(m) = SubSeq(m, 1, k - 1) \o SubSeq(m, k + 1, Len(m))
  BY DEF WithoutPoint
<1> HIDE DEF k
<1>4. SubSeq(m, 1, k - 1) \in Seq(Figural) /\ SubSeq(m, k + 1, Len(m)) \in Seq(Figural)
  BY <1>1
<1> QED
  BY <1>2, <1>3, <1>4

\* and of the text of a decimal, scaled by its exponent, a fraction too.
LEMMA ScaledType ==
  ASSUME NEW w \in Seq(Character), DecimalText(w), NEW ex \in Int, NEW t
  PROVE  \E m, n \in Int : Scaled(t, w, ex) = Rational(t, m, n)
<1> DEFINE m == Mantissa(w)
           n == Neg(w, Natural(WithoutPoint(m), 10))
           k == ex - Fraction(m)
           l == IF k >= 0 THEN Lowest(n * PowerOfTen(k), 1) ELSE Lowest(n, PowerOfTen(-k))
<1>1. m \in Seq(Figural)
  BY DecimalParts
<1>2. Scaled(t, w, ex) = Rational(t, l[1], l[2])
  BY DEF Scaled
<1> HIDE DEF m
<1>3. WithoutPoint(m) \in Seq(Figural) /\ Fraction(m) \in Nat
  BY <1>1, WithoutPointType
<1>4. n \in Int /\ k \in Int
  <2>1. Natural(WithoutPoint(m), 10) \in Int
    BY <1>3, NaturalFacts
  <2>2. n \in Int
    BY <2>1 DEF Neg
  <2> QED
    BY <1>3, <2>2
<1> HIDE DEF n, k
<1>5. CASE k >= 0
  <2>1. n * PowerOfTen(k) \in Int
    <3>1. PowerOfTen(k) \in Nat \ {0}
      BY <1>4, <1>5, PowerType
    <3> QED
      BY <1>4, <3>1
  <2>2. l = <<n * PowerOfTen(k), 1>>
    BY <1>5, <2>1, LowestWhole
  <2> QED
    BY <1>2, <2>1, <2>2
<1>6. CASE ~(k >= 0)
  <2>1. PowerOfTen(-k) \in Nat \ {0}
    BY <1>4, <1>6, PowerType
  <2>2. Rat(l, n, PowerOfTen(-k))
    BY <1>4, <1>6, <2>1, LowestRat
  <2> HIDE DEF l
  <2>3. l[1] \in Int /\ l[2] \in Int
    BY <1>4, <2>1, <2>2, RatParts
  <2> QED
    BY <1>2, <2>3
<1> QED
  BY <1>5, <1>6

\* A decimal is read as a float,
LEMMA MpfType ==
  ASSUME NEW w \in Seq(Character), DecimalText(w)
  PROVE  \E m, n \in Int : mpf_set_str(w) = Rational(3, m, n)
<1> DEFINE x == ExponentText(w)
<1>1. CASE x = <<>>
  <2>1. mpf_set_str(w) = Scaled(3, w, 0)
    BY <1>1 DEF mpf_set_str
  <2> QED
    BY <2>1, ScaledType
<1>2. CASE x # <<>> /\ HasDigits(x)
  <2>1. mpf_set_str(w) = Scaled(3, w, Exponent(x))
    BY <1>2 DEF mpf_set_str
  <2>2. Exponent(x) \in Int
    BY <1>2, DecimalParts
  <2> QED
    BY <2>1, <2>2, ScaledType
<1>3. CASE x # <<>> /\ ~HasDigits(x)
  <2>1. mpf_set_str(w) = Rational(3, 0, 1)
    BY <1>3 DEF mpf_set_str
  <2> QED
    BY <2>1
<1> QED
  BY <1>1, <1>2, <1>3

\* or, as an exact number, as a fraction or not at all.
LEMMA DecimalType ==
  ASSUME NEW w \in Seq(Character), DecimalText(w)
  PROVE  \/ mpq_set_decimal(w) = RangeError
         \/ \E m, n \in Int : mpq_set_decimal(w) = Rational(2, m, n)
<1> DEFINE x == ExponentText(w)
           m == Mantissa(w)
           seen == HasDigits(x) /\ ~(m # <<>> /\ m[Len(m)] = ".")
           ex == IF seen THEN Exponent(x) ELSE 0
<1>1. mpq_set_decimal(w) = IF seen /\ (Len(x) >= 5 \/ ex >= 256) THEN RangeError
                           ELSE Scaled(2, w, ex)
  BY DEF mpq_set_decimal
<1>2. HasDigits(x) => x # <<>>
  <2>1. x = <<>> => 1..Len(x) = {}
    OBVIOUS
  <2> HIDE DEF x
  <2> QED
    BY <2>1 DEF HasDigits
<1>3. ex \in Int
  <2>1. seen => x # <<>>
    BY <1>2
  <2> HIDE DEF seen
  <2> QED
    BY <2>1, DecimalParts
<1> HIDE DEF seen, ex, x, m
<1> QED
  BY <1>1, <1>3, ScaledType

-----------------------------------------------------------------------------
\* The numbers that come out.

\* a real number as the runtime keeps it: exact ones in their only representation
Good(x) == x \in RealPart /\ x.type \in 0..3 /\ (x.type # 3 => Canonical(x))

\* what a conversion of GMP leaves, before it is canonicalized
Raw(v) ==
  \/ v = RangeError
  \/ \E t \in 0..3, n, d \in Int : v = Rational(t, n, d) /\ (t < 2 => d = 1)

\* Canonicalizing yields a number in its only representation, or a fault.
LEMMA CanonicalizeType ==
  ASSUME NEW t \in 0..3, NEW n \in Int, NEW d \in Int, t < 2 => d = 1
  PROVE  LET x == re_canonicalize(Rational(t, n, d)) IN
         x \in RealPart /\ (~Faulty(x) => Good(x))
<1> DEFINE r == Rational(t, n, d)
           x == re_canonicalize(r)
<1>1. r = [type |-> t, num |-> n, den |-> d] /\ r \in RealPart /\ r.type = t /\ r.num = n /\ r.den = d
  BY DEF Rational, RealPart
<1>2. CASE t = 3
  <2>1. x = r
    BY <1>1, <1>2 DEF re_canonicalize
  <2> QED
    BY <1>1, <1>2, <2>1 DEF Good
<1>3. CASE t = 2 /\ d = 0
  <2>1. x = Trap
    BY <1>1, <1>3 DEF re_canonicalize, Faulty
  <2> QED
    BY <2>1 DEF Trap, Rational, RealPart, Faulty
<1>4. CASE t # 3 /\ ~(t = 2 /\ d = 0)
  <2> DEFINE l == Lowest(n, d)
             z == IF t = 2 /\ l[2] # 1 THEN Rational(2, l[1], l[2]) ELSE Big(l[1])
  <2>1. d # 0
    BY <1>4
  <2>2. Rat(l, n, d)
    BY <2>1, LowestRat
  <2>3. x = IF z.type = 1 /\ z.num \in Int32 THEN Small(z.num) ELSE z
    BY <1>1, <1>4 DEF re_canonicalize, Faulty
  <2> HIDE DEF l, x
  <2>4. l[1] \in Int /\ l[2] \in Int /\ l[2] > 0 /\ l \in Reduced
    BY <2>2, RatParts
  <2>5. gcd(l[1], l[2]) = 1
    BY <2>4, ReducedParts, CoprimeGcd
  <2>6. CASE t = 2 /\ l[2] # 1
    <3>1. x = Rational(2, l[1], l[2])
      BY <2>3, <2>6 DEF Rational
    <3>2. x.type = 2 /\ x.num = l[1] /\ x.den = l[2] /\ x \in RealPart
      BY <2>4, <3>1 DEF Rational, RealPart
    <3>3. Canonical(x)
      BY <2>4, <2>5, <2>6, <3>2 DEF Canonical
    <3> QED
      BY <3>2, <3>3 DEF Good, x
  <2>7. CASE ~(t = 2 /\ l[2] # 1)
    <3>1. x = IF l[1] \in Int32 THEN Small(l[1]) ELSE Big(l[1])
      BY <2>3, <2>7 DEF Big, Rational
    <3>2. x.type \in {0, 1} /\ x \in RealPart /\ Canonical(x)
      BY <2>4, <3>1 DEF Small, Big, Rational, RealPart, Canonical
    <3> QED
      BY <3>2 DEF Good, x
  <2> QED
    BY <2>6, <2>7
<1> QED
  BY <1>2, <1>3, <1>4

\* So does the exactness that the prefix asks for.
LEMMA ExactenedType ==
  ASSUME NEW flag, NEW v, Raw(v)
  PROVE  exactened(flag, v) \in RealPart /\ (~Faulty(exactened(flag, v)) => Good(exactened(flag, v)))
<1> DEFINE p == conv.exactness = 0 \/ (flag.pound /\ conv.exactness # 1)
           u == IF p THEN re_promote(v, 3) ELSE v
<1>1. exactened(flag, v) = re_canonicalize(u)
  BY Zenon DEF exactened
<1> HIDE DEF p
<1>2. CASE v = RangeError
  <2>1. v = Rational(-3, 0, 1) /\ v.type = -3 /\ v.den = 1
    BY <1>2 DEF RangeError, Rational
  <2>2. re_promote(v, 3) = Rational(3, 0, 1)
    BY <2>1 DEF re_promote, Rational
  <2>3. re_canonicalize(v) = v
    BY <2>1 DEF re_canonicalize, Faulty
  <2>4. v \in RealPart /\ Faulty(v)
    BY <2>1 DEF Rational, RealPart, Faulty
  <2>5. CASE p
    <3>1. /\ re_canonicalize(Rational(3, 0, 1)) \in RealPart
          /\ ~Faulty(re_canonicalize(Rational(3, 0, 1))) => Good(re_canonicalize(Rational(3, 0, 1)))
      BY CanonicalizeType
    <3> QED
      BY <1>1, <2>2, <2>5, <3>1
  <2>6. CASE ~p
    BY <1>1, <2>3, <2>4, <2>6
  <2> QED
    BY <2>5, <2>6
<1>3. ASSUME NEW t \in 0..3, NEW n \in Int, NEW d \in Int, v = Rational(t, n, d), t < 2 => d = 1
      PROVE  re_canonicalize(u) \in RealPart /\ (~Faulty(re_canonicalize(u)) => Good(re_canonicalize(u)))
  <2>1. v = [type |-> t, num |-> n, den |-> d]
    BY <1>3 DEF Rational
  <2>2. u = v \/ u = Rational(3, n, d) \/ u = Trap \/ u = Rational(3, 0, 1)
    BY <2>1 DEF re_promote, Rational
  <2>3. re_canonicalize(Trap) = Trap /\ Trap \in RealPart /\ Faulty(Trap)
    BY DEF re_canonicalize, Trap, Rational, Faulty, RealPart
  <2>4. /\ re_canonicalize(Rational(3, n, d)) \in RealPart
        /\ ~Faulty(re_canonicalize(Rational(3, n, d))) => Good(re_canonicalize(Rational(3, n, d)))
        /\ re_canonicalize(Rational(3, 0, 1)) \in RealPart
        /\ ~Faulty(re_canonicalize(Rational(3, 0, 1))) => Good(re_canonicalize(Rational(3, 0, 1)))
    BY CanonicalizeType
  <2>5. /\ re_canonicalize(v) \in RealPart
        /\ ~Faulty(re_canonicalize(v)) => Good(re_canonicalize(v))
    BY <1>3, CanonicalizeType
  <2> HIDE DEF u
  <2> QED
    BY <2>2, <2>3, <2>4, <2>5
<1> HIDE DEF u
<1> QED
  BY <1>1, <1>2, <1>3 DEF Raw

\* A number in its only representation is canonicalized to itself.
LEMMA CanonicalKept ==
  ASSUME NEW x, Good(x), x.type # 3
  PROVE  /\ x = Rational(x.type, x.num, x.den) /\ x.num \in Int /\ x.den \in Int
         /\ x.type = 2 => x.den > 1 /\ re_canonicalize(Rational(2, x.num, x.den)) = x
         /\ x.type # 2 => x.den = 1 /\ re_canonicalize(Big(x.num)) = x
<1>1. /\ x \in [type : -3..3, num : Int, den : Int] /\ x.type \in 0..2 /\ Canonical(x)
  BY DEF Good, RealPart
<1>2. x = Rational(x.type, x.num, x.den) /\ x.num \in Int /\ x.den \in Int
  BY <1>1 DEF Rational
<1>3. ASSUME x.type = 2
      PROVE  x.den > 1 /\ re_canonicalize(Rational(2, x.num, x.den)) = x
  <2> DEFINE n == x.num
             d == x.den
             p == <<n, d>>
             l == Lowest(n, d)
  <2>1. d > 1 /\ gcd(n, d) = 1 /\ n \in Int /\ d \in Int
    BY <1>1, <1>3 DEF Canonical
  <2>2. p \in Reduced
    BY <2>1, CoprimeGcd DEF Reduced
  <2>3. Rat(p, n, d)
    BY <2>2, ReducedSelf
  <2>4. Rat(l, n, d)
    BY <2>1, LowestRat
  <2>5. l = p
    BY <2>1, <2>3, <2>4, RatUnique
  <2>6. l[1] = n /\ l[2] = d
    BY <2>5
  <2>7. x = [type |-> 2, num |-> n, den |-> d]
    BY <1>2, <1>3 DEF Rational
  <2> HIDE DEF n, d
  <2>8. re_canonicalize(x) = x
    <3> DEFINE z == IF x.type = 2 /\ l[2] # 1 THEN Rational(2, l[1], l[2]) ELSE Big(l[1])
    <3>1. ~Faulty(x) /\ x.type = 2 /\ x.num = n /\ x.den = d /\ d # 0
      BY <2>1, <2>7 DEF Faulty
    <3>2. re_canonicalize(x) = IF z.type = 1 /\ z.num \in Int32 THEN Small(z.num) ELSE z
      BY <3>1 DEF re_canonicalize
    <3>3. z = x
      BY <2>1, <2>6, <2>7, <3>1 DEF Rational
    <3> QED
      BY <3>1, <3>2, <3>3
  <2> QED
    BY <1>2, <1>3, <2>1, <2>8 DEF n, d
<1>4. ASSUME x.type # 2
      PROVE  x.den = 1 /\ re_canonicalize(Big(x.num)) = x
  <2> DEFINE n == x.num
             b == Big(n)
             l == Lowest(n, 1)
  <2>1. /\ x.den = 1 /\ n \in Int
        /\ x.type = 0 => n \in Int32
        /\ x.type = 1 => n \notin Int32
        /\ x.type \in {0, 1}
    BY <1>1, <1>4 DEF Canonical
  <2>2. l = <<n, 1>>
    BY <2>1, LowestWhole
  <2>3. x = [type |-> x.type, num |-> n, den |-> 1]
    BY <1>2, <2>1 DEF Rational
  <2>4. b = [type |-> 1, num |-> n, den |-> 1]
    BY DEF Big, Rational
  <2> HIDE DEF n, b
  <2>5. re_canonicalize(b) = IF n \in Int32 THEN Small(n) ELSE b
    <3>1. ~Faulty(b) /\ b.type = 1 /\ b.num = n /\ b.den = 1
      BY <2>4 DEF Faulty
    <3>2. l[1] = n
      BY <2>2
    <3>3. b = Big(n)
      BY DEF b
    <3> QED
      BY <3>1, <3>2, <3>3 DEF re_canonicalize
  <2>6. CASE n \in Int32
    BY <2>1, <2>3, <2>5, <2>6 DEF Small, Rational, b, n
  <2>7. CASE n \notin Int32
    BY <2>1, <2>3, <2>4, <2>5, <2>7 DEF b, n
  <2> QED
    BY <2>1, <2>6, <2>7
<1> QED
  BY <1>2, <1>3, <1>4

-----------------------------------------------------------------------------
\* The text of a part of a number.

\* what the parser leaves of the text it passed
LeftText(s, p, f, q, d, h) ==
  /\ \A j \in q..(h - 1) : f.dup[j] \in Figural
  /\ \A j \in 1..(d - 1) : f.dup[j] = s[j]
  /\ \A j \in (h + 1)..Len(s) : f.dup[j] = s[j]
  /\ Marked(s, h) => h <= Len(s) /\ f.dup[h] = "@"
  /\ ~Marked(s, h) => At(f.dup, h) = At(s, h)
  /\ q \in {p, p + 1} /\ (q = p + 1 => p <= Len(s) /\ s[p] \in Signs)
  /\ d # q => d - 1 \in q..Len(s) /\ s[q] \in Figural

\* What the parser passed, it left as the conversions need it.
LEMMA PassedText ==
  ASSUME NEW s \in Seq(Character), NEW p \in 1..(Len(s) + 1), NEW radix \in 2..36,
         NEW f, NEW q \in Nat, NEW d \in Nat, NEW h \in Nat, Passed(s, p, radix, f, q, d, h)
  PROVE  LeftText(s, p, f, q, d, h)
<1> DEFINE n == Len(s)
           g == f.dup
<1>1. /\ q \in p..(n + 1) /\ d \in q..(n + 1) /\ h \in d..(n + 1)
      /\ q = IF At(s, p) \in Signs THEN p + 1 ELSE p
      /\ \A j \in q..(d - 1) : s[j] \in ston_digits(radix)
      /\ \A j \in d..(h - 1) : s[j] \in {".", "#"}
      /\ Len(g) = n
      /\ \A j \in 1..n : g[j] = CASE j \in d..(h - 1) /\ s[j] = "#" -> "0"
                                  [] j = h /\ s[j] \in Marker -> "@"
                                  [] OTHER -> s[j]
  BY Zenon DEF Passed
<1>2. n \in Nat /\ p \in Nat /\ 1 <= p
  OBVIOUS
<1>3. ston_digits(radix) \subseteq Figural /\ "0" \in Figural /\ "." \in Figural
  <2>1. "." \in Figural
    <3>1. cstr[1] = "." /\ 1 \in 1..Len(cstr)
      BY CstrFacts
    <3> QED
      BY <3>1, Zenon DEF Figural
  <2>2. "0" \in Digit
    BY DEF Digit
  <2> QED
    BY <2>1, <2>2, RadixDigits, DigitValues
<1> HIDE DEF g, n
<1>4. \A j \in 1..n : j \notin d..(h - 1) /\ j # h => g[j] = s[j]
  BY <1>1
<1>5. \A j \in 1..(d - 1) : g[j] = s[j]
  <2>1. \A j \in 1..(d - 1) : j \in 1..n /\ j \notin d..(h - 1) /\ j # h
    BY <1>1, <1>2
  <2> QED
    BY <1>4, <2>1
<1>6. \A j \in (h + 1)..n : g[j] = s[j]
  <2>1. \A j \in (h + 1)..n : j \in 1..n /\ j \notin d..(h - 1) /\ j # h
    BY <1>1, <1>2
  <2> QED
    BY <1>4, <2>1
<1>7. ASSUME NEW j \in q..(h - 1) PROVE g[j] \in Figural
  <2>1. CASE j < d
    <3>1. j \in q..(d - 1) /\ j \in 1..(d - 1)
      BY <1>1, <1>2, <2>1
    <3> QED
      BY <1>1, <1>3, <1>5, <3>1
  <2>2. CASE ~(j < d)
    <3>1. j \in d..(h - 1) /\ j \in 1..n /\ j # h
      BY <1>1, <1>2, <2>2
    <3>2. s[j] \in {".", "#"} /\ g[j] = IF s[j] = "#" THEN "0" ELSE s[j]
      BY <1>1, <3>1
    <3> QED
      BY <1>3, <3>2
  <2> QED
    BY <2>1, <2>2
<1>8. ASSUME Marked(s, h) PROVE h <= n /\ g[h] = "@"
  <2>1. h <= n
    BY <1>1, <1>8 DEF Marked, At, NUL, Marker, n
  <2>2. h \in 1..n /\ h \notin d..(h - 1) /\ s[h] \in Marker
    BY <1>1, <1>2, <1>8, <2>1 DEF Marked, At, n
  <2> QED
    BY <1>1, <2>1, <2>2
<1>9. ASSUME ~Marked(s, h) PROVE At(g, h) = At(s, h)
  <2>1. CASE h <= n
    <3>1. h \in 1..n /\ h \notin d..(h - 1) /\ s[h] \notin Marker
      BY <1>1, <1>2, <1>9, <2>1 DEF Marked, At, n
    <3>2. g[h] = s[h]
      BY <1>1, <3>1
    <3> QED
      BY <1>1, <2>1, <3>2 DEF At, n
  <2>2. CASE ~(h <= n)
    BY <1>1, <2>2 DEF At, n
  <2> QED
    BY <2>1, <2>2
<1>10. q \in {p, p + 1} /\ (q = p + 1 => p <= n /\ s[p] \in Signs)
  <2>1. NUL \notin Signs
    BY TextCharacters
  <2> QED
    BY <1>1, <1>2, <2>1 DEF At, n
<1>11. ASSUME d # q PROVE d - 1 \in q..n /\ s[q] \in Figural
  <2>1. d - 1 \in q..n /\ q \in q..(d - 1)
    BY <1>1, <1>2, <1>11
  <2> QED
    BY <1>1, <1>3, <2>1
<1> QED
  BY <1>5, <1>6, <1>7, <1>8, <1>9, <1>10, <1>11 DEF g, n, LeftText

\* what is known where a part is read
Reading ==
  /\ conv.dup \in Seq(Character) /\ conv.ptr \in 1..(Len(conv.dup) + 1) /\ conv.radix \in 2..36

\* a part without digits up to the i at d
StopsAt(s, f, d, h) ==
  d <= Len(s) /\ h = d /\ ~Marked(s, h) /\ f.end = d /\ f.iunit /\ At(f.dup, d) = "i"

\* A sign and i: the parser stops at the i.
LEMMA UnitPassed ==
  ASSUME NEW s \in Seq(Character), NEW p \in 1..(Len(s) + 1), NEW radix \in 2..36,
         NEW f, NEW q \in Nat, NEW d \in Nat, NEW h \in Nat, Passed(s, p, radix, f, q, d, h),
         d = q, At(s, d) = "i"
  PROVE  StopsAt(s, f, d, h)
<1>1. /\ h \in d..(Len(s) + 1) /\ \A j \in d..(h - 1) : s[j] \in {".", "#"}
      /\ f.end = ExponentEnd(s, h) /\ f.iunit = (d = q /\ At(s, d) = "i")
  BY Zenon DEF Passed
<1>2. d <= Len(s) /\ s[d] = "i"
  BY DEF At, NUL
<1>3. h = d
  <2> SUFFICES ASSUME h # d PROVE FALSE
    OBVIOUS
  <2>1. d \in d..(h - 1)
    BY <1>1
  <2> QED
    BY <1>1, <1>2, <2>1
<1>4. ~Marked(s, h)
  BY <1>3 DEF Marked, Marker
<1>5. f.end = d
  BY <1>1, <1>3, <1>4 DEF ExponentEnd
<1>6. At(f.dup, d) = "i"
  <2>1. /\ Len(f.dup) = Len(s)
        /\ \A j \in 1..Len(s) : f.dup[j] = CASE j \in d..(h - 1) /\ s[j] = "#" -> "0"
                                            [] j = h /\ s[j] \in Marker -> "@"
                                            [] OTHER -> s[j]
    BY Zenon DEF Passed
  <2>2. q \in p..(Len(s) + 1)
    BY Zenon DEF Passed
  <2>3. d \in 1..Len(s) /\ d \notin d..(h - 1) /\ s[d] \notin Marker
    BY <1>2, <1>3, <2>2 DEF Marker
  <2> QED
    BY <1>2, <2>1, <2>3 DEF At
<1> QED
  BY <1>1, <1>2, <1>3, <1>4, <1>5, <1>6 DEF StopsAt

\* digits behind an optional minus, from a to h
DigitRun(t, a, h) == \A j \in a..(h - 1) : t[j] \in Figural \/ (j = a /\ t[j] = "-")

\* w is the piece of t from a to e, which has digits up to h
Piece(w, t, a, e, h) ==
  /\ h - a + 1 \in 1..(Len(w) + 1)
  /\ DigitsUpto(w, h - a + 1)
  /\ h - a + 1 <= Len(w) => w[h - a + 1] = t[h]
  /\ \A j \in (h - a + 2)..Len(w) : a + j - 1 \in (h + 1)..e /\ w[j] = t[a + j - 1]

\* A piece of a run of digits is a run of digits.
LEMMA RunPiece ==
  ASSUME NEW X, NEW t \in Seq(X), NEW a \in 1..(Len(t) + 1), NEW e \in (a - 1)..Len(t),
         NEW h \in a..(e + 1), DigitRun(t, a, h)
  PROVE  Piece(SubSeq(t, a, e), t, a, e, h)
<1> DEFINE w == SubSeq(t, a, e)
           m == e - a + 1
<1>1. Len(w) = m /\ \A j \in 1..m : w[j] = t[a + j - 1]
  BY PieceFacts
<1>2. a \in Nat /\ e \in Int /\ h \in Int /\ m \in Nat /\ 1 <= a /\ a <= h /\ h <= e + 1
  OBVIOUS
<1> HIDE DEF w
<1>3. ASSUME NEW j \in 1..(h - a) PROVE w[j] \in Figural \/ (j = 1 /\ w[1] = "-")
  <2>1. a + j - 1 \in a..(h - 1) /\ j \in 1..m /\ (a + j - 1 = a => j = 1)
    BY <1>2
  <2>2. w[j] = t[a + j - 1]
    BY <1>1, <2>1
  <2> QED
    BY <2>1, <2>2 DEF DigitRun
<1>4. DigitsUpto(w, h - a + 1)
  <2>1. (h - a + 1) - 1 = h - a
    BY <1>2
  <2> QED
    BY <1>3, <2>1 DEF DigitsUpto
<1>5. h - a + 1 \in 1..(m + 1) /\ a + (h - a + 1) - 1 = h
  BY <1>2
<1>6. h - a + 1 <= m => w[h - a + 1] = t[h]
  BY <1>1, <1>5
<1>7. \A j \in (h - a + 2)..m : a + j - 1 \in (h + 1)..e /\ w[j] = t[a + j - 1]
  <2>1. \A j \in (h - a + 2)..m : a + j - 1 \in (h + 1)..e /\ j \in 1..m
    BY <1>2
  <2> QED
    BY <1>1, <2>1
<1> QED
  BY <1>1, <1>4, <1>5, <1>6, <1>7 DEF w, Piece

\* where the text of a number begins that starts at p
From(t, p) == IF t[p] = "+" THEN p + 1 ELSE p

\* that number is a run of digits up to h
RunsTo(s, p, f, q, h) ==
  LET a == From(f.dup, p) IN
  /\ a \in 1..(Len(s) + 1) /\ a \in p..q /\ p < h
  /\ a \in 1..h /\ a < h
  /\ DigitRun(f.dup, a, h)
  /\ f.dup[p] = s[p]

\* Digits up to h that the parser passed, with the sign in front of them.
LEMMA FromDigits ==
  ASSUME NEW s \in Seq(Character), NEW p \in 1..(Len(s) + 1), NEW radix \in 2..36,
         NEW f, NEW q \in Nat, NEW d \in Nat, NEW h \in Nat, Passed(s, p, radix, f, q, d, h),
         d # q
  PROVE  RunsTo(s, p, f, q, h)
<1> DEFINE n == Len(s)
           g == f.dup
           a == From(g, p)
<1>1. /\ \A j \in q..(h - 1) : g[j] \in Figural
      /\ \A j \in 1..(d - 1) : g[j] = s[j]
      /\ q \in {p, p + 1} /\ (q = p + 1 => p <= n /\ s[p] \in Signs)
      /\ d - 1 \in q..n /\ s[q] \in Figural
  <2>1. LeftText(s, p, f, q, d, h)
    BY PassedText, Zenon
  <2> QED
    BY <2>1 DEF LeftText
<1>2. h \in d..(n + 1) /\ n \in Nat /\ p \in Nat /\ 1 <= p
  <2>1. h \in d..(Len(s) + 1)
    BY Zenon DEF Passed
  <2> QED
    BY <2>1
<1> HIDE DEF g, n
<1>3. p \in 1..(d - 1) /\ g[p] = s[p]
  <2>1. p \in 1..(d - 1)
    BY <1>1, <1>2
  <2> QED
    BY <1>1, <2>1
<1>4. CASE q = p
  <2>1. g[p] # "+"
    BY <1>1, <1>3, <1>4, TextCharacters
  <2>2. a = q
    BY <1>4, <2>1 DEF From
  <2> HIDE DEF a
  <2>3. DigitRun(g, a, h)
    BY <1>1, <2>2 DEF DigitRun
  <2> QED
    BY <1>1, <1>2, <1>3, <1>4, <2>2, <2>3 DEF g, n, a, RunsTo
<1>5. CASE q = p + 1 /\ g[p] = "+"
  <2>1. a = q
    BY <1>5 DEF From
  <2> HIDE DEF a
  <2>2. DigitRun(g, a, h)
    BY <1>1, <2>1 DEF DigitRun
  <2> QED
    BY <1>1, <1>2, <1>3, <1>5, <2>1, <2>2 DEF g, n, a, RunsTo
<1>6. CASE q = p + 1 /\ g[p] # "+"
  <2>1. a = p /\ g[p] = "-"
    BY <1>1, <1>3, <1>6 DEF From, Signs
  <2> HIDE DEF a
  <2>2. \A j \in p..(h - 1) : j \in q..(h - 1) \/ j = p
    BY <1>2, <1>6
  <2>3. DigitRun(g, a, h)
    BY <1>1, <2>1, <2>2 DEF DigitRun
  <2> QED
    BY <1>1, <1>2, <1>3, <1>6, <2>1, <2>3 DEF g, n, a, RunsTo
<1> QED
  BY <1>1, <1>4, <1>5, <1>6

(***************************************************************************)
(* The text of a part that the parser accepts, unless it is a sign and i, is *)
(* that of an integer, of a fraction or of a decimal, as the conversion that  *)
(* it is passed to expects.                                                 *)
(***************************************************************************)
LEMMA PartTexts ==
  ASSUME Reading, NEW flag, NEW last,
         flag = ston_parse_real(conv.dup, conv.ptr, conv.radix), last = Last(flag),
         Parsed(flag, last)
  PROVE  /\ last.dup \in Seq(Character) /\ Len(last.dup) = Len(conv.dup)
         /\ last.end \in (conv.ptr + 1)..(Len(conv.dup) + 1)
         /\ ~Unit(flag, last) =>
              /\ PartText(last) \in Seq(Character)
              /\ Slash(flag) => FractionText(PartText(last))
              /\ ~Slash(flag) /\ flag.decimal => DecimalText(PartText(last))
              /\ ~Slash(flag) /\ ~flag.decimal => IntegerText(PartText(last))
<1> DEFINE s == conv.dup
           p == conv.ptr
           radix == conv.radix
           n == Len(s)
<1>1. s \in Seq(Character) /\ p \in 1..(n + 1) /\ radix \in 2..36 /\ n \in Nat /\ p \in Nat
  BY DEF Reading
<1>2. PICK q \in Nat, d \in Nat, h \in Nat : Passed(s, p, radix, flag, q, d, h)
  BY <1>1, ParseFacts, Zenon
<1> HIDE DEF s, p, radix
<1>3. /\ h \in d..(n + 1) /\ d \in q..(n + 1)
      /\ flag.valid = WellFormed(s, q, d, h, radix)
      /\ flag.end = ExponentEnd(s, h) /\ flag.end \in h..(n + 1)
      /\ flag.sign = (q # p)
      /\ flag.iunit = (d = q /\ At(s, d) = "i")
      /\ flag.decimal = (Points(s, q, h) # {} \/ Marked(s, h))
      /\ flag.dup \in Seq(Character) /\ Len(flag.dup) = n
      /\ Marked(s, h) =>
           LET k == IF At(s, h + 1) \in Signs THEN h + 2 ELSE h + 1
           IN k \in (h + 1)..flag.end /\ \A j \in k..(flag.end - 1) : s[j] \in Digit
  BY <1>2, Zenon DEF Passed
<1>4. flag.valid /\ (d = q => At(s, d) = "i")
  BY <1>3 DEF Parsed, WellFormed
<1>5. /\ \A j \in q..(h - 1) : flag.dup[j] \in Figural
      /\ \A j \in 1..(d - 1) : flag.dup[j] = s[j]
      /\ \A j \in (h + 1)..n : flag.dup[j] = s[j]
      /\ Marked(s, h) => h <= n /\ flag.dup[h] = "@"
      /\ ~Marked(s, h) => At(flag.dup, h) = At(s, h)
      /\ q \in {p, p + 1} /\ (q = p + 1 => p <= n /\ s[p] \in Signs)
      /\ d # q => d - 1 \in q..n /\ s[q] \in Figural
  <2>1. LeftText(s, p, flag, q, d, h)
    BY <1>1, <1>2, PassedText, Zenon
  <2> QED
    BY <2>1 DEF LeftText
<1>6. CASE d = q
  <2>1. d <= n /\ flag.end = d /\ flag.iunit /\ At(flag.dup, d) = "i"
    <3>1. At(s, d) = "i"
      BY <1>4, <1>6
    <3>2. StopsAt(s, flag, d, h)
      BY <1>1, <1>2, <1>6, <3>1, UnitPassed, Zenon
    <3> QED
      BY <3>2 DEF StopsAt
  <2>2. ~Slash(flag) /\ last = flag
    BY <2>1 DEF Slash, Last
  <2>3. Unit(flag, last)
    BY <2>1, <2>2 DEF Unit, Imag
  <2>4. flag.sign
    BY <2>3 DEF Parsed
  <2>5. d = p + 1
    BY <1>3, <1>5, <1>6, <2>4
  <2> QED
    BY <1>1, <1>3, <2>1, <2>2, <2>3, <2>5 DEF s, p
<1>7. CASE d # q
  <2> DEFINE a == From(flag.dup, p)
  <2>1. /\ a \in 1..(n + 1) /\ a \in p..q /\ p < h /\ a < h
        /\ DigitRun(flag.dup, a, h) /\ flag.dup[p] = s[p]
    <3>1. RunsTo(s, p, flag, q, h)
      BY <1>1, <1>2, <1>7, FromDigits, Zenon
    <3> QED
      BY <3>1 DEF RunsTo
  <2> HIDE DEF a
  <2>2. a \in Nat /\ 1 <= a
    BY <2>1
  <2>3. CASE ~Slash(flag)
    <3> DEFINE e == flag.end
               w == SubSeq(flag.dup, a, e - 1)
               b == h - a + 1
    <3>1. last = flag
      BY <2>3 DEF Last
    <3>2. PartText(last) = w
      BY <3>1 DEF PartText, From, a, p
    <3>3. e \in h..(n + 1) /\ e \in Nat /\ h \in Nat
      BY <1>3
    <3>4. e - 1 \in (a - 1)..n /\ h \in a..((e - 1) + 1)
      BY <2>1, <2>2, <3>3
    <3>5. w \in Seq(Character)
      BY <1>3, <2>1, <3>4, PieceFacts
    <3>6. /\ b \in 1..(Len(w) + 1) /\ DigitsUpto(w, b)
          /\ b <= Len(w) => w[b] = flag.dup[h]
          /\ \A j \in (h - a + 2)..Len(w) :
               a + j - 1 \in (h + 1)..(e - 1) /\ w[j] = flag.dup[a + j - 1]
      <4>1. a \in 1..(Len(flag.dup) + 1) /\ e - 1 \in (a - 1)..Len(flag.dup)
        BY <1>3, <2>1, <3>4
      <4>2. Piece(w, flag.dup, a, e - 1, h)
        BY <1>3, <2>1, <3>4, <4>1, RunPiece, Zenon
      <4> HIDE DEF w, e
      <4> QED
        BY <4>2 DEF Piece
    <3>7. Len(w) = (e - 1) - a + 1 /\ Len(w) = e - a
      <4>1. Len(w) = (e - 1) - a + 1
        BY <1>3, <2>1, <3>4, PieceFacts
      <4> HIDE DEF w, e
      <4> QED
        BY <2>2, <3>3, <4>1
    <3> HIDE DEF w
    <3>8. CASE ~Marked(s, h)
      <4>1. e = h
        BY <1>3, <3>8 DEF ExponentEnd
      <4>2. b = Len(w) + 1
        BY <2>2, <3>3, <3>7, <4>1
      <4>3. IntegerText(w) /\ DecimalText(w)
        <5>1. \A j \in (b + 1)..Len(w) : FALSE
          BY <2>2, <3>3, <3>7, <4>1
        <5>2. ~(b <= Len(w)) /\ Len(w) \in Nat
          BY <2>2, <3>3, <3>7, <4>1
        <5> HIDE DEF b
        <5>3. DecimalText(w)
          BY <3>6, <5>1, <5>2 DEF DecimalText
        <5> QED
          BY <3>6, <4>2, <5>3 DEF IntegerText
      <4> QED
        BY <1>1, <1>3, <2>1, <2>3, <3>1, <3>2, <3>3, <3>5, <4>3 DEF s, p
    <3>9. CASE Marked(s, h)
      <4> DEFINE k == IF At(s, h + 1) \in Signs THEN h + 2 ELSE h + 1
      <4>1. k \in (h + 1)..e /\ \A j \in k..(e - 1) : s[j] \in Digit
        BY <1>3, <3>9, Zenon
      <4>2. k = h + 2 => s[h + 1] \in Signs /\ h + 1 <= n
        <5>1. k = h + 2 => At(s, h + 1) \in Signs
          BY <3>3
        <5>2. NUL \notin Signs
          BY TextCharacters
        <5> QED
          BY <5>1, <5>2 DEF At
      <4> HIDE DEF k
      <4>2a. k \in {h + 1, h + 2}
        BY DEF k
      <4>3. ASSUME NEW j \in (b + 1)..Len(w) PROVE w[j] \in Digit \/ (j = b + 1 /\ w[j] \in Signs)
        <5>1. j \in (h - a + 2)..Len(w) /\ b + 1 = h - a + 2
          BY <2>2, <3>3
        <5>2. a + j - 1 \in (h + 1)..(e - 1) /\ w[j] = flag.dup[a + j - 1]
          BY <3>6, <5>1
        <5> DEFINE i == a + j - 1
        <5>3. i \in (h + 1)..n
          BY <3>3, <5>2
        <5>4. w[j] = s[i]
          BY <1>5, <5>2, <5>3
        <5>5. i \in k..(e - 1) \/ (i = h + 1 /\ k = h + 2)
          BY <3>3, <4>2a, <5>2
        <5>6. i = h + 1 => j = b + 1
          BY <2>2, <3>3, <5>1
        <5> HIDE DEF i
        <5> QED
          BY <4>1, <4>2, <5>4, <5>5, <5>6
      <4>4. b <= Len(w) => w[b] = "@"
        BY <1>5, <3>6, <3>9
      <4> HIDE DEF b
      <4>5. DecimalText(w)
        BY <3>6, <4>3, <4>4 DEF DecimalText
      <4>6. flag.decimal
        BY <1>3, <3>9
      <4> QED
        BY <1>1, <1>3, <2>1, <2>3, <3>1, <3>2, <3>3, <3>5, <4>5, <4>6 DEF s, p
    <3> QED
      BY <3>8, <3>9
  <2>4. CASE Slash(flag)
    <3> DEFINE t == flag.dup
               u == last.dup
               e == last.end
               w == SubSeq(u, a, e - 1)
               b == h - a + 1
    <3>1. /\ last.valid /\ ~flag.decimal /\ ~last.sign /\ ~last.decimal
      BY <2>4 DEF Parsed
    <3>2. ~Marked(s, h) /\ flag.end = h
      BY <1>3, <3>1 DEF ExponentEnd
    <3>3. h <= n /\ t[h] = "/"
      BY <1>3, <2>4, <3>2 DEF Slash, At, NUL
    <3>4. last = ston_parse_real(t, h + 1, radix)
      BY <2>4, <3>2 DEF Last, radix
    <3> HIDE DEF t
    <3>5. t \in Seq(Character) /\ Len(t) = n /\ h + 1 \in 1..(Len(t) + 1)
      BY <1>1, <1>3, <3>3 DEF t
    <3>6. PICK q2 \in Nat, d2 \in Nat, h2 \in Nat : Passed(t, h + 1, radix, last, q2, d2, h2)
      BY <1>1, <3>4, <3>5, ParseFacts, Zenon
    <3>7. /\ q2 \in (h + 1)..(n + 1) /\ h2 \in d2..(n + 1) /\ d2 \in q2..(n + 1)
          /\ e = ExponentEnd(t, h2)
          /\ last.sign = (q2 # h + 1)
          /\ last.decimal = (Points(t, q2, h2) # {} \/ Marked(t, h2))
          /\ u \in Seq(Character) /\ Len(u) = n
      BY <3>5, <3>6, Zenon DEF Passed
    <3>8. /\ \A j \in q2..(h2 - 1) : u[j] \in Figural
          /\ \A j \in 1..(d2 - 1) : u[j] = t[j]
      <4>1. LeftText(t, h + 1, last, q2, d2, h2)
        BY <1>1, <3>5, <3>6, PassedText, Zenon
      <4> QED
        BY <4>1 DEF LeftText
    <3>9. q2 = h + 1 /\ e = h2
      BY <3>1, <3>7 DEF ExponentEnd
    <3> HIDE DEF u, e
    <3>10. \A j \in 1..h : u[j] = t[j]
      <4>1. \A j \in 1..h : j \in 1..(d2 - 1)
        BY <3>7, <3>9
      <4> QED
        BY <3>8, <4>1
    <3>11. DigitRun(u, a, h) /\ u[p] = s[p] /\ u[h] = "/"
      <4>1. \A j \in a..(h - 1) : j \in 1..h
        BY <2>2
      <4>2. p \in 1..h /\ h \in 1..h
        BY <1>1, <2>1
      <4> QED
        BY <2>1, <3>3, <3>10, <4>1, <4>2 DEF DigitRun, t
    <3>12. PartText(last) = w
      <4>1. From(u, p) = a
        BY <2>1, <3>11 DEF From, a
      <4> QED
        BY <4>1 DEF PartText, From, p, u, e
    <3>13. e \in (h + 1)..(n + 1) /\ e \in Nat /\ e - 1 \in (a - 1)..n /\ h \in a..((e - 1) + 1)
      BY <2>1, <2>2, <3>3, <3>7, <3>9
    <3>14. w \in Seq(Character) /\ Len(w) = (e - 1) - a + 1
      <4>1. u \in Seq(Character) /\ a \in 1..(Len(u) + 1) /\ e - 1 \in (a - 1)..Len(u)
        BY <2>1, <3>7, <3>13
      <4> QED
        BY <4>1, PieceFacts, Zenon
    <3>15. /\ b \in 1..(Len(w) + 1) /\ DigitsUpto(w, b)
           /\ b <= Len(w) => w[b] = u[h]
           /\ \A j \in (h - a + 2)..Len(w) :
                a + j - 1 \in (h + 1)..(e - 1) /\ w[j] = u[a + j - 1]
      <4>1. a \in 1..(Len(u) + 1) /\ e - 1 \in (a - 1)..Len(u)
        BY <2>1, <3>7, <3>13
      <4>2. Piece(w, u, a, e - 1, h)
        BY <3>7, <3>11, <3>13, <4>1, RunPiece, Zenon
      <4> HIDE DEF w
      <4> QED
        BY <4>2 DEF Piece
    <3> HIDE DEF w
    <3>16. b \in 1..Len(w) /\ w[b] = "/"
      BY <2>2, <3>11, <3>13, <3>14, <3>15
    <3>17. ASSUME NEW j \in (b + 1)..Len(w) PROVE w[j] \in Figural
      <4>1. j \in (h - a + 2)..Len(w)
        BY <2>2, <3>13
      <4>2. a + j - 1 \in (h + 1)..(e - 1) /\ w[j] = u[a + j - 1]
        BY <3>15, <4>1
      <4> QED
        BY <3>8, <3>9, <4>2
    <3> HIDE DEF b
    <3>18. FractionText(w)
      BY <3>15, <3>16, <3>17 DEF FractionText
    <3>19. e \in (p + 1)..(n + 1)
      BY <1>1, <2>1, <3>13
    <3> QED
      BY <2>4, <3>7, <3>12, <3>14, <3>18, <3>19 DEF s, p, u, e
  <2> QED
    BY <2>3, <2>4
<1> QED
  BY <1>6, <1>7

\* What the conversion of a part yields.
LEMMA PartValueRaw ==
  ASSUME Reading, NEW flag, NEW last,
         flag = ston_parse_real(conv.dup, conv.ptr, conv.radix), last = Last(flag),
         Parsed(flag, last)
  PROVE  Raw(PartValue(flag, last))
<1> DEFINE w == PartText(last)
           radix == conv.radix
<1>1. ~Unit(flag, last) =>
        /\ w \in Seq(Character)
        /\ Slash(flag) => FractionText(w)
        /\ ~Slash(flag) /\ flag.decimal => DecimalText(w)
        /\ ~Slash(flag) /\ ~flag.decimal => IntegerText(w)
  BY PartTexts, Zenon
<1>2. radix \in Int
  <2>1. conv.radix \in 2..36
    BY Zenon DEF Reading
  <2> QED
    BY <2>1
<1>3. CASE Unit(flag, last)
  <2>1. PartValue(flag, last) = Small(IF last.dup[conv.ptr] = "+" THEN 1 ELSE -1)
    BY <1>3, Zenon DEF PartValue
  <2>2. PartValue(flag, last) = Rational(0, 1, 1) \/ PartValue(flag, last) = Rational(0, -1, 1)
    BY <2>1 DEF Small
  <2> QED
    BY <2>2 DEF Raw
<1>4. CASE ~Unit(flag, last) /\ Slash(flag)
  <2>1. PartValue(flag, last) = mpq_set_str(w, radix)
    BY <1>4, Zenon DEF PartValue
  <2>2. \E m, n \in Int : mpq_set_str(w, radix) = Rational(2, m, n)
    BY <1>1, <1>2, <1>4, MpqType
  <2> HIDE DEF w, radix
  <2> QED
    BY <2>1, <2>2 DEF Raw
<1>5. CASE ~Unit(flag, last) /\ ~Slash(flag) /\ flag.decimal
  <2>1. PartValue(flag, last) = IF conv.exactness = 1 THEN mpq_set_decimal(w) ELSE mpf_set_str(w)
    BY <1>5, Zenon DEF PartValue
  <2>2. \E m, n \in Int : mpf_set_str(w) = Rational(3, m, n)
    BY <1>1, <1>5, MpfType
  <2>3. \/ mpq_set_decimal(w) = RangeError
        \/ \E m, n \in Int : mpq_set_decimal(w) = Rational(2, m, n)
    BY <1>1, <1>5, DecimalType
  <2> HIDE DEF w, radix
  <2> QED
    BY <2>1, <2>2, <2>3 DEF Raw
<1>6. CASE ~Unit(flag, last) /\ ~Slash(flag) /\ ~flag.decimal
  <2>1. PartValue(flag, last) = mpz_set_str(w, radix)
    BY <1>6, Zenon DEF PartValue
  <2>2. \E m \in Int : mpz_set_str(w, radix) = Big(m)
    BY <1>1, <1>2, <1>6, MpzType
  <2> HIDE DEF w, radix
  <2> QED
    BY <2>1, <2>2 DEF Raw, Big
<1> QED
  BY <1>3, <1>4, <1>5, <1>6

-----------------------------------------------------------------------------
\* The types of the conversion.

\* a number object whose parts are as the runtime keeps them
Kept(z) == z \in ComplexNumber /\ Good(z.re) /\ Good(z.im)

ConvTypes ==
  /\ conv \in Conversion
  /\ Kept(conv.val)
  /\ conv.defradix \in 2..36
  /\ conv.radix \in {-1} \cup 2..36
  /\ conv.pc \in {"prefix", "part"} => conv.ptr \in 1..(Len(conv.dup) + 1)
  /\ conv.pc = "part" => conv.radix \in 2..36

\* Small numbers.
LEMMA SmallKept ==
  ASSUME NEW v \in Int32
  PROVE  Kept(new_number(v)) /\ new_number(v).re = Small(v) /\ new_number(v).im = Small(0)
<1>1. 0 \in Int32 /\ v \in Int
  BY HAssumption DEF Int32
<1>2. /\ Small(v) \in RealPart /\ Small(v).type = 0 /\ Small(v).num = v /\ Small(v).den = 1
      /\ Small(0) \in RealPart /\ Small(0).type = 0 /\ Small(0).num = 0 /\ Small(0).den = 1
  BY <1>1 DEF Small, Rational, RealPart
<1>3. Good(Small(v)) /\ Good(Small(0))
  BY <1>1, <1>2 DEF Good, Canonical
<1>4. /\ new_number(v) = [re |-> Small(v), im |-> Small(0)]
  BY DEF new_number, Complex
<1> QED
  BY <1>2, <1>3, <1>4 DEF Kept, ComplexNumber

\* A text is one of the characters.
LEMMA TextOf ==
  ASSUME NEW w \in Seq(STRING)
  PROVE  w \in Seq(Character)
BY DEF Character

\* Before the first number.
LEMMA IdleTypes == Kept(Idle.val) /\ Idle \in Conversion /\ Idle.pc = "none"
<1>1. Kept(new_number(0))
  <2>1. 0 \in Int32
    BY HAssumption DEF Int32
  <2> QED
    BY <2>1, SmallKept
<1>2. new_number(0) \in ComplexNumber
  BY <1>1 DEF Kept
<1> QED
  BY <1>1, <1>2 DEF Idle, Conversion

\* A conversion that begins.
LEMMA StartTypes ==
  ASSUME NEW w \in Seq(Character), NEW radix \in 2..36, NEW printed \in Seq(ComplexNumber),
         Start(w, radix, printed)
  PROVE  ConvTypes'
<1>1. conv' = [Idle EXCEPT !.pc = "prefix", !.str = w, !.dup = w, !.defradix = radix,
                          !.printed = printed]
  BY DEF Start
<1>2. Kept(Idle.val) /\ Idle \in Conversion
  BY IdleTypes
<1>3. conv' \in Conversion
  <2>1. radix \in Nat
    OBVIOUS
  <2> QED
    BY <1>1, <1>2, <2>1 DEF Conversion
<1>4. /\ conv'.val = Idle.val /\ conv'.defradix = radix /\ conv'.radix = -1
      /\ conv'.pc = "prefix" /\ conv'.ptr = 1 /\ conv'.dup = w
  BY <1>1 DEF Idle
<1> QED
  BY <1>2, <1>3, <1>4 DEF ConvTypes

\* A conversion that ends without a value of its own.
LEMMA FinishTypes ==
  ASSUME ConvTypes, NEW out \in {"number", "false", "trap", "error"}, Finish(out)
  PROVE  ConvTypes'
<1>1. conv' = [conv EXCEPT !.pc = "done", !.out = out]
  BY DEF Finish
<1>2. conv' \in Conversion
  BY <1>1 DEF ConvTypes, Conversion
<1>3. /\ conv'.val = conv.val /\ conv'.defradix = conv.defradix /\ conv'.radix = conv.radix
      /\ conv'.pc = "done"
  BY <1>1 DEF ConvTypes, Conversion
<1> QED
  BY <1>2, <1>3 DEF ConvTypes

\* A number of a program is converted,
LEMMA LiteralTypes ==
  ASSUME NEW w \in Seq(STRING), Literal(w)
  PROVE  ConvTypes'
<1>1. CASE numberFitsInt32(w)
  <2> DEFINE v == Natural(w, 10)
  <2>1. conv' = [Idle EXCEPT !.pc = "done", !.str = w, !.out = "number", !.val = new_number(v)]
    BY <1>1 DEF Literal
  <2>2. w \in Seq(Digit) /\ Len(w) <= FitDigits
    <3>1. \A k \in 1..Len(w) : w[k] \in Digit
      BY <1>1 DEF numberFitsInt32
    <3> QED
      BY <1>1, <3>1 DEF numberFitsInt32
  <2>3. v \in Int32
    <3>1. v \in 0..(PowerOfTen(FitDigits) - 1)
      BY <2>2, DigitsBounded, FitDigitsAssumption
    <3>2. PowerOfTen(FitDigits) \in Nat
      BY PowerType, FitDigitsAssumption
    <3> HIDE DEF v
    <3> QED
      BY <3>1, <3>2, FitDigitsAssumption, HAssumption DEF Int32
  <2> HIDE DEF v
  <2>4. Kept(new_number(v)) /\ new_number(v) \in ComplexNumber
    BY <2>3, SmallKept DEF Kept
  <2>5. Idle \in Conversion /\ w \in Seq(Character)
    BY IdleTypes, TextOf
  <2>6. conv' \in Conversion
    BY <2>1, <2>4, <2>5 DEF Conversion
  <2>7. /\ conv'.val = new_number(v) /\ conv'.defradix = 10 /\ conv'.radix = -1
        /\ conv'.pc = "done"
    BY <2>1 DEF Idle
  <2> QED
    BY <2>4, <2>6, <2>7 DEF ConvTypes
<1>2. CASE ~numberFitsInt32(w)
  <2>1. Start(w, 10, <<>>) /\ w \in Seq(Character) /\ 10 \in 2..36
    BY <1>2, TextOf DEF Literal
  <2>2. <<>> \in Seq(ComplexNumber)
    OBVIOUS
  <2> QED
    BY <2>1, <2>2, StartTypes, Zenon
<1> QED
  BY <1>1, <1>2

\* and a string; the conversion starts within its types.
LEMMA ConvertTypes ==
  ASSUME NEW w \in Seq(STRING), NEW r \in Radices, string2number(w, r)
  PROVE  ConvTypes'
<1>1. r \in 2..36 /\ w \in Seq(Character)
  BY RadicesAssumption, TextOf
<1>2. CASE w = <<>>
  <2>1. conv' = [Idle EXCEPT !.pc = "done", !.defradix = r, !.out = "false"]
    BY <1>2 DEF string2number
  <2>2. Kept(Idle.val) /\ Idle \in Conversion
    BY IdleTypes
  <2>3. conv' \in Conversion
    <3>1. r \in Nat
      BY <1>1
    <3> QED
      BY <2>1, <2>2, <3>1 DEF Conversion
  <2>4. /\ conv'.val = Idle.val /\ conv'.defradix = r /\ conv'.radix = -1 /\ conv'.pc = "done"
    BY <2>1 DEF Idle
  <2> QED
    BY <1>1, <2>2, <2>3, <2>4 DEF ConvTypes
<1>3. CASE w # <<>>
  <2>1. Start(w, r, <<>>)
    BY <1>3 DEF string2number
  <2>2. <<>> \in Seq(ComplexNumber)
    OBVIOUS
  <2> QED
    BY <1>1, <2>1, <2>2, StartTypes, Zenon
<1> QED
  BY <1>2, <1>3

\* A prefix that is read,
LEMMA PrefixTypes ==
  ASSUME ConvTypes, Prefix
  PROVE  ConvTypes'
<1> DEFINE c == At(conv.dup, conv.ptr + 1)
           new == [conv EXCEPT !.ptr = @ + 2]
<1>1. conv.ptr \in Nat /\ conv.dup \in Seq(Character) /\ conv.pc = "prefix"
  BY DEF ConvTypes, Conversion, Prefix
<1>2. NUL \notin Exactness /\ NUL \notin Radix
  BY DEF NUL, Exactness, Radix
<1>3. c \in Exactness \cup Radix => conv.ptr + 2 \in 1..(Len(conv.dup) + 1)
  BY <1>1, <1>2 DEF At
<1>4. new \in Conversion
  <2>1. conv.ptr + 2 \in Nat \ {0}
    BY DEF ConvTypes, Conversion
  <2>2. new = [conv EXCEPT !.ptr = conv.ptr + 2] /\ conv \in Conversion
    BY DEF ConvTypes
  <2> QED
    BY <2>1, <2>2 DEF Conversion
<1>5. /\ new.ptr = conv.ptr + 2 /\ new.dup = conv.dup /\ new.val = conv.val
      /\ new.defradix = conv.defradix /\ new.radix = conv.radix /\ new.pc = "prefix"
      /\ new.exactness = conv.exactness
  BY <1>1 DEF ConvTypes, Conversion
<1> HIDE DEF new
<1>6. ASSUME c \in Exactness, conv' = [new EXCEPT !.exactness = IF c = "i" THEN 0 ELSE 1]
      PROVE  ConvTypes'
  <2>1. conv' \in Conversion
    BY <1>4, <1>6 DEF Conversion
  <2>2. /\ conv'.ptr = new.ptr /\ conv'.dup = new.dup /\ conv'.val = new.val
        /\ conv'.defradix = new.defradix /\ conv'.radix = new.radix /\ conv'.pc = new.pc
    BY <1>4, <1>6 DEF Conversion
  <2> QED
    BY <1>3, <1>5, <1>6, <2>1, <2>2 DEF ConvTypes
<1>7. ASSUME c \in Radix,
             conv' = [new EXCEPT !.radix = CASE c = "b" -> 2 [] c = "o" -> 8
                                             [] c = "d" -> 10 [] c = "x" -> 16]
      PROVE  ConvTypes'
  <2>1. PICK r \in 2..36 : conv' = [new EXCEPT !.radix = r]
    <3> DEFINE v == CASE c = "b" -> 2 [] c = "o" -> 8 [] c = "d" -> 10 [] c = "x" -> 16
    <3>1. v \in {2, 8, 10, 16}
      BY <1>7 DEF Radix
    <3>2. conv' = [new EXCEPT !.radix = v]
      BY <1>7, Zenon
    <3> HIDE DEF v
    <3>3. v \in 2..36
      BY <3>1
    <3> QED
      BY <3>2, <3>3, Zenon
  <2>2. conv' \in Conversion
    <3>1. r \in Int
      OBVIOUS
    <3> QED
      BY <1>4, <2>1, <3>1 DEF Conversion
  <2>3. /\ conv'.ptr = new.ptr /\ conv'.dup = new.dup /\ conv'.val = new.val
        /\ conv'.defradix = new.defradix /\ conv'.radix = r /\ conv'.pc = new.pc
    BY <1>4, <2>1 DEF Conversion
  <2> QED
    BY <1>3, <1>5, <1>7, <2>2, <2>3 DEF ConvTypes
<1>8. Finish("false") => ConvTypes'
  BY FinishTypes
<1> QED
  BY <1>6, <1>7, <1>8 DEF Prefix, new

\* and the end of the prefixes, keep them.
LEMMA PrefixEndTypes ==
  ASSUME ConvTypes, PrefixEnd
  PROVE  ConvTypes'
<1>1. PICK r \in 2..36 : conv' = [conv EXCEPT !.pc = "part", !.radix = r]
  BY DEF PrefixEnd, ConvTypes
<1>2. conv' \in Conversion
  <2>1. r \in Int /\ conv \in Conversion
    BY DEF ConvTypes
  <2> QED
    BY <1>1, <2>1 DEF Conversion
<1>3. /\ conv'.ptr = conv.ptr /\ conv'.dup = conv.dup /\ conv'.val = conv.val
      /\ conv'.defradix = conv.defradix /\ conv'.radix = r /\ conv'.pc = "part"
  BY <1>1 DEF ConvTypes, Conversion
<1> QED
  BY <1>2, <1>3 DEF ConvTypes, PrefixEnd

\* A part that is stored.
LEMMA StoreTypes ==
  ASSUME ConvTypes, conv.pc = "part", NEW last, NEW x \in RealPart, Good(x), Store(last, x),
         last.dup \in Seq(Character), last.end \in 1..(Len(last.dup) + 1)
  PROVE  ConvTypes'
<1> DEFINE over == At(last.dup, Rest(last)) = NUL
           v == IF Imag(last) THEN Complex(conv.val.re, x) ELSE Complex(x, conv.val.im)
<1>1. Kept(v)
  BY DEF ConvTypes, Kept, Complex, ComplexNumber
<1>2. Rest(last) \in 1..(Len(last.dup) + 1)
  <2>1. Imag(last) => last.end <= Len(last.dup)
    BY DEF Imag, At, NUL
  <2> QED
    BY <2>1 DEF Rest
<1>3. PICK a \in BOOLEAN, b \in BOOLEAN, o \in BOOLEAN :
        conv' = [conv EXCEPT !.dup = last.dup, !.ptr = Rest(last), !.allowim = a, !.allowre = b,
                             !.val = v, !.pc = IF o THEN "done" ELSE "part",
                             !.out = IF o THEN "number" ELSE "none"]
  <2> DEFINE a == conv.allowim /\ ~Imag(last)
             b == conv.allowre /\ Imag(last)
  <2>1. a \in BOOLEAN /\ b \in BOOLEAN /\ over \in BOOLEAN
    OBVIOUS
  <2>2. conv' = [conv EXCEPT !.dup = last.dup, !.ptr = Rest(last), !.allowim = a, !.allowre = b,
                             !.val = v, !.pc = IF over THEN "done" ELSE "part",
                             !.out = IF over THEN "number" ELSE "none"]
    BY Zenon DEF Store
  <2> HIDE DEF a, b, over, v
  <2> QED
    BY <2>1, <2>2, Zenon
<1> HIDE DEF v
<1>4. conv' \in Conversion
  <2>1. v \in ComplexNumber /\ Rest(last) \in Nat \ {0}
    BY <1>1, <1>2 DEF Kept
  <2> QED
    BY <1>3, <2>1 DEF ConvTypes, Conversion
<1>5. /\ conv'.ptr = Rest(last) /\ conv'.dup = last.dup /\ conv'.val = v
      /\ conv'.defradix = conv.defradix /\ conv'.radix = conv.radix
  BY <1>3 DEF ConvTypes, Conversion
<1> QED
  BY <1>1, <1>2, <1>4, <1>5 DEF ConvTypes

\* A part that is read, or not.
LEMMA PartTypes ==
  ASSUME ConvTypes, Part
  PROVE  ConvTypes'
<1> DEFINE flag == ston_parse_real(conv.dup, conv.ptr, conv.radix)
           last == Last(flag)
           x == exactened(flag, PartValue(flag, last))
<1>1. conv.pc = "part" /\ ReadPart(flag, last, x)
  BY DEF Part
<1>2. Reading
  BY <1>1 DEF Reading, ConvTypes, Conversion
<1> HIDE DEF flag
<1>3. ASSUME NEW out \in {"false", "trap", "error"}, Finish(out) PROVE ConvTypes'
  BY <1>3, FinishTypes
<1>4. ASSUME Parsed(flag, last), ~Faulty(x), Store(last, x) PROVE ConvTypes'
  <2>1. /\ last.dup \in Seq(Character) /\ Len(last.dup) = Len(conv.dup)
        /\ last.end \in (conv.ptr + 1)..(Len(conv.dup) + 1)
    BY <1>2, <1>4, PartTexts, Zenon DEF flag
  <2>2. Raw(PartValue(flag, last))
    BY <1>2, <1>4, PartValueRaw, Zenon DEF flag
  <2>3. x \in RealPart /\ Good(x)
    BY <1>4, <2>2, ExactenedType
  <2>4. conv.ptr \in Nat /\ Len(conv.dup) \in Nat
    BY <1>2 DEF Reading
  <2>5. last.end \in 1..(Len(last.dup) + 1)
    <3> HIDE DEF last
    <3> QED
      BY <2>1, <2>4
  <2> HIDE DEF x, last
  <2> QED
    BY <1>1, <1>4, <2>1, <2>3, <2>5, StoreTypes, Zenon
<1> HIDE DEF x, last
<1> QED
  BY <1>1, <1>3, <1>4 DEF ReadPart

-----------------------------------------------------------------------------
\* The texts that are written.

\* An integer is written with at least one digit of ten, behind a minus if it is negative.
LEMMA DecimalWritten ==
  ASSUME NEW n \in Int
  PROVE  /\ Decimal(n) \in Seq(Character)
         /\ DecimalDigits(Abs(n)) \in Seq(Digit) /\ Len(DecimalDigits(Abs(n))) >= 1
         /\ Natural(DecimalDigits(Abs(n)), 10) = Abs(n)
         /\ n < 0 => Decimal(n) = <<"-">> \o DecimalDigits(Abs(n))
         /\ n >= 0 => Decimal(n) = DecimalDigits(Abs(n))
<1> DEFINE w == DecimalDigits(Abs(n))
<1>1. Abs(n) \in Nat
  BY DEF Abs
<1>2. w \in Seq(Digit) /\ Len(w) >= 1 /\ Natural(w, 10) = Abs(n)
  BY <1>1, DecimalSpells
<1>3. w \in Seq(Character) /\ "-" \in Character
  BY <1>2 DEF Character
<1>4. /\ n < 0 => Decimal(n) = <<"-">> \o w
      /\ n >= 0 => Decimal(n) = <<>> \o w
  <2> DEFINE sign == IF n < 0 THEN <<"-">> ELSE <<>>
  <2>1. Decimal(n) = sign \o w
    BY DEF Decimal
  <2>2. (n < 0 => sign = <<"-">>) /\ (n >= 0 => sign = <<>>)
    OBVIOUS
  <2> HIDE DEF sign, w
  <2> QED
    BY <2>1, <2>2
<1> HIDE DEF w
<1>5. <<>> \o w = w
  BY <1>3
<1>6. Decimal(n) \in Seq(Character)
  <2>1. <<"-">> \in Seq(Character)
    BY <1>3
  <2>2. <<"-">> \o w \in Seq(Character)
    BY <1>3, <2>1
  <2>3. n < 0 \/ n >= 0
    OBVIOUS
  <2> QED
    BY <1>3, <1>4, <1>5, <2>2, <2>3, Zenon
<1> QED
  BY <1>2, <1>4, <1>5, <1>6 DEF w

\* Parts of numbers are written with the characters of texts,
LEMMA ShownType ==
  ASSUME NEW x \in RealPart
  PROVE  Shown(x) \in Seq(Character) /\ ShownSigned(x) \in Seq(Character)
<1>1. x.num \in Int /\ x.den \in Int
  BY DEF RealPart
<1>2. Decimal(x.num) \in Seq(Character) /\ Decimal(x.den) \in Seq(Character)
  BY <1>1, DecimalWritten
<1>3. <<"/">> \in Seq(Character) /\ <<"+">> \in Seq(Character)
  BY DEF Character
<1>4. Shown(x) \in Seq(Character)
  <2> DEFINE a == Decimal(x.num)
             b == Decimal(x.den)
  <2>1. a \in Seq(Character) /\ b \in Seq(Character)
    BY <1>2
  <2>2. Shown(x) = IF x.type = 2 THEN a \o <<"/">> \o b ELSE a
    BY DEF Shown
  <2> HIDE DEF a, b
  <2>3. a \o <<"/">> \o b \in Seq(Character)
    BY <1>3, <2>1
  <2> QED
    BY <2>1, <2>2, <2>3
<1>5. <<"+">> \o Shown(x) \in Seq(Character)
  BY <1>3, <1>4
<1> QED
  BY <1>4, <1>5 DEF ShownSigned

\* and so are numbers.
LEMMA NtosType ==
  ASSUME NEW z \in ComplexNumber
  PROVE  ntos(z) \in Seq(Character)
<1> DEFINE re == IF is_complex(z) /\ z.re = Small(0) THEN <<>> ELSE Shown(z.re)
           im == CASE z.im = Small(1) -> <<"+">>
                   [] z.im = Small(-1) -> <<"-">>
                   [] OTHER -> ShownSigned(z.im)
<1>1. z.re \in RealPart /\ z.im \in RealPart
  BY DEF ComplexNumber
<1>2. re \in Seq(Character)
  BY <1>1, ShownType
<1>3. <<"+">> \in Seq(Character) /\ <<"-">> \in Seq(Character) /\ <<"i">> \in Seq(Character)
  BY DEF Character
<1>4. im \in Seq(Character)
  BY <1>1, <1>3, ShownType
<1>5. ntos(z) = IF is_complex(z) THEN re \o im \o <<"i">> ELSE re
  BY DEF ntos
<1> HIDE DEF re, im
<1> QED
  BY <1>2, <1>3, <1>4, <1>5

\* A number that is written starts a conversion of its own.
LEMMA RereadTypes ==
  ASSUME ConvTypes, Reread
  PROVE  ConvTypes'
<1>1. Start(ntos(conv.val), 10, <<conv.val>>)
  BY DEF Reread
<1>2. conv.val \in ComplexNumber
  BY DEF ConvTypes, Kept
<1>3. <<conv.val>> \in Seq(ComplexNumber) /\ 10 \in 2..36
  BY <1>2
<1> QED
  BY <1>1, <1>2, <1>3, NtosType, StartTypes, Zenon

-----------------------------------------------------------------------------

\* The lexer only adds to the tokens.
LEMMA TokensGrow ==
  ASSUME LInv, ScanInv, [Next]_vars
  PROVE  Len(tokens') >= Len(tokens)
<1>1. tokens \in Seq([type : TokenTypes, text : Seq(STRING), end : Nat])
  BY DEF LInv, LexTypeOK
<1>2. ScannerSpec!Next \/ UNCHANGED ScannerSpec!vars
  BY ScanReader DEF Follows
<1> QED
  BY <1>1, <1>2 DEF ScannerSpec!Next, ScannerSpec!vars, ScannerSpec!Scan, ScannerSpec!Fail

RInv == LInv /\ ScanInv /\ ConvTypes /\ ran \in 0..Len(tokens)

\* The invariant holds of the initial states,
LEMMA RInit == Init => RInv
<1> SUFFICES ASSUME Init PROVE RInv
  OBVIOUS
<1>1. LInv /\ ScanInv /\ tokens = <<>>
  BY LInit, ScanInit DEF Init, LexInit
<1>2. Kept(Idle.val) /\ Idle \in Conversion /\ Idle.pc = "none"
  BY IdleTypes
<1>3. Idle.defradix = 10 /\ Idle.radix = -1
  BY DEF Idle
<1>4. ConvTypes
  BY <1>2, <1>3 DEF ConvTypes, Init
<1> QED
  BY <1>1, <1>4 DEF RInv, Init

\* and every step keeps it.
LEMMA RStep == RInv /\ [Next]_vars => RInv'
<1> SUFFICES ASSUME RInv, [Next]_vars PROVE RInv'
  OBVIOUS
<1>1. LInv' /\ ScanInv'
  BY ReaderStep, ScanReader DEF RInv, Follows
<1>2. Len(tokens') >= Len(tokens) /\ Len(tokens) \in Nat /\ Len(tokens') \in Nat
  BY <1>1, TokensGrow DEF RInv, LInv, LexTypeOK
<1>3. CASE Lex \/ UNCHANGED vars
  <2>1. conv' = conv /\ ran' = ran
    BY <1>3 DEF Lex, vars
  <2>2. ConvTypes'
    BY <2>1, Zenon DEF RInv, ConvTypes
  <2>3. ran \in 0..Len(tokens')
    BY <1>2 DEF RInv
  <2> QED
    BY <1>1, <2>1, <2>2, <2>3 DEF RInv
<1>4. CASE Run
  <2> DEFINE t == tokens[ran + 1]
  <2>1. ran \in 0..Len(tokens) /\ ran < Len(tokens) /\ ran' = ran + 1 /\ tokens' = tokens
    BY <1>4 DEF Run, RInv, lexVars
  <2>2. t.text \in Seq(STRING)
    <3>1. tokens \in Seq([type : TokenTypes, text : Seq(STRING), end : Nat])
      BY DEF RInv, LInv, LexTypeOK
    <3>2. ran + 1 \in 1..Len(tokens)
      BY <2>1, <3>1
    <3>3. t \in [type : TokenTypes, text : Seq(STRING), end : Nat]
      BY <3>1, <3>2, SeqFacts
    <3> QED
      BY <3>3
  <2>3. Literal(t.text) \/ \E r \in Radices : string2number(t.text, r)
    BY <1>4 DEF Run
  <2> HIDE DEF t
  <2>4. ConvTypes'
    BY <2>2, <2>3, LiteralTypes, ConvertTypes
  <2> QED
    BY <1>1, <1>2, <2>1, <2>4 DEF RInv
<1>5. CASE Convert /\ UNCHANGED <<lexVars, ran>>
  <2>1. ConvTypes'
    BY <1>5, PrefixTypes, PrefixEndTypes, PartTypes, RereadTypes DEF Convert, RInv
  <2> QED
    BY <1>1, <1>5, <2>1 DEF RInv, lexVars
<1> QED
  BY <1>3, <1>4, <1>5 DEF Next

(***************************************************************************)
(* Whatever the texts, the lexer and the conversions of the numbers in them   *)
(* keep to their types: no scan leaves its text, and every number that comes   *)
(* out is in its only representation, canonicalized.                         *)
(***************************************************************************)
THEOREM ReaderTypes == Spec => []TypeOK
<1>1. RInv => TypeOK
  BY DEF RInv, TypeOK, LInv, ConvTypes
<1> QED
  BY <1>1, RInit, RStep, PTL DEF Spec

-----------------------------------------------------------------------------
\* How the parser reads digits.

\* The digits of ten are no signs, points, #s or markers.
LEMMA DigitCharacters ==
  /\ "+" \notin Digit /\ "-" \notin Digit /\ "." \notin Digit /\ "#" \notin Digit
  /\ "/" \notin Digit /\ "i" \notin Digit /\ NUL \notin Digit /\ Digit \cap Marker = {}
BY DEF Digit, Marker, NUL

\* the place behind an optional sign at p
Behind(s, p) == IF At(s, p) \in Signs THEN p + 1 ELSE p

\* what the parser says of digits up to e behind an optional sign at p
ReadTo(f, s, p, e) ==
  /\ f.valid /\ f.end = e /\ f.dup = s /\ ~f.decimal /\ ~f.pound
  /\ f.sign = (At(s, p) \in Signs)
  /\ f.iunit = (Behind(s, p) = e)

\* A sign and digits are read to the character that ends them.
LEMMA ParseDigits ==
  ASSUME NEW s \in Seq(Character), NEW p \in 1..(Len(s) + 1),
         NEW e \in Behind(s, p)..(Len(s) + 1),
         \A j \in Behind(s, p)..(e - 1) : s[j] \in Digit,
         At(s, e) \in {NUL, "+", "-", "/", "i"}, Behind(s, p) # e \/ At(s, e) = "i"
  PROVE  ReadTo(ston_parse_real(s, p, 10), s, p, e)
<1> DEFINE q == Behind(s, p)
           f == ston_parse_real(s, p, 10)
<1>0. /\ q = (IF At(s, p) \in Signs THEN p + 1 ELSE p) /\ q \in Nat
      /\ e \in q..(Len(s) + 1) /\ \A j \in q..(e - 1) : s[j] \in Digit
      /\ q # e \/ At(s, e) = "i"
  BY DEF Behind
<1>1. 10 \in 2..36
  OBVIOUS
<1>2. PICK b \in Nat, d \in Nat, h \in Nat : Passed(s, p, 10, f, b, d, h)
  BY <1>1, ParseFacts, Zenon
<1>3. /\ b = IF At(s, p) \in Signs THEN p + 1 ELSE p
      /\ d \in b..(Len(s) + 1) /\ h \in d..(Len(s) + 1)
      /\ At(s, d) \notin ston_digits(10) /\ At(s, h) \notin {".", "#"}
      /\ \A j \in b..(d - 1) : s[j] \in ston_digits(10)
      /\ \A j \in d..(h - 1) : s[j] \in {".", "#"}
      /\ f.valid = WellFormed(s, b, d, h, 10)
      /\ f.end = ExponentEnd(s, h)
      /\ f.iunit = (d = b /\ At(s, d) = "i")
      /\ f.decimal = (Points(s, b, h) # {} \/ Marked(s, h))
      /\ f.pound = ("#" \in {s[k] : k \in d..(h - 1)})
      /\ f.dup \in Seq(Character) /\ Len(f.dup) = Len(s)
      /\ \A j \in 1..Len(s) :
           f.dup[j] = CASE j \in d..(h - 1) /\ s[j] = "#" -> "0"
                        [] j = h /\ s[j] \in Marker -> "@"
                        [] OTHER -> s[j]
  BY <1>2, Zenon DEF Passed
<1>3a. f.sign = (b # p)
  BY <1>2, Zenon DEF Passed
<1> HIDE DEF q, f
<1>4. b = q
  BY <1>0, <1>3
<1>5. ston_digits(10) = Digit \cup {"."}
  BY <1>1, RadixDigits
<1>6. /\ At(s, e) \notin Digit \cup {"."} /\ At(s, e) \notin {".", "#"} /\ At(s, e) \notin Marker
  BY DEF Digit, Marker, NUL
<1>7. q \in Nat /\ Len(s) \in Nat /\ p \in Nat /\ 1 <= q /\ e \in q..(Len(s) + 1)
  BY <1>0
<1>8. d = e
  <2>1. CASE d < e
    <3>1. d \in q..(e - 1) /\ d <= Len(s)
      BY <1>3, <1>4, <1>7, <2>1
    <3> QED
      BY <1>0, <1>3, <1>5, <3>1 DEF At
  <2>2. CASE e < d
    <3>1. e \in b..(d - 1) /\ e <= Len(s)
      BY <1>3, <1>4, <1>7, <2>2
    <3>2. s[e] \in ston_digits(10)
      BY <1>3, <3>1
    <3> QED
      BY <1>5, <1>6, <3>1, <3>2 DEF At
  <2> QED
    BY <1>3, <1>7, <2>1, <2>2
<1>9. h = e
  <2> SUFFICES ASSUME h # e PROVE FALSE
    OBVIOUS
  <2>1. e \in d..(h - 1) /\ e <= Len(s)
    BY <1>3, <1>7, <1>8
  <2>2. s[e] \in {".", "#"}
    BY <1>3, <2>1
  <2> QED
    BY <1>6, <2>1, <2>2 DEF At
<1>10. ~Marked(s, h)
  BY <1>6, <1>9 DEF Marked
<1>11. Points(s, b, h) = {}
  BY <1>0, <1>4, <1>9, DigitCharacters DEF Points
<1>12. ~f.decimal /\ f.end = e
  BY <1>3, <1>9, <1>10, <1>11 DEF ExponentEnd
<1>13. ~f.pound
  <2>1. d..(h - 1) = {}
    BY <1>7, <1>8, <1>9
  <2> QED
    BY <1>3, <2>1
<1>14. f.iunit = (q = e)
  BY <1>0, <1>3, <1>4, <1>8
<1>15. f.valid
  <2>1. ~(d = b + 1 /\ s[b] = ".")
    <3> SUFFICES ASSUME d = b + 1 PROVE s[b] # "."
      OBVIOUS
    <3>1. q \in q..(e - 1)
      BY <1>4, <1>7, <1>8
    <3> QED
      BY <1>0, <1>4, <3>1, DigitCharacters
  <2>2. d = b => At(s, d) = "i"
    BY <1>0, <1>4, <1>8
  <2> QED
    BY <1>3, <1>10, <1>11, <2>1, <2>2 DEF WellFormed
<1>16. f.dup = s
  <2>1. \A j \in 1..Len(s) : f.dup[j] = s[j]
    <3> TAKE j \in 1..Len(s)
    <3>1. j \notin d..(h - 1)
      BY <1>7, <1>8, <1>9
    <3>2. j = h => s[j] \notin Marker
      BY <1>10 DEF Marked, At
    <3> QED
      BY <1>3, <3>1, <3>2
  <2> QED
    BY <1>3, <2>1, SeqEqual
<1>17. f.sign = (At(s, p) \in Signs)
  <2>1. b # p <=> At(s, p) \in Signs
    BY <1>3, <1>7
  <2> QED
    BY <1>3a, <2>1
<1> QED
  BY <1>12, <1>13, <1>14, <1>15, <1>16, <1>17 DEF ReadTo, q, f

-----------------------------------------------------------------------------
\* The text of an exact number.

\* w is digits from b on, behind a minus if b is 2
WrittenInteger(w, b) ==
  /\ w \in Seq(Character) /\ b \in {1, 2} /\ b <= Len(w)
  /\ b = 2 => w[1] = "-"
  /\ \A j \in b..Len(w) : w[j] \in Digit

\* An integer as it is written: where its digits are, and what it is read as.
LEMMA DecimalFacts ==
  ASSUME NEW n \in Int
  PROVE  /\ WrittenInteger(Decimal(n), IF n < 0 THEN 2 ELSE 1)
         /\ Neg(Decimal(n), Natural(Unsigned(Decimal(n)), 10)) = n
<1> DEFINE u == DecimalDigits(Abs(n))
           w == Decimal(n)
<1>1. /\ w \in Seq(Character)
      /\ u \in Seq(Digit) /\ Len(u) >= 1 /\ Natural(u, 10) = Abs(n)
      /\ n < 0 => w = <<"-">> \o u
      /\ n >= 0 => w = u
  BY DecimalWritten
<1> HIDE DEF u, w
<1>2. CASE n < 0
  <2>1. w = <<"-">> \o u
    BY <1>1, <1>2
  <2>2. <<"-">> \in Seq(Character) /\ u \in Seq(Character) /\ Len(<<"-">>) = 1
    BY <1>1 DEF Character
  <2>3. /\ Len(w) = 1 + Len(u)
        /\ \A i \in 1..(1 + Len(u)) : w[i] = IF i <= 1 THEN <<"-">>[i] ELSE u[i - 1]
    BY <2>1, <2>2, ConcatProperties
  <2>4. Len(u) \in Nat /\ \A i \in 1..Len(u) : u[i] \in Digit
    BY <1>1
  <2>5. w[1] = "-" /\ w # <<>>
    BY <2>3, <2>4
  <2>6. WrittenInteger(w, 2)
    <3>1. \A j \in 2..Len(w) : w[j] \in Digit
      <4> TAKE j \in 2..Len(w)
      <4>1. j - 1 \in 1..Len(u) /\ j \in 1..(1 + Len(u)) /\ ~(j <= 1)
        BY <2>3, <2>4
      <4> QED
        BY <2>3, <2>4, <4>1
    <3> QED
      BY <1>1, <2>3, <2>4, <2>5, <3>1 DEF WrittenInteger
  <2>7. Signed(w) /\ Unsigned(w) = Tail(w)
    BY <2>5 DEF Signed, Unsigned
  <2>8. Tail(w) = u
    <3>1. /\ Tail(w) \in Seq(Character) /\ Len(Tail(w)) = Len(w) - 1
          /\ \A i \in 1..Len(Tail(w)) : Tail(w)[i] = w[i + 1]
      BY <1>1, <2>5, HeadTailProperties
    <3>2. Len(Tail(w)) = Len(u)
      BY <2>3, <2>4, <3>1
    <3>3. ASSUME NEW i \in 1..Len(Tail(w)) PROVE Tail(w)[i] = u[i]
      <4>1. i + 1 \in 1..(1 + Len(u)) /\ ~(i + 1 <= 1) /\ (i + 1) - 1 = i
        BY <2>4, <3>2
      <4> QED
        BY <2>3, <3>1, <4>1
    <3> QED
      BY <2>2, <3>1, <3>2, <3>3, SeqEqual
  <2>9. Neg(w, Natural(Unsigned(w), 10)) = n
    <3>1. Neg(w, Natural(Unsigned(w), 10)) = -Abs(n)
      BY <1>1, <2>7, <2>8 DEF Neg
    <3> QED
      BY <1>2, <3>1 DEF Abs
  <2> QED
    BY <1>2, <2>6, <2>9 DEF w
<1>3. CASE n >= 0
  <2>1. w = u
    BY <1>1, <1>3
  <2>2. \A i \in 1..Len(w) : w[i] \in Digit
    BY <1>1, <2>1
  <2>3. WrittenInteger(w, 1)
    BY <1>1, <2>1, <2>2 DEF WrittenInteger
  <2>4. w[1] # "-"
    <3>1. 1 \in 1..Len(w)
      BY <1>1, <2>1
    <3> QED
      BY <2>2, <3>1, DigitCharacters
  <2>5. ~Signed(w) /\ Unsigned(w) = w
    BY <2>4 DEF Signed, Unsigned
  <2>6. Neg(w, Natural(Unsigned(w), 10)) = n
    <3>1. Neg(w, Natural(Unsigned(w), 10)) = Abs(n)
      BY <1>1, <2>1, <2>5 DEF Neg
    <3> QED
      BY <1>3, <3>1 DEF Abs
  <2> QED
    BY <1>3, <2>3, <2>6 DEF w
<1> QED
  BY <1>2, <1>3

\* what a real number is read as, where its text is w
ReadAs(w, x) == IF x.type = 2 THEN mpq_set_str(w, 10) ELSE mpz_set_str(w, 10)

\* w is the text of a fraction with the bar at k, behind a minus if b is 2
WrittenFraction(w, b, k) ==
  /\ w \in Seq(Character) /\ b \in {1, 2} /\ k \in (b + 1)..(Len(w) - 1)
  /\ b = 2 => w[1] = "-"
  /\ \A j \in b..(k - 1) : w[j] \in Digit
  /\ w[k] = "/"
  /\ \A j \in (k + 1)..Len(w) : w[j] \in Digit

\* How the parts of exact numbers are written, and that reading it gives them back.
LEMMA ShownFacts ==
  ASSUME NEW x, Good(x), x.type # 3
  PROVE  /\ x.type # 2 => WrittenInteger(Shown(x), IF x.num < 0 THEN 2 ELSE 1)
         /\ x.type = 2 => \E k \in Nat : WrittenFraction(Shown(x), IF x.num < 0 THEN 2 ELSE 1, k)
         /\ re_canonicalize(ReadAs(Shown(x), x)) = x
<1> DEFINE w == Shown(x)
           n == x.num
           a == Decimal(n)
           b == IF n < 0 THEN 2 ELSE 1
<1>1. /\ x = Rational(x.type, n, x.den) /\ n \in Int /\ x.den \in Int
      /\ x.type = 2 => x.den > 1 /\ re_canonicalize(Rational(2, n, x.den)) = x
      /\ x.type # 2 => x.den = 1 /\ re_canonicalize(Big(n)) = x
  BY CanonicalKept
<1>2. WrittenInteger(a, b) /\ Neg(a, Natural(Unsigned(a), 10)) = n
  BY <1>1, DecimalFacts
<1>3. CASE x.type # 2
  <2>1. w = a
    BY <1>3 DEF Shown
  <2>2. ReadAs(w, x) = Big(n)
    BY <1>2, <1>3, <2>1 DEF ReadAs, mpz_set_str
  <2> QED
    BY <1>1, <1>2, <1>3, <2>1, <2>2
<1>4. CASE x.type = 2
  <2> DEFINE c == Decimal(x.den)
             v == a \o <<"/">>
             k == Len(a) + 1
  <2>1. w = v \o c
    BY <1>4 DEF Shown
  <2>2. WrittenInteger(c, 1) /\ Neg(c, Natural(Unsigned(c), 10)) = x.den
    <3>1. ~(x.den < 0)
      BY <1>1, <1>4
    <3> QED
      BY <1>1, <3>1, DecimalFacts
  <2>3. Natural(c, 10) = x.den
    <3>1. 1 \in 1..Len(c)
      BY <2>2 DEF WrittenInteger
    <3>2. c[1] # "-"
      BY <2>2, <3>1, DigitCharacters DEF WrittenInteger
    <3> QED
      BY <2>2, <3>2 DEF Neg, Unsigned, Signed
  <2> HIDE DEF a, c, w, n
  <2>4. a \in Seq(Character) /\ c \in Seq(Character) /\ <<"/">> \in Seq(Character)
    BY <1>2, <2>2 DEF WrittenInteger, Character
  <2>5. Len(<<"/">>) = 1 /\ <<"/">>[1] = "/" /\ Len(a) \in Nat /\ Len(c) \in Nat
    BY <2>4
  <2>6. /\ v \in Seq(Character) /\ Len(v) = Len(a) + 1
        /\ \A i \in 1..(Len(a) + 1) : v[i] = IF i <= Len(a) THEN a[i] ELSE <<"/">>[i - Len(a)]
    BY <2>4, <2>5, ConcatProperties
  <2> HIDE DEF v
  <2>7. /\ w \in Seq(Character) /\ Len(w) = Len(v) + Len(c)
        /\ \A i \in 1..(Len(v) + Len(c)) : w[i] = IF i <= Len(v) THEN v[i] ELSE c[i - Len(v)]
    <3>1. /\ v \o c \in Seq(Character) /\ Len(v \o c) = Len(v) + Len(c)
          /\ \A i \in 1..(Len(v) + Len(c)) : (v \o c)[i] = IF i <= Len(v) THEN v[i] ELSE c[i - Len(v)]
      <4>1. v \in Seq(Character) /\ c \in Seq(Character)
        BY <2>4, <2>6
      <4> QED
        BY <4>1, ConcatProperties, Zenon
    <3> QED
      BY <2>1, <3>1, Zenon
  <2>8. \A i \in 1..(k - 1) : w[i] = a[i]
    <3> TAKE i \in 1..(k - 1)
    <3>1. i \in 1..(Len(a) + 1) /\ i <= Len(a) /\ i <= Len(v) /\ i \in 1..(Len(v) + Len(c))
      BY <2>5, <2>6
    <3> QED
      BY <2>6, <2>7, <3>1
  <2>9. w[k] = "/"
    <3>1. k \in 1..(Len(a) + 1) /\ ~(k <= Len(a)) /\ k - Len(a) = 1 /\ k <= Len(v)
          /\ k \in 1..(Len(v) + Len(c))
      BY <2>5, <2>6
    <3> QED
      BY <2>5, <2>6, <2>7, <3>1
  <2>10. Len(w) = k + Len(c) /\ \A i \in 1..Len(c) : w[k + i] = c[i]
    <3>1. Len(w) = k + Len(c)
      BY <2>5, <2>6, <2>7
    <3>2. ASSUME NEW i \in 1..Len(c) PROVE w[k + i] = c[i]
      <4>1. k + i \in 1..(Len(v) + Len(c)) /\ ~(k + i <= Len(v)) /\ (k + i) - Len(v) = i
        BY <2>5, <2>6
      <4> QED
        BY <2>7, <4>1
    <3> QED
      BY <3>1, <3>2
  <2>11. k \in Nat /\ k - 1 = Len(a) /\ Len(a) >= b /\ Len(c) >= 1
    BY <1>2, <2>2, <2>5 DEF WrittenInteger
  <2>12. WrittenFraction(w, b, k)
    <3>1. k \in (b + 1)..(Len(w) - 1) /\ b \in {1, 2}
      <4>1. b \in {1, 2}
        OBVIOUS
      <4> HIDE DEF b
      <4> QED
        BY <2>5, <2>10, <2>11, <4>1
    <3>2. b = 2 => w[1] = "-"
      <4>1. 1 \in 1..(k - 1)
        BY <2>11, <3>1
      <4> QED
        BY <1>2, <2>8, <4>1 DEF WrittenInteger
    <3>3. ASSUME NEW j \in b..(k - 1) PROVE w[j] \in Digit
      <4>1. j \in 1..(k - 1) /\ j \in b..Len(a)
        BY <2>5, <2>11
      <4> QED
        BY <1>2, <2>8, <4>1 DEF WrittenInteger
    <3>4. ASSUME NEW j \in (k + 1)..Len(w) PROVE w[j] \in Digit
      <4>1. j - k \in 1..Len(c) /\ k + (j - k) = j
        BY <2>5, <2>10, <2>11
      <4> QED
        BY <2>2, <2>10, <4>1 DEF WrittenInteger
    <3> HIDE DEF b, k
    <3> QED
      BY <2>7, <2>9, <3>1, <3>2, <3>3, <3>4 DEF WrittenFraction
  <2>13. Where(w, "/") = k
    <3>1. w \in Seq(NumeralCharacter) /\ NUL \notin NumeralCharacter
      <4>1. FractionText(w)
        <5>1. k \in 1..Len(w) /\ DigitsUpto(w, k)
          <6>1. ASSUME NEW j \in 1..(k - 1) PROVE w[j] \in Figural \/ (j = 1 /\ w[1] = "-")
            <7>1. j \in b..(k - 1) \/ (b = 2 /\ j = 1)
              BY <2>11
            <7> QED
              BY <2>12, <7>1, TextCharacters DEF WrittenFraction
          <6> QED
            BY <2>10, <2>11, <6>1 DEF DigitsUpto
        <5>2. \A j \in (k + 1)..Len(w) : w[j] \in Figural
          BY <2>12, TextCharacters DEF WrittenFraction
        <5> HIDE DEF k
        <5> QED
          BY <2>9, <5>1, <5>2 DEF FractionText
      <4> QED
        BY <2>7, <4>1, NumeralText
    <3>2. \A j \in 1..(k - 1) : w[j] # "/"
      <4> TAKE j \in 1..(k - 1)
      <4>1. j \in b..(k - 1) \/ (b = 2 /\ j = 1)
        BY <2>11
      <4> QED
        BY <2>12, <4>1, DigitCharacters DEF WrittenFraction
    <3>3. k \in 1..(Len(w) + 1)
      BY <2>10, <2>11
    <3> HIDE DEF k
    <3> QED
      BY <2>9, <3>1, <3>2, <3>3, WhereFacts
  <2>14. SubSeq(w, 1, k - 1) = a
    <3>1. 1 \in 1..(Len(w) + 1) /\ k - 1 \in (1 - 1)..Len(w)
      BY <2>5, <2>10, <2>11
    <3> DEFINE y == SubSeq(w, 1, k - 1)
    <3>2. /\ y \in Seq(Character) /\ Len(y) = (k - 1) - 1 + 1
          /\ \A j \in 1..((k - 1) - 1 + 1) : y[j] = w[1 + j - 1]
      BY <2>7, <3>1, PieceFacts
    <3> HIDE DEF y
    <3>3. Len(y) = Len(a)
      BY <2>5, <3>2
    <3>4. ASSUME NEW i \in 1..Len(y) PROVE y[i] = a[i]
      <4>1. i \in 1..((k - 1) - 1 + 1) /\ 1 + i - 1 = i /\ i \in 1..(k - 1)
        BY <2>5, <3>3
      <4> QED
        BY <2>8, <3>2, <4>1
    <3>5. y = a
      BY <2>4, <3>2, <3>3, <3>4, SeqEqual
    <3> QED
      BY <3>5 DEF y
  <2>15. SubSeq(w, k + 1, Len(w)) = c
    <3>1. k + 1 \in 1..(Len(w) + 1) /\ Len(w) \in ((k + 1) - 1)..Len(w)
      BY <2>5, <2>10, <2>11
    <3> DEFINE y == SubSeq(w, k + 1, Len(w))
    <3>2. /\ y \in Seq(Character) /\ Len(y) = Len(w) - (k + 1) + 1
          /\ \A j \in 1..(Len(w) - (k + 1) + 1) : y[j] = w[(k + 1) + j - 1]
      BY <2>7, <3>1, PieceFacts
    <3> HIDE DEF y
    <3>3. Len(y) = Len(c)
      BY <2>5, <2>10, <3>2
    <3>4. ASSUME NEW i \in 1..Len(y) PROVE y[i] = c[i]
      <4>1. i \in 1..(Len(w) - (k + 1) + 1) /\ (k + 1) + i - 1 = k + i /\ i \in 1..Len(c)
        BY <2>5, <2>10, <3>3
      <4> QED
        BY <2>10, <3>2, <4>1
    <3>5. y = c
      BY <2>4, <3>2, <3>3, <3>4, SeqEqual
    <3> QED
      BY <3>5 DEF y
  <2>16. Neg(w, Natural(Unsigned(a), 10)) = n
    <3>1. 1 \in 1..(k - 1) /\ a # <<>> /\ w # <<>>
      BY <2>4, <2>5, <2>7, <2>10, <2>11
    <3>2. w[1] = a[1]
      BY <2>8, <3>1
    <3>3. Signed(w) <=> Signed(a)
      BY <3>1, <3>2 DEF Signed
    <3> QED
      BY <1>2, <3>3 DEF Neg
  <2>17. c # <<>>
    BY <2>11
  <2>18. mpq_set_str(w, 10) = Rational(2, n, x.den)
    <3> DEFINE i == Where(w, "/")
               den == SubSeq(w, i + 1, Len(w))
    <3>1. mpq_set_str(w, 10)
            = Rational(2, Neg(w, Natural(Unsigned(SubSeq(w, 1, i - 1)), 10)),
                       IF den = <<>> THEN 1 ELSE Natural(den, 10))
      BY Zenon DEF mpq_set_str
    <3>2. den = c /\ SubSeq(w, 1, i - 1) = a
      BY <2>13, <2>14, <2>15, Zenon
    <3> HIDE DEF i, den
    <3> QED
      BY <2>3, <2>16, <2>17, <3>1, <3>2
  <2>19. ReadAs(w, x) = Rational(2, n, x.den)
    BY <1>4, <2>18 DEF ReadAs
  <2> QED
    BY <1>1, <1>4, <2>11, <2>12, <2>19 DEF w, n
<1> QED
  BY <1>3, <1>4

-----------------------------------------------------------------------------
\* What the conversion makes of a part that was written.

\* the part from p to e of s is read as x
ReadsPart(flag, last, s, p, e, x) ==
  /\ flag.valid
  /\ Slash(flag) => last.valid /\ ~flag.decimal /\ ~last.sign /\ ~last.decimal
  /\ last.dup = s /\ last.end = e
  /\ flag.sign = (At(s, p) \in Signs)
  /\ Unit(flag, last) => flag.sign
  /\ exactened(flag, PartValue(flag, last)) = x

\* before the conversion of a written number: no prefix was there
Written == Reading /\ conv.radix = 10 /\ conv.exactness = -1

\* A part that is not a sign and i keeps the value that GMP finds.
LEMMA ReadByGmp ==
  ASSUME Written, NEW x, Good(x), x.type # 3, NEW flag, NEW last, NEW e \in Nat,
         last.dup = conv.dup, last.end = e,
         SubSeq(conv.dup, From(conv.dup, conv.ptr), e - 1) = Shown(x),
         ~flag.decimal, ~flag.pound, ~flag.iunit, Slash(flag) <=> x.type = 2
  PROVE  ~Unit(flag, last) /\ exactened(flag, PartValue(flag, last)) = x
<1> DEFINE w == Shown(x)
           v == PartValue(flag, last)
<1>1. ~Unit(flag, last)
  BY Zenon DEF Unit
<1>2. PartText(last) = w
  BY DEF PartText, From
<1>3. v = ReadAs(w, x)
  <2>1. CASE x.type = 2
    <3>1. v = mpq_set_str(PartText(last), conv.radix)
      BY <1>1, <2>1, Zenon DEF PartValue
    <3> QED
      BY <1>2, <2>1, <3>1 DEF ReadAs, Written
  <2>2. CASE x.type # 2
    <3>1. v = mpz_set_str(PartText(last), conv.radix)
      BY <1>1, <2>2, Zenon DEF PartValue
    <3> QED
      BY <1>2, <2>2, <3>1 DEF ReadAs, Written
  <2> QED
    BY <2>1, <2>2
<1>4. exactened(flag, v) = re_canonicalize(v)
  <2>1. ~(conv.exactness = 0 \/ (flag.pound /\ conv.exactness # 1))
    BY DEF Written
  <2> HIDE DEF v
  <2> QED
    BY <2>1, Zenon DEF exactened
<1>5. re_canonicalize(ReadAs(w, x)) = x
  BY ShownFacts
<1> HIDE DEF v, w
<1> QED
  BY <1>1, <1>3, <1>4, <1>5 DEF v

\* A written real number, or the imaginary part of one with its sign, is read back.
LEMMA RealRead ==
  ASSUME Written, NEW x, Good(x), x.type # 3, NEW flag, NEW last, NEW e \in Nat,
         flag = ston_parse_real(conv.dup, conv.ptr, conv.radix), last = Last(flag),
         From(conv.dup, conv.ptr) <= e, e <= Len(conv.dup) + 1, conv.ptr <= Len(conv.dup),
         SubSeq(conv.dup, From(conv.dup, conv.ptr), e - 1) = Shown(x),
         At(conv.dup, e) \in {NUL, "+", "-", "i"},
         conv.dup[conv.ptr] = "+" => ~(x.num < 0)
  PROVE  ReadsPart(flag, last, conv.dup, conv.ptr, e, x)
<1> DEFINE s == conv.dup
           p == conv.ptr
           n == Len(s)
           a == From(s, p)
           w == Shown(x)
           b == IF x.num < 0 THEN 2 ELSE 1
           q == Behind(s, p)
<1>1. /\ s \in Seq(Character) /\ p \in 1..(n + 1) /\ n \in Nat /\ p \in Nat /\ 1 <= p /\ p <= n
      /\ a \in Nat /\ (a = p \/ a = p + 1) /\ a <= e /\ e <= n + 1
      /\ flag = ston_parse_real(s, p, 10)
  BY DEF Written, Reading, From
<1>2. /\ x.type # 2 => WrittenInteger(w, b)
      /\ x.type = 2 => \E k \in Nat : WrittenFraction(w, b, k)
  BY ShownFacts
<1>3. b \in {1, 2} /\ (b = 2 <=> x.num < 0)
  OBVIOUS
<1>3a. /\ s[p] = "+" => a = p + 1 /\ b = 1
       /\ s[p] # "+" => a = p
       /\ q = IF s[p] \in Signs THEN p + 1 ELSE p
  BY <1>1, <1>3 DEF From, At, Behind
<1>4. At(s, e) \in {NUL, "+", "-", "i"} /\ SubSeq(s, a, e - 1) = w
  OBVIOUS
<1> HIDE DEF s, p, a, w, b, q, n
<1>5. /\ Len(w) = e - a
      /\ \A j \in 1..(e - a) : w[j] = s[a + j - 1]
  <2>1. a \in 1..(Len(s) + 1) /\ e - 1 \in (a - 1)..Len(s)
    BY <1>1 DEF n
  <2>2. (e - 1) - a + 1 = e - a
    BY <1>1
  <2>3. /\ Len(SubSeq(s, a, e - 1)) = (e - 1) - a + 1
        /\ \A j \in 1..((e - 1) - a + 1) : SubSeq(s, a, e - 1)[j] = s[a + j - 1]
    BY <1>1, <2>1, PieceFacts
  <2> QED
    BY <1>4, <2>2, <2>3
<1>6. /\ b <= Len(w) /\ (b = 2 => w[1] = "-") /\ (b = 1 => w[1] \in Digit)
  <2>1. CASE x.type # 2
    <3>1. b <= Len(w) /\ (b = 2 => w[1] = "-") /\ \A j \in b..Len(w) : w[j] \in Digit
      BY <1>2, <2>1 DEF WrittenInteger
    <3> QED
      BY <1>1, <1>3, <1>5, <3>1
  <2>2. CASE x.type = 2
    <3>1. PICK k \in Nat : WrittenFraction(w, b, k)
      BY <1>2, <2>2
    <3>2. k \in (b + 1)..(Len(w) - 1) /\ (b = 2 => w[1] = "-") /\ \A j \in b..(k - 1) : w[j] \in Digit
      BY <3>1 DEF WrittenFraction
    <3> QED
      BY <1>1, <1>3, <1>5, <3>2
  <2> QED
    BY <2>1, <2>2
<1>7. q = a + b - 1 /\ q \in Nat
  <2>1. CASE s[p] = "+"
    BY <1>1, <1>3a, <2>1 DEF Signs
  <2>2. CASE s[p] # "+"
    <3>1. a = p /\ w[1] = s[p]
      <4>1. 1 \in 1..(e - a) /\ a + 1 - 1 = a
        BY <1>1, <1>3, <1>5, <1>6
      <4> QED
        BY <1>3a, <1>5, <2>2, <4>1
    <3>2. CASE b = 2
      BY <1>1, <1>3a, <1>6, <3>1, <3>2 DEF Signs
    <3>3. CASE b = 1
      BY <1>1, <1>3a, <1>6, <3>1, <3>3, DigitCharacters DEF Signs
    <3> QED
      BY <1>3, <3>2, <3>3
  <2> QED
    BY <2>1, <2>2
<1>8a. At(s, e) \in {NUL, "+", "-", "/", "i"} /\ At(s, e) # "/"
  BY <1>4 DEF NUL
<1>9. CASE x.type # 2
  <2>1. \A j \in b..Len(w) : w[j] \in Digit
    BY <1>2, <1>9 DEF WrittenInteger
  <2>2. \A j \in q..(e - 1) : s[j] \in Digit
    <3> TAKE j \in q..(e - 1)
    <3>1. (j - a) + 1 \in b..Len(w) /\ (j - a) + 1 \in 1..(e - a) /\ a + ((j - a) + 1) - 1 = j
      BY <1>1, <1>3, <1>5, <1>7
    <3> QED
      BY <1>5, <2>1, <3>1
  <2>3. e \in q..(n + 1) /\ q # e
    <3>1. Len(w) = e - a /\ b <= e - a
      BY <1>5, <1>6
    <3> QED
      BY <1>1, <1>3, <1>7, <3>1
  <2>4. ReadTo(flag, s, p, e)
    BY <1>1, <1>8a, <2>2, <2>3, ParseDigits, Zenon DEF n, q
  <2>5. /\ flag.valid /\ flag.end = e /\ flag.dup = s /\ ~flag.decimal /\ ~flag.pound
        /\ flag.sign = (At(s, p) \in Signs) /\ ~flag.iunit
    BY <2>3, <2>4 DEF ReadTo, q
  <2>6. ~Slash(flag) /\ last = flag
    BY <1>8a, <2>5 DEF Slash, Last
  <2>7. ~Unit(flag, last) /\ exactened(flag, PartValue(flag, last)) = x
    <3>1. Slash(flag) <=> x.type = 2
      BY <1>9,  <2>6
    <3>2. last.dup = s /\ last.end = e /\ ~flag.decimal /\ ~flag.pound /\ ~flag.iunit
      BY <2>5, <2>6
    <3> QED
      BY <1>4, <3>1, <3>2, ReadByGmp, Zenon DEF s, p, a, w
  <2> QED
    BY <2>5, <2>6, <2>7, Zenon DEF ReadsPart, s, p
<1>10. CASE x.type = 2
  <2>1. PICK k \in Nat : WrittenFraction(w, b, k)
    BY <1>2, <1>10
  <2>2. /\ k \in (b + 1)..(Len(w) - 1) /\ w[k] = "/"
        /\ \A j \in b..(k - 1) : w[j] \in Digit
        /\ \A j \in (k + 1)..Len(w) : w[j] \in Digit
    BY <2>1 DEF WrittenFraction
  <2>2a. Len(w) = e - a /\ k \in (b + 1)..(e - a - 1)
    BY <1>5, <2>2
  <2> DEFINE c == a + k - 1
  <2>3. \A j \in q..(c - 1) : s[j] \in Digit
    <3> TAKE j \in q..(c - 1)
    <3>1. (j - a) + 1 \in b..(k - 1) /\ (j - a) + 1 \in 1..(e - a) /\ a + ((j - a) + 1) - 1 = j
      BY <1>1, <1>3, <1>7, <2>2a
    <3> QED
      BY <1>5, <2>2, <3>1
  <2>4. c \in q..(n + 1) /\ q # c /\ c <= n /\ c \in Nat /\ 1 <= c /\ c + 1 < e
    BY <1>1, <1>3, <1>7, <2>2a
  <2>5. s[c] = "/"
    <3>1. k \in 1..(e - a)
      BY <1>1, <1>3, <2>2a
    <3> QED
      BY <1>5, <2>2, <3>1
  <2>6. \A j \in (c + 1)..(e - 1) : s[j] \in Digit
    <3> TAKE j \in (c + 1)..(e - 1)
    <3>1. (j - a) + 1 \in (k + 1)..Len(w) /\ (j - a) + 1 \in 1..(e - a) /\ a + ((j - a) + 1) - 1 = j
      BY <1>1, <1>3, <1>7, <2>2a
    <3> QED
      BY <1>5, <2>2, <3>1
  <2> HIDE DEF c
  <2>7. At(s, c) = "/"
    BY <2>4, <2>5 DEF At, n
  <2>8. ReadTo(flag, s, p, c)
    <3>1. At(s, c) \in {NUL, "+", "-", "/", "i"}
      BY <2>7
    <3> QED
      BY <1>1, <2>3, <2>4, <3>1, ParseDigits, Zenon DEF n, q
  <2>9. /\ flag.valid /\ flag.end = c /\ flag.dup = s /\ ~flag.decimal /\ ~flag.pound
        /\ flag.sign = (At(s, p) \in Signs) /\ ~flag.iunit
    BY <2>4, <2>8 DEF ReadTo, q
  <2>10. Slash(flag) /\ last = ston_parse_real(s, c + 1, 10)
    BY <2>7, <2>9 DEF Slash, Last, Written
  <2>11. c + 1 \in 1..(n + 1) /\ c + 1 \in Nat /\ e \in (c + 1)..(n + 1) /\ c + 1 # e
    BY <1>1, <2>4
  <2>12. At(s, c + 1) \notin Signs
    <3>1. c + 1 \in (c + 1)..(e - 1) /\ c + 1 <= n
      BY <1>1, <2>4
    <3> QED
      BY <2>6, <3>1, DigitCharacters DEF At, n, Signs
  <2>13. ReadTo(last, s, c + 1, e)
    <3>1. Behind(s, c + 1) = c + 1
      BY <2>12 DEF Behind
    <3>2. ReadTo(ston_parse_real(s, c + 1, 10), s, c + 1, e)
      BY <1>1, <1>8a, <2>6, <2>11, <3>1, ParseDigits DEF n
    <3> QED
      BY <2>10, <3>2
  <2>14. last.valid /\ last.end = e /\ last.dup = s /\ ~last.decimal /\ ~last.sign
    BY <2>12, <2>13 DEF ReadTo
  <2>15. ~Unit(flag, last) /\ exactened(flag, PartValue(flag, last)) = x
    <3>1. Slash(flag) <=> x.type = 2
      BY <1>10, <2>10
    <3>2. last.dup = s /\ last.end = e /\ ~flag.decimal /\ ~flag.pound /\ ~flag.iunit
      BY <2>9, <2>10, <2>14
    <3> QED
      BY <1>4, <3>1, <3>2, ReadByGmp, Zenon DEF s, p, a, w
  <2> QED
    BY <2>9, <2>10, <2>14, <2>15, Zenon DEF ReadsPart, s, p
<1> QED
  BY <1>9, <1>10

\* A sign and i are read as 1 or -1.
LEMMA UnitRead ==
  ASSUME Written, NEW v \in {1, -1}, NEW flag, NEW last, NEW e \in Nat,
         flag = ston_parse_real(conv.dup, conv.ptr, conv.radix), last = Last(flag),
         e = conv.ptr + 1, e <= Len(conv.dup),
         conv.dup[conv.ptr] = (IF v = 1 THEN "+" ELSE "-"), conv.dup[e] = "i"
  PROVE  ReadsPart(flag, last, conv.dup, conv.ptr, e, Small(v))
<1> DEFINE s == conv.dup
           p == conv.ptr
           n == Len(s)
<1>1. /\ s \in Seq(Character) /\ p \in 1..(n + 1) /\ n \in Nat /\ p \in Nat /\ p <= n
      /\ e \in e..(n + 1) /\ flag = ston_parse_real(s, p, 10)
  BY DEF Written, Reading
<1>2. At(s, p) \in Signs /\ At(s, e) = "i"
  BY <1>1 DEF At, Signs
<1>3. \A j \in e..(e - 1) : s[j] \in Digit
  OBVIOUS
<1>3a. Behind(s, p) = e
  BY <1>2 DEF Behind
<1>4. ReadTo(flag, s, p, e)
  <2>1. At(s, e) \in {NUL, "+", "-", "/", "i"}
    BY <1>2
  <2> HIDE DEF s, p
  <2> QED
    BY <1>1, <1>2, <1>3, <1>3a, <2>1, ParseDigits DEF n
<1>5. /\ flag.valid /\ flag.end = e /\ flag.dup = s /\ flag.sign = (At(s, p) \in Signs) /\ flag.iunit
      /\ ~flag.pound
  BY <1>3a, <1>4 DEF ReadTo
<1>6. ~Slash(flag) /\ last = flag
  BY <1>2, <1>5 DEF Slash, Last
<1>7. Unit(flag, last)
  BY <1>2, <1>5, <1>6 DEF Unit, Imag
<1>8. PartValue(flag, last) = Small(v)
  <2>1. PartValue(flag, last) = Small(IF last.dup[conv.ptr] = "+" THEN 1 ELSE -1)
    BY <1>7, Zenon DEF PartValue
  <2>2. last.dup[conv.ptr] = "+" <=> v = 1
    BY <1>5, <1>6
  <2> QED
    BY <2>1, <2>2
<1>9. re_canonicalize(Small(v)) = Small(v)
  <2>1. v \in Int32
    BY HAssumption DEF Int32
  <2>2. Small(v) = [type |-> 0, num |-> v, den |-> 1]
    BY DEF Small, Rational
  <2>3. Lowest(v, 1) = <<v, 1>>
    BY LowestWhole
  <2>4. Big(v).type = 1 /\ Big(v).num = v
    BY DEF Big, Rational
  <2>5. re_canonicalize(Small(v))
          = LET l == Lowest(v, 1)
                z == Big(l[1])
            IN IF z.type = 1 /\ z.num \in Int32 THEN Small(z.num) ELSE z
    BY <2>2 DEF re_canonicalize, Faulty
  <2> QED
    BY <2>1, <2>3, <2>4, <2>5
<1>10. exactened(flag, PartValue(flag, last)) = Small(v)
  <2>1. ~(conv.exactness = 0 \/ (flag.pound /\ conv.exactness # 1))
    BY <1>5 DEF Written
  <2>2. exactened(flag, Small(v)) = re_canonicalize(Small(v))
    BY <2>1, Zenon DEF exactened
  <2> QED
    BY <1>8, <1>9, <2>2
<1> QED
  BY <1>2, <1>5, <1>6, <1>10, Zenon DEF ReadsPart

-----------------------------------------------------------------------------
\* Where the parts of a written number are.

\* A piece is known by its length and its characters.
LEMMA PieceIs ==
  ASSUME NEW s \in Seq(Character), NEW w \in Seq(Character),
         NEW a \in 1..(Len(s) + 1), NEW b \in (a - 1)..Len(s),
         Len(w) = b - a + 1, \A j \in 1..Len(w) : w[j] = s[a + j - 1]
  PROVE  SubSeq(s, a, b) = w
<1>1. /\ SubSeq(s, a, b) \in Seq(Character) /\ Len(SubSeq(s, a, b)) = b - a + 1
      /\ \A j \in 1..(b - a + 1) : SubSeq(s, a, b)[j] = s[a + j - 1]
  BY PieceFacts
<1>2. \A j \in 1..Len(SubSeq(s, a, b)) : SubSeq(s, a, b)[j] = w[j]
  BY <1>1
<1> QED
  BY <1>1, <1>2, SeqEqual

\* A character in front of a text.
LEMMA Prefixed ==
  ASSUME NEW c \in Character, NEW w \in Seq(Character)
  PROVE  /\ <<c>> \o w \in Seq(Character) /\ Len(<<c>> \o w) = 1 + Len(w) /\ (<<c>> \o w)[1] = c
         /\ \A j \in 1..Len(w) : (<<c>> \o w)[j + 1] = w[j]
<1> DEFINE h == <<c>>
           v == h \o w
<1>1. h \in Seq(Character) /\ Len(h) = 1 /\ h[1] = c /\ Len(w) \in Nat
  OBVIOUS
<1> HIDE DEF h
<1>2. /\ v \in Seq(Character) /\ Len(v) = Len(h) + Len(w)
      /\ \A i \in 1..(Len(h) + Len(w)) : v[i] = IF i <= Len(h) THEN h[i] ELSE w[i - Len(h)]
  <2>1. h \in Seq(Character) /\ w \in Seq(Character)
    BY <1>1
  <2> QED
    BY <2>1, ConcatProperties, Zenon
<1> HIDE DEF v
<1>3. v[1] = c /\ Len(v) = 1 + Len(w)
  BY <1>1, <1>2
<1>4. ASSUME NEW j \in 1..Len(w) PROVE v[j + 1] = w[j]
  <2>1. j + 1 \in 1..(Len(h) + Len(w)) /\ ~(j + 1 <= Len(h)) /\ (j + 1) - Len(h) = j
    BY <1>1
  <2> QED
    BY <1>2, <2>1
<1>5. /\ v \in Seq(Character) /\ Len(v) = 1 + Len(w) /\ v[1] = c
      /\ \A j \in 1..Len(w) : v[j + 1] = w[j]
  BY <1>2, <1>3, <1>4
<1> QED
  BY <1>5, Zenon DEF v, h

\* what stands in front of the i
ImText(x) ==
  CASE x = Small(1) -> <<"+">> [] x = Small(-1) -> <<"-">> [] OTHER -> ShownSigned(x)

\* The first character of a part that is written is a digit, or the minus of a negative one.
LEMMA FirstCharacter ==
  ASSUME NEW x, Good(x), x.type # 3
  PROVE  /\ Shown(x) \in Seq(Character) /\ Len(Shown(x)) \in Nat \ {0} /\ x.num \in Int
         /\ Shown(x)[1] \in Digit \cup {"-"}
         /\ Shown(x)[1] = "-" <=> x.num < 0
<1> DEFINE w == Shown(x)
           b == IF x.num < 0 THEN 2 ELSE 1
<1>1. /\ x.type # 2 => WrittenInteger(w, b)
      /\ x.type = 2 => \E k \in Nat : WrittenFraction(w, b, k)
  BY ShownFacts
<1>2. b \in {1, 2} /\ (b = 2 <=> x.num < 0)
  OBVIOUS
<1>3. x.num \in Int
  BY DEF Good, RealPart
<1> HIDE DEF w, b
<1>4. w \in Seq(Character) /\ b <= Len(w) /\ (b = 2 => w[1] = "-") /\ (b = 1 => w[1] \in Digit)
  <2>1. CASE x.type # 2
    <3>1. /\ w \in Seq(Character) /\ b <= Len(w) /\ (b = 2 => w[1] = "-")
          /\ \A j \in b..Len(w) : w[j] \in Digit
      BY <1>1, <2>1 DEF WrittenInteger
    <3>2. b = 1 => 1 \in b..Len(w)
      BY <3>1
    <3> QED
      BY <3>1, <3>2
  <2>2. CASE x.type = 2
    <3>1. PICK k \in Nat : WrittenFraction(w, b, k)
      BY <1>1, <2>2
    <3>2. /\ w \in Seq(Character) /\ k \in (b + 1)..(Len(w) - 1) /\ (b = 2 => w[1] = "-")
          /\ \A j \in b..(k - 1) : w[j] \in Digit
      BY <3>1 DEF WrittenFraction
    <3>3. b <= Len(w) /\ (b = 1 => 1 \in b..(k - 1))
      BY <1>2, <3>2
    <3> QED
      BY <3>2, <3>3
  <2> QED
    BY <2>1, <2>2
<1>5. Len(w) \in Nat \ {0}
  BY <1>2, <1>4
<1>6. w[1] \in Digit \cup {"-"} /\ (w[1] = "-" <=> x.num < 0)
  BY <1>2, <1>4, DigitCharacters
<1> QED
  BY <1>3, <1>4, <1>5, <1>6 DEF w

\* The imaginary part is written behind a sign.
LEMMA ImTextFacts ==
  ASSUME NEW x, Good(x), x.type # 3
  PROVE  /\ ImText(x) \in Seq(Character) /\ Len(ImText(x)) \in Nat \ {0}
         /\ ImText(x)[1] \in Signs
<1>1. /\ Shown(x) \in Seq(Character) /\ Len(Shown(x)) \in Nat \ {0}
      /\ Shown(x)[1] = "-" <=> x.num < 0
  BY FirstCharacter
<1>2. /\ <<"+">> \in Seq(Character) /\ Len(<<"+">>) = 1 /\ <<"+">>[1] = "+"
      /\ <<"-">> \in Seq(Character) /\ Len(<<"-">>) = 1 /\ <<"-">>[1] = "-"
  BY DEF Character
<1>3. CASE x.num < 0 /\ x \notin {Small(1), Small(-1)}
  <2>1. ImText(x) = Shown(x)
    BY <1>3 DEF ImText, ShownSigned
  <2> QED
    BY <1>1, <1>3, <2>1 DEF Signs
<1>4. CASE ~(x.num < 0) /\ x \notin {Small(1), Small(-1)}
  <2>1. ImText(x) = <<"+">> \o Shown(x)
    BY <1>4 DEF ImText, ShownSigned
  <2>2. "+" \in Character
    BY DEF Character
  <2>3. /\ <<"+">> \o Shown(x) \in Seq(Character)
        /\ Len(<<"+">> \o Shown(x)) = 1 + Len(Shown(x)) /\ (<<"+">> \o Shown(x))[1] = "+"
    BY <1>1, <2>2, Prefixed
  <2>4. 1 + Len(Shown(x)) \in Nat \ {0}
    BY <1>1
  <2> QED
    BY <2>1, <2>3, <2>4 DEF Signs
<1>5. CASE x \in {Small(1), Small(-1)}
  <2>1. Small(1) # Small(-1)
    BY DEF Small, Rational
  <2>2. CASE x = Small(1)
    <3>1. ImText(x) = <<"+">>
      BY <2>1, <2>2 DEF ImText
    <3> QED
      BY <1>2, <3>1 DEF Signs
  <2>3. CASE x = Small(-1)
    <3>1. ImText(x) = <<"-">>
      BY <2>1, <2>3 DEF ImText
    <3> QED
      BY <1>2, <3>1 DEF Signs
  <2> QED
    BY <1>5, <2>2, <2>3
<1> QED
  BY <1>3, <1>4, <1>5

\* An imaginary part is read where its text stands, up to its i.
LEMMA ImRead ==
  ASSUME Written, NEW x, Good(x), x.type # 3, NEW flag, NEW last,
         flag = ston_parse_real(conv.dup, conv.ptr, conv.radix), last = Last(flag),
         NEW e \in Nat, e = conv.ptr + Len(ImText(x)), e <= Len(conv.dup), conv.dup[e] = "i",
         \A j \in 1..Len(ImText(x)) : conv.dup[conv.ptr + j - 1] = ImText(x)[j]
  PROVE  ReadsPart(flag, last, conv.dup, conv.ptr, e, x) /\ At(conv.dup, conv.ptr) \in Signs
<1> DEFINE s == conv.dup
           p == conv.ptr
           n == Len(s)
           m == ImText(x)
           w == Shown(x)
<1>1. /\ s \in Seq(Character) /\ p \in Nat /\ 1 <= p /\ n \in Nat
  BY DEF Written, Reading
<1>2. m \in Seq(Character) /\ Len(m) \in Nat \ {0} /\ m[1] \in Signs
  BY ImTextFacts
<1>3. /\ w \in Seq(Character) /\ Len(w) \in Nat \ {0} /\ x.num \in Int
      /\ w[1] = "-" <=> x.num < 0
  BY FirstCharacter
<1>4. s[p] = m[1] /\ p <= n
  <2>1. 1 \in 1..Len(m) /\ p + 1 - 1 = p
    BY <1>1, <1>2
  <2>2. s[p] = m[1]
    BY <2>1, Zenon
  <2>3. p <= n
    <3>1. e = p + Len(m) /\ e <= n
      OBVIOUS
    <3> HIDE DEF m, n, p
    <3> QED
      BY <1>1, <1>2, <3>1
  <2> QED
    BY <2>2, <2>3
<1>5. At(s, p) \in Signs
  BY <1>2, <1>4 DEF At
<1>6. At(s, e) = "i" /\ At(s, e) \in {NUL, "+", "-", "i"}
  BY DEF At
<1>7. CASE x \in {Small(1), Small(-1)}
  <2>1. PICK v \in {1, -1} : x = Small(v)
    BY <1>7
  <2>2. Small(1) # Small(-1)
    BY DEF Small, Rational
  <2>3. m = <<IF v = 1 THEN "+" ELSE "-">>
    BY <2>1, <2>2 DEF ImText
  <2>4. Len(m) = 1 /\ m[1] = IF v = 1 THEN "+" ELSE "-"
    BY <2>3
  <2>5. e = p + 1
    BY <2>4
  <2>6. s[p] = IF v = 1 THEN "+" ELSE "-"
    BY <1>4, <2>4
  <2>7. ReadsPart(flag, last, s, p, e, Small(v))
    BY <2>5, <2>6, UnitRead
  <2> QED
    BY <1>5, <2>1, <2>7
<1>8. CASE x \notin {Small(1), Small(-1)}
  <2> DEFINE a == From(s, p)
  <2>1. m = IF x.num < 0 THEN w ELSE <<"+">> \o w
    BY <1>8 DEF ImText, ShownSigned
  <2>2. /\ a = (IF x.num < 0 THEN p ELSE p + 1) /\ e = a + Len(w)
        /\ \A j \in 1..Len(w) : w[j] = s[a + j - 1]
        /\ s[p] = "+" => ~(x.num < 0)
    <3>1. CASE x.num < 0
      <4>1. m = w
        BY <2>1, <3>1
      <4>2. s[p] = "-"
        BY <1>3, <1>4, <3>1, <4>1
      <4>3. a = p
        BY <4>2 DEF From
      <4> QED
        BY <3>1, <4>1, <4>2, <4>3
    <3>2. CASE ~(x.num < 0)
      <4> DEFINE v == <<"+">> \o w
      <4>1. m = v
        BY <2>1, <3>2
      <4>2. "+" \in Character
        BY DEF Character
      <4>3. /\ v \in Seq(Character) /\ Len(v) = 1 + Len(w) /\ v[1] = "+"
            /\ \A j \in 1..Len(w) : v[j + 1] = w[j]
        BY <1>3, <4>2, Prefixed
      <4> HIDE DEF v, w
      <4>4. Len(m) = 1 + Len(w) /\ m[1] = "+" /\ \A j \in 1..Len(w) : m[j + 1] = w[j]
        BY <4>1, <4>3
      <4>5. s[p] = "+"
        BY <1>4, <4>4
      <4>6. a = p + 1
        BY <4>5 DEF From
      <4>7. e = p + Len(m) /\ \A j \in 1..Len(m) : s[p + j - 1] = m[j]
        OBVIOUS
      <4> HIDE DEF a, m, s, p
      <4>8. ASSUME NEW j \in 1..Len(w) PROVE w[j] = s[a + j - 1]
        <5>1. j + 1 \in 1..Len(m) /\ p + (j + 1) - 1 = a + j - 1
          BY <1>1, <1>3, <4>4, <4>6
        <5>2. s[p + (j + 1) - 1] = m[j + 1]
          BY <4>7, <5>1
        <5> QED
          BY <4>4, <5>1, <5>2
      <4>9. e = a + Len(w)
        BY <1>1, <1>3, <4>4, <4>6, <4>7
      <4> QED
        BY <3>2, <4>6, <4>8, <4>9
    <3> QED
      BY <3>1, <3>2
  <2>2a. e <= n
    OBVIOUS
  <2> HIDE DEF a, w, n, m
  <2>3. a \in 1..(n + 1) /\ e - 1 \in (a - 1)..n /\ Len(w) = (e - 1) - a + 1 /\ a <= e /\ e <= n + 1
    <3>1. a = p \/ a = p + 1
      BY <2>2
    <3>2. e = a + Len(w)
      BY <2>2
    <3>3. a \in Nat /\ 1 <= a
      <4> HIDE DEF p
      <4> QED
        BY <1>1, <3>1
    <3> DEFINE l == Len(w)
    <3>4. l \in Nat \ {0} /\ e = a + l /\ e <= n /\ n \in Nat /\ Len(w) = l
      BY <1>1, <1>3, <2>2a, <3>2
    <3> HIDE DEF l
    <3>5. a \in 1..(n + 1) /\ a <= e /\ e <= n + 1
      BY <3>3, <3>4
    <3>6. e - 1 \in (a - 1)..n /\ l = (e - 1) - a + 1
      BY <3>3, <3>4
    <3> QED
      BY <3>4, <3>5, <3>6
  <2>4. SubSeq(s, a, e - 1) = w
    BY <1>1, <1>3, <2>2, <2>3, PieceIs DEF n
  <2>5. ReadsPart(flag, last, s, p, e, x)
    BY <1>4, <1>6, <2>2, <2>3, <2>4, RealRead, Zenon DEF a, w, n
  <2> QED
    BY <1>5, <2>5
<1> QED
  BY <1>7, <1>8

-----------------------------------------------------------------------------
\* The text of a number: its parts one behind the other.
Parts(s, r, m) ==
  /\ s \in Seq(Character) /\ Len(s) = Len(r) + Len(m) + 1
  /\ \A j \in 1..Len(r) : s[j] = r[j]
  /\ \A j \in 1..Len(m) : s[Len(r) + j] = m[j]
  /\ s[Len(s)] = "i"

\* The real part and the imaginary part are pieces of what is written.
LEMMA Joined ==
  ASSUME NEW r \in Seq(Character), NEW m \in Seq(Character)
  PROVE  Parts(r \o m \o <<"i">>, r, m)
<1> DEFINE v == r \o m
           s == v \o <<"i">>
<1>1. <<"i">> \in Seq(Character) /\ Len(<<"i">>) = 1 /\ <<"i">>[1] = "i"
  BY DEF Character
<1>2. /\ v \in Seq(Character) /\ Len(v) = Len(r) + Len(m)
      /\ \A i \in 1..(Len(r) + Len(m)) : v[i] = IF i <= Len(r) THEN r[i] ELSE m[i - Len(r)]
  BY ConcatProperties, Zenon
<1> HIDE DEF v
<1>3. /\ s \in Seq(Character) /\ Len(s) = Len(v) + Len(<<"i">>)
      /\ \A i \in 1..(Len(v) + Len(<<"i">>)) : s[i] = IF i <= Len(v) THEN v[i] ELSE <<"i">>[i - Len(v)]
  <2>1. v \in Seq(Character) /\ <<"i">> \in Seq(Character)
    BY <1>1, <1>2
  <2> QED
    BY <2>1, ConcatProperties, Zenon
<1> HIDE DEF s
<1>4. Len(r) \in Nat /\ Len(m) \in Nat
  OBVIOUS
<1>5. Len(s) = Len(r) + Len(m) + 1
  BY <1>1, <1>2, <1>3, <1>4
<1>6. \A j \in 1..Len(r) : s[j] = r[j]
  <2> TAKE j \in 1..Len(r)
  <2>1. j \in 1..(Len(r) + Len(m)) /\ j <= Len(r) /\ j <= Len(v) /\ j \in 1..(Len(v) + Len(<<"i">>))
    BY <1>1, <1>2, <1>4
  <2> QED
    BY <1>2, <1>3, <2>1
<1>7. \A j \in 1..Len(m) : s[Len(r) + j] = m[j]
  <2> TAKE j \in 1..Len(m)
  <2> DEFINE k == Len(r) + j
  <2>1. k \in 1..(Len(r) + Len(m)) /\ ~(k <= Len(r)) /\ k <= Len(v) /\ k - Len(r) = j
        /\ k \in 1..(Len(v) + Len(<<"i">>))
    BY <1>1, <1>2, <1>4
  <2> HIDE DEF k
  <2>2. s[k] = m[j]
    BY <1>2, <1>3, <2>1
  <2> QED
    BY <2>2 DEF k
<1>8. s[Len(s)] = "i"
  <2>1. Len(s) \in 1..(Len(v) + Len(<<"i">>)) /\ ~(Len(s) <= Len(v)) /\ Len(s) - Len(v) = 1
    BY <1>1, <1>2, <1>4, <1>5
  <2> QED
    BY <1>1, <1>3, <2>1
<1> QED
  BY <1>3, <1>5, <1>6, <1>7, <1>8 DEF Parts, s, v

-----------------------------------------------------------------------------
\* A number that is written and read again.

\* what has been read of z, from the first character on, or behind its real part
AtFirst(z) == conv.ptr = 1 /\ conv.allowre /\ conv.val = new_number(0)

AtImag(z) ==
  /\ is_complex(z) /\ z.re # Small(0)
  /\ conv.ptr = Len(Shown(z.re)) + 1
  /\ conv.val = Complex(z.re, Small(0))

Again(z) ==
  /\ Kept(z) /\ IsExact(z)
  /\ conv.exactness = -1
  /\ conv.pc \in {"prefix", "part", "done"}
  /\ conv.pc = "prefix" => AtFirst(z) /\ conv.radix = -1 /\ conv.defradix = 10
  /\ conv.pc = "part" => (AtFirst(z) \/ AtImag(z)) /\ conv.radix = 10
  /\ conv.pc \in {"prefix", "part"} => conv.dup = ntos(z) /\ conv.allowim
  /\ conv.pc = "done" => conv.out = "number" /\ conv.val = z

ReadAgain == \A z \in ComplexNumber : conv.printed # <<>> /\ z = conv.printed[1] => Again(z)

\* What a part that is stored leaves.
LEMMA StoredFields ==
  ASSUME conv \in Conversion, NEW last, NEW x, Store(last, x)
  PROVE  /\ conv'.dup = last.dup /\ conv'.ptr = Rest(last)
         /\ conv'.printed = conv.printed /\ conv'.exactness = conv.exactness
         /\ conv'.radix = conv.radix
         /\ conv.allowim /\ ~Imag(last) => conv'.allowim
         /\ Imag(last) => conv'.val = Complex(conv.val.re, x)
         /\ ~Imag(last) => conv'.val = Complex(x, conv.val.im)
         /\ At(last.dup, Rest(last)) = NUL => conv'.pc = "done" /\ conv'.out = "number"
         /\ At(last.dup, Rest(last)) # NUL => conv'.pc = "part"
<1> DEFINE over == At(last.dup, Rest(last)) = NUL
           v == IF Imag(last) THEN Complex(conv.val.re, x) ELSE Complex(x, conv.val.im)
           a == conv.allowim /\ ~Imag(last)
           b == conv.allowre /\ Imag(last)
           st == IF over THEN "done" ELSE "part"
           ou == IF over THEN "number" ELSE "none"
<1>1. conv' = [conv EXCEPT !.dup = last.dup, !.ptr = Rest(last), !.allowim = a, !.allowre = b,
                           !.val = v, !.pc = st, !.out = ou]
  BY Zenon DEF Store
<1>2. /\ conv.allowim /\ ~Imag(last) => a
      /\ Imag(last) => v = Complex(conv.val.re, x)
      /\ ~Imag(last) => v = Complex(x, conv.val.im)
      /\ over => st = "done" /\ ou = "number"
      /\ ~over => st = "part"
      /\ a \in BOOLEAN /\ b \in BOOLEAN
  OBVIOUS
<1> HIDE DEF v, a, b, st, ou
<1>3. /\ conv'.dup = last.dup /\ conv'.ptr = Rest(last)
      /\ conv'.printed = conv.printed /\ conv'.exactness = conv.exactness
      /\ conv'.radix = conv.radix
      /\ conv'.val = v /\ conv'.pc = st /\ conv'.out = ou
  BY <1>1 DEF Conversion
<1>4. conv'.allowim = a
  BY <1>1, <1>2 DEF Conversion
<1> QED
  BY <1>2, <1>3, <1>4, Zenon

\* A part that can be read is stored.
LEMMA ReadIsStored ==
  ASSUME NEW x, Good(x), NEW flag, NEW last, NEW e, NEW p,
         ReadsPart(flag, last, conv.dup, p, e, x),
         ReadPart(flag, last, exactened(flag, PartValue(flag, last))),
         PartMissing(At(conv.dup, e)),
         At(conv.dup, e) = "i" => At(conv.dup, p) \in Signs
  PROVE  Store(last, x)
<1>1. /\ flag.valid /\ (Slash(flag) => last.valid /\ ~flag.decimal /\ ~last.sign /\ ~last.decimal)
      /\ last.dup = conv.dup /\ last.end = e /\ (Unit(flag, last) => flag.sign)
      /\ exactened(flag, PartValue(flag, last)) = x
  BY Zenon DEF ReadsPart
<1>2. flag.sign = (At(conv.dup, p) \in Signs)
  BY Zenon DEF ReadsPart
<1>3. PartMissing(At(last.dup, last.end))
  BY <1>1
<1>4. Parsed(flag, last)
  BY <1>1, <1>3, Zenon DEF Parsed
<1>5. Imag(last) => flag.sign
  BY <1>1, <1>2 DEF Imag
<1>6. x # Trap /\ x # RangeError
  BY DEF Good, Trap, RangeError, Rational
<1>7. ReadPart(flag, last, x)
  BY <1>1
<1> QED
  BY <1>4, <1>5, <1>6, <1>7, Zenon DEF ReadPart

\* The two parts of a number are all of it.
LEMMA TwoParts ==
  ASSUME NEW z, Kept(z)
  PROVE  /\ z = Complex(z.re, z.im) /\ Good(z.re) /\ Good(z.im)
         /\ \A x, y : Complex(x, y).re = x /\ Complex(x, y).im = y
BY DEF Kept, ComplexNumber, Complex

\* The text of a number, by its parts.
LEMMA WrittenText ==
  ASSUME NEW z, Kept(z), IsExact(z)
  PROVE  /\ ntos(z) \in Seq(Character)
         /\ ~is_complex(z) => ntos(z) = Shown(z.re)
         /\ is_complex(z) /\ z.re = Small(0) => Parts(ntos(z), <<>>, ImText(z.im))
         /\ is_complex(z) /\ z.re # Small(0) => Parts(ntos(z), Shown(z.re), ImText(z.im))
<1> DEFINE re == IF is_complex(z) /\ z.re = Small(0) THEN <<>> ELSE Shown(z.re)
           im == ImText(z.im)
<1>1. z \in ComplexNumber /\ Good(z.re) /\ Good(z.im) /\ z.re.type # 3 /\ z.im.type # 3
  BY DEF Kept, IsExact
<1>2. ntos(z) = IF is_complex(z) THEN re \o im \o <<"i">> ELSE re
  BY Zenon DEF ntos, ImText
<1>3. re \in Seq(Character) /\ im \in Seq(Character)
  <2>1. <<>> \in Seq(Character)
    OBVIOUS
  <2> QED
    BY <1>1, <2>1, FirstCharacter, ImTextFacts
<1>4. ntos(z) \in Seq(Character)
  BY <1>1, NtosType
<1>5. /\ is_complex(z) /\ z.re = Small(0) => re = <<>>
      /\ ~(is_complex(z) /\ z.re = Small(0)) => re = Shown(z.re)
  OBVIOUS
<1> HIDE DEF re, im
<1>6. Parts(re \o im \o <<"i">>, re, im)
  BY <1>3, Joined
<1>7. is_complex(z) => Parts(ntos(z), re, im)
  BY <1>2, <1>6, Zenon
<1>8. ~is_complex(z) => ntos(z) = re
  BY <1>2, Zenon
<1> QED
  BY <1>4, <1>5, <1>7, <1>8, Zenon DEF im

\* It does not begin with a prefix.
LEMMA NoPrefix ==
  ASSUME NEW z, Kept(z), IsExact(z)
  PROVE  At(ntos(z), 1) # "#"
<1> DEFINE s == ntos(z)
<1>1. Good(z.re) /\ Good(z.im) /\ z.re.type # 3 /\ z.im.type # 3
  BY DEF Kept, IsExact
<1>2. "#" \notin Digit \cup Signs /\ NUL # "#"
  BY DigitCharacters DEF Signs, NUL
<1>3. /\ s \in Seq(Character)
      /\ ~is_complex(z) => s = Shown(z.re)
      /\ is_complex(z) /\ z.re = Small(0) => Parts(s, <<>>, ImText(z.im))
      /\ is_complex(z) /\ z.re # Small(0) => Parts(s, Shown(z.re), ImText(z.im))
  BY WrittenText
<1>4. /\ Len(Shown(z.re)) \in Nat \ {0} /\ Shown(z.re)[1] \in Digit \cup {"-"}
      /\ Len(ImText(z.im)) \in Nat \ {0} /\ ImText(z.im)[1] \in Signs
  BY <1>1, FirstCharacter, ImTextFacts
<1> HIDE DEF s
<1>5. s[1] \in Digit \cup Signs
  <2>1. CASE ~is_complex(z)
    BY <1>3, <1>4, <2>1 DEF Signs
  <2>2. CASE is_complex(z) /\ z.re = Small(0)
    <3>1. \A j \in 1..Len(ImText(z.im)) : s[Len(<<>>) + j] = ImText(z.im)[j]
      BY <1>3, <2>2 DEF Parts
    <3>2. 1 \in 1..Len(ImText(z.im)) /\ Len(<<>>) + 1 = 1
      BY <1>4
    <3> QED
      BY <1>4, <3>1, <3>2
  <2>3. CASE is_complex(z) /\ z.re # Small(0)
    <3>1. \A j \in 1..Len(Shown(z.re)) : s[j] = Shown(z.re)[j]
      BY <1>3, <2>3 DEF Parts
    <3>2. 1 \in 1..Len(Shown(z.re))
      BY <1>4
    <3> QED
      BY <1>4, <3>1, <3>2 DEF Signs
  <2> QED
    BY <2>1, <2>2, <2>3
<1> QED
  BY <1>2, <1>5 DEF At, s

\* the last part has been read
Complete(z) ==
  conv'.pc = "done" /\ conv'.out = "number" /\ conv'.val = z /\ conv'.exactness = conv.exactness

\* Once it is complete, what was read again stays the same number.
LEMMA CompleteAgain ==
  ASSUME NEW z, Again(z), Complete(z)
  PROVE  Again(z)'
BY DEF Again, Complete

\* The whole of a number that is not complex is read.
LEMMA RealAgain ==
  ASSUME NEW z, Kept(z), IsExact(z), ~is_complex(z), conv \in Conversion, Written,
         conv.dup = ntos(z), AtFirst(z), NEW flag, NEW last,
         flag = ston_parse_real(conv.dup, conv.ptr, conv.radix), last = Last(flag),
         ReadPart(flag, last, exactened(flag, PartValue(flag, last)))
  PROVE  Complete(z)
<1> DEFINE s == conv.dup
           x == z.re
           e == Len(s) + 1
<1>1. /\ s \in Seq(Character) /\ s = Shown(x) /\ Good(x) /\ x.type # 3 /\ conv.ptr = 1
      /\ conv.allowre /\ conv.val = new_number(0)
  BY WrittenText DEF Kept, IsExact, AtFirst
<1>2. Len(s) \in Nat \ {0} /\ s[1] \in Digit \cup {"-"}
  BY <1>1, FirstCharacter
<1>3. s[1] # "+"
  BY <1>2, DigitCharacters
<1>4. From(s, 1) = 1
  BY <1>3 DEF From
<1>5. SubSeq(s, 1, e - 1) = Shown(x)
  <2>1. e - 1 = Len(s)
    BY <1>2
  <2> QED
    BY <1>1, <2>1, SubSeqFull
<1>6. At(s, e) = NUL
  BY <1>2 DEF At
<1> HIDE DEF s, x, e
<1>7. ReadsPart(flag, last, s, 1, e, x)
  <2>1. e \in Nat /\ 1 <= e /\ e <= Len(s) + 1 /\ 1 <= Len(s)
    BY <1>2 DEF e
  <2>2. At(s, e) \in {NUL, "+", "-", "i"} /\ (s[1] = "+" => ~(x.num < 0))
    BY <1>3, <1>6
  <2>3. From(s, 1) <= e
    BY <1>4, <2>1
  <2>4. SubSeq(s, From(s, 1), e - 1) = Shown(x)
    BY <1>4, <1>5
  <2>5. flag = ston_parse_real(s, 1, conv.radix)
    BY <1>1 DEF s
  <2> QED
    BY <1>1, <2>1, <2>2, <2>3, <2>4, <2>5, RealRead DEF s
<1>8. Store(last, x)
  <2>1. PartMissing(At(s, e)) /\ At(s, e) # "i"
    BY <1>1, <1>6 DEF PartMissing, NUL
  <2> QED
    BY <1>1, <1>7, <2>1, ReadIsStored DEF s
<1>9. last.dup = s /\ last.end = e
  BY <1>7, Zenon DEF ReadsPart
<1>10. ~Imag(last) /\ Rest(last) = e
  BY <1>6, <1>9 DEF Imag, Rest, NUL
<1>11. At(last.dup, Rest(last)) = NUL
  BY <1>6, <1>9, <1>10
<1>12. /\ conv'.pc = "done" /\ conv'.out = "number" /\ conv'.exactness = conv.exactness
       /\ conv'.val = Complex(x, conv.val.im)
  BY <1>8, <1>10, <1>11, StoredFields
<1>13. conv.val.im = Small(0) /\ z.im = Small(0)
  BY <1>1 DEF new_number, Complex, is_complex
<1>14. z = Complex(z.re, z.im)
  BY TwoParts
<1> QED
  BY <1>12, <1>13, <1>14 DEF Complete, x

\* An imaginary part is read where it stands.
LEMMA ImagAgain ==
  ASSUME NEW z, Kept(z), IsExact(z), conv \in Conversion, Written,
         NEW r \in Seq(Character), Parts(conv.dup, r, ImText(z.im)), conv.ptr = Len(r) + 1,
         conv.allowim, conv.val.re = z.re, NEW flag, NEW last,
         flag = ston_parse_real(conv.dup, conv.ptr, conv.radix), last = Last(flag),
         ReadPart(flag, last, exactened(flag, PartValue(flag, last)))
  PROVE  Complete(z)
<1> DEFINE s == conv.dup
           x == z.im
           m == ImText(x)
           p == conv.ptr
           e == p + Len(m)
<1>1. Good(x) /\ x.type # 3
  BY DEF Kept, IsExact
<1>2. m \in Seq(Character) /\ Len(m) \in Nat \ {0} /\ m[1] \in Signs
  BY <1>1, ImTextFacts
<1>3. /\ s \in Seq(Character) /\ Len(s) = Len(r) + Len(m) + 1
      /\ \A j \in 1..Len(m) : s[Len(r) + j] = m[j]
      /\ s[Len(s)] = "i"
  BY DEF Parts
<1>4. Len(r) \in Nat /\ p = Len(r) + 1
  OBVIOUS
<1> HIDE DEF m
<1>5. e \in Nat /\ e = Len(s)
  BY <1>2, <1>3, <1>4
<1>6. \A j \in 1..Len(m) : s[p + j - 1] = m[j]
  <2> TAKE j \in 1..Len(m)
  <2>1. p + j - 1 = Len(r) + j
    BY <1>2, <1>4
  <2> QED
    BY <1>3, <2>1
<1>7. e <= Len(s) /\ s[e] = "i"
  BY <1>3, <1>5
<1> HIDE DEF e
<1>8. ReadsPart(flag, last, s, p, e, x) /\ At(s, p) \in Signs
  <2>1. e = p + Len(ImText(x))
    BY DEF e, m
  <2> QED
    BY <1>1, <1>5, <1>6, <1>7, <2>1, ImRead, Zenon DEF m
<1>9. At(s, e) = "i"
  BY <1>7 DEF At
<1>10. Store(last, x)
  <2>1. PartMissing(At(s, e))
    BY <1>9 DEF PartMissing
  <2> QED
    BY <1>1, <1>8, <1>9, <2>1, ReadIsStored
<1>11. last.dup = s /\ last.end = e
  BY <1>8, Zenon DEF ReadsPart
<1>12. Imag(last) /\ Rest(last) = e + 1
  BY <1>9, <1>11 DEF Imag, Rest
<1>13. At(last.dup, Rest(last)) = NUL
  <2>1. ~(e + 1 <= Len(s))
    BY <1>5
  <2> QED
    BY <1>11, <1>12, <2>1 DEF At
<1>14. /\ conv'.pc = "done" /\ conv'.out = "number" /\ conv'.exactness = conv.exactness
       /\ conv'.val = Complex(conv.val.re, x)
  BY <1>10, <1>12, <1>13, StoredFields
<1>15. z = Complex(z.re, z.im)
  BY TwoParts
<1> QED
  BY <1>14, <1>15 DEF Complete

\* A real part other than 0 is read in front of the imaginary part.
LEMMA RePartAgain ==
  ASSUME NEW z, Again(z), is_complex(z), z.re # Small(0), conv \in Conversion, Written,
         conv.pc = "part", AtFirst(z), NEW flag, NEW last,
         flag = ston_parse_real(conv.dup, conv.ptr, conv.radix), last = Last(flag),
         ReadPart(flag, last, exactened(flag, PartValue(flag, last)))
  PROVE  Again(z)' /\ conv'.printed = conv.printed
<1> DEFINE s == conv.dup
           x == z.re
           r == Shown(x)
           m == ImText(z.im)
           e == Len(r) + 1
<1>1. /\ Kept(z) /\ IsExact(z) /\ conv.dup = ntos(z) /\ conv.allowim /\ conv.ptr = 1
      /\ conv.allowre /\ conv.val = new_number(0) /\ conv.exactness = -1 /\ conv.radix = 10
      /\ x.type # 3 /\ z.im.type # 3 /\ Good(x) /\ Good(z.im)
  BY DEF Again, AtFirst, Kept, IsExact
<1>2. Parts(s, r, m)
  BY <1>1, WrittenText
<1>3. /\ r \in Seq(Character) /\ Len(r) \in Nat \ {0} /\ r[1] \in Digit \cup {"-"}
      /\ Len(m) \in Nat \ {0} /\ m[1] \in Signs
  BY <1>1, FirstCharacter, ImTextFacts
<1>4. /\ s \in Seq(Character) /\ Len(s) = Len(r) + Len(m) + 1
      /\ \A j \in 1..Len(r) : s[j] = r[j]
      /\ \A j \in 1..Len(m) : s[Len(r) + j] = m[j]
  BY <1>2 DEF Parts
<1> HIDE DEF s, x, r, m
<1>5. e \in Nat /\ 1 <= e /\ e <= Len(s) /\ e <= Len(s) + 1 /\ 1 <= Len(s)
  BY <1>3, <1>4
<1>6. At(s, e) \in Signs
  <2>1. 1 \in 1..Len(m)
    BY <1>3
  <2>2. s[e] = m[1]
    BY <1>4, <2>1
  <2> QED
    BY <1>3, <1>5, <2>2 DEF At
<1>7. s[1] # "+"
  <2>1. 1 \in 1..Len(r)
    BY <1>3
  <2> QED
    BY <1>3, <1>4, <2>1, DigitCharacters
<1>8. From(s, 1) = 1
  BY <1>7 DEF From
<1>9. SubSeq(s, 1, e - 1) = r
  <2>1. 1 \in 1..(Len(s) + 1) /\ e - 1 \in (1 - 1)..Len(s) /\ Len(r) = (e - 1) - 1 + 1
    BY <1>3, <1>5
  <2>2. \A j \in 1..Len(r) : r[j] = s[1 + j - 1]
    <3> TAKE j \in 1..Len(r)
    <3>1. 1 + j - 1 = j
      BY <1>3
    <3> QED
      BY <1>4, <3>1
  <2> HIDE DEF e
  <2> QED
    BY <1>3, <1>4, <2>1, <2>2, PieceIs
<1> HIDE DEF e
<1>10. ReadsPart(flag, last, s, 1, e, x)
  <2>1. At(s, e) \in {NUL, "+", "-", "i"} /\ (s[1] = "+" => ~(x.num < 0))
    BY <1>6, <1>7 DEF Signs
  <2>2. From(s, 1) <= e
    BY <1>5, <1>8
  <2>3. SubSeq(s, From(s, 1), e - 1) = Shown(x)
    BY <1>8, <1>9 DEF r
  <2>4. flag = ston_parse_real(s, 1, conv.radix)
    BY <1>1 DEF s
  <2> QED
    BY <1>1, <1>5, <2>1, <2>2, <2>3, <2>4, RealRead DEF s
<1>11. At(s, e) # "i" /\ At(s, e) # NUL
  BY <1>6 DEF Signs, NUL
<1>12. Store(last, x)
  <2>1. PartMissing(At(s, e))
    BY <1>1, <1>11 DEF PartMissing
  <2> QED
    BY <1>1, <1>10, <1>11, <2>1, ReadIsStored DEF s
<1>13. last.dup = s /\ last.end = e
  BY <1>10, Zenon DEF ReadsPart
<1>14. ~Imag(last) /\ Rest(last) = e
  BY <1>11, <1>13 DEF Imag, Rest
<1>15. At(last.dup, Rest(last)) # NUL
  BY <1>11, <1>13, <1>14
<1>16. /\ conv'.pc = "part" /\ conv'.exactness = conv.exactness /\ conv'.radix = conv.radix
       /\ conv'.dup = last.dup /\ conv'.ptr = Rest(last) /\ conv'.printed = conv.printed
       /\ conv'.val = Complex(x, conv.val.im) /\ conv'.allowim
  BY <1>1, <1>12, <1>14, <1>15, StoredFields
<1>17. conv.val.im = Small(0)
  BY <1>1 DEF new_number, Complex
<1>18. AtImag(z)'
  <2>1. conv'.ptr = Len(Shown(z.re)) + 1
    BY <1>14, <1>16 DEF e, r, x
  <2>2. conv'.val = Complex(z.re, Small(0))
    BY <1>16, <1>17 DEF x
  <2> QED
    BY <2>1, <2>2 DEF AtImag
<1>19. conv'.dup = ntos(z)
  BY <1>1, <1>13, <1>16 DEF s
<1> QED
  BY <1>1, <1>16, <1>18, <1>19 DEF Again

\* The parts of a written number, whichever comes next.
LEMMA PartAgain ==
  ASSUME ConvTypes, ReadAgain, Part
  PROVE  ReadAgain'
<1> DEFINE flag == ston_parse_real(conv.dup, conv.ptr, conv.radix)
           last == Last(flag)
           x == exactened(flag, PartValue(flag, last))
<1>1. conv.pc = "part" /\ ReadPart(flag, last, x)
  BY DEF Part
<1>2. conv \in Conversion
  BY DEF ConvTypes
<1>3. Reading
  BY <1>1 DEF Reading, ConvTypes, Conversion
<1> HIDE DEF flag, last
<1>4. conv'.printed = conv.printed
  <2>1. ASSUME NEW out, Finish(out) PROVE conv'.printed = conv.printed
    BY <1>2, <2>1 DEF Finish, Conversion
  <2>2. ASSUME Store(last, x) PROVE conv'.printed = conv.printed
    BY <1>2, <2>2, StoredFields
  <2> HIDE DEF x
  <2> QED
    BY <1>1, <2>1, <2>2 DEF ReadPart
<1> SUFFICES ASSUME NEW z \in ComplexNumber, conv.printed # <<>>, z = conv.printed[1]
             PROVE  Again(z)'
  BY <1>4 DEF ReadAgain
<1>5. Again(z)
  BY DEF ReadAgain
<1>6. /\ Kept(z) /\ IsExact(z) /\ conv.exactness = -1 /\ conv.radix = 10
      /\ AtFirst(z) \/ AtImag(z)
      /\ conv.dup = ntos(z) /\ conv.allowim
  BY <1>1, <1>5 DEF Again
<1>7. Written
  BY <1>3, <1>6 DEF Written
<1>8. flag = ston_parse_real(conv.dup, conv.ptr, conv.radix) /\ last = Last(flag)
  BY Zenon DEF flag, last
<1>9. ReadPart(flag, last, exactened(flag, PartValue(flag, last)))
  BY <1>1
<1> HIDE DEF x
<1>10. CASE AtFirst(z) /\ ~is_complex(z)
  <2>1. Complete(z)
    BY <1>2, <1>6, <1>7, <1>8, <1>9, <1>10, RealAgain, Zenon
  <2> QED
    BY <1>5, <2>1, CompleteAgain
<1>11. CASE AtFirst(z) /\ is_complex(z) /\ z.re = Small(0)
  <2>1. Parts(conv.dup, <<>>, ImText(z.im))
    BY <1>6, <1>11, WrittenText
  <2>2. conv.ptr = Len(<<>>) + 1 /\ conv.val.re = z.re /\ <<>> \in Seq(Character)
    BY <1>11 DEF AtFirst, new_number, Complex
  <2>3. Complete(z)
    BY <1>2, <1>6, <1>7, <1>8, <1>9, <2>1, <2>2, ImagAgain, Zenon
  <2> QED
    BY <1>5, <2>3, CompleteAgain
<1>12. CASE AtFirst(z) /\ is_complex(z) /\ z.re # Small(0)
  BY <1>1, <1>2, <1>5, <1>7, <1>8, <1>9, <1>12, RePartAgain, Zenon
<1>13. CASE AtImag(z)
  <2>1. Parts(conv.dup, Shown(z.re), ImText(z.im))
    BY <1>6, <1>13, WrittenText DEF AtImag
  <2>2. conv.ptr = Len(Shown(z.re)) + 1 /\ conv.val.re = z.re
    BY <1>13 DEF AtImag, Complex
  <2>3. Shown(z.re) \in Seq(Character)
    BY <1>6, FirstCharacter DEF Kept, IsExact
  <2>4. Complete(z)
    BY <1>2, <1>6, <1>7, <1>8, <1>9, <2>1, <2>2, <2>3, ImagAgain, Zenon
  <2> QED
    BY <1>5, <2>4, CompleteAgain
<1> QED
  BY <1>6, <1>10, <1>11, <1>12, <1>13

\* The other steps of a conversion.
LEMMA ConvertAgain ==
  ASSUME ConvTypes, ReadAgain, Convert
  PROVE  ReadAgain'
<1>1. conv \in Conversion
  BY DEF ConvTypes
<1>2. CASE Part
  BY <1>2, PartAgain
<1>3. CASE Prefix
  <2>1. conv.pc = "prefix" /\ At(conv.dup, conv.ptr) = "#"
    BY <1>3 DEF Prefix
  <2>2. conv.printed = <<>>
    <3> SUFFICES ASSUME conv.printed # <<>> PROVE FALSE
      OBVIOUS
    <3> DEFINE z == conv.printed[1]
    <3>1. z \in ComplexNumber
      BY <1>1 DEF Conversion
    <3>2. Again(z)
      BY <3>1 DEF ReadAgain
    <3> HIDE DEF z
    <3>3. Kept(z) /\ IsExact(z) /\ conv.dup = ntos(z) /\ conv.ptr = 1
      BY <2>1, <3>2 DEF Again, AtFirst
    <3> QED
      BY <2>1, <3>3, NoPrefix
  <2>3. conv'.printed = conv.printed
    <3> DEFINE new == [conv EXCEPT !.ptr = @ + 2]
    <3>1. DOMAIN new = DOMAIN conv /\ new.printed = conv.printed
      BY <1>1 DEF Conversion
    <3>2. \/ \E k : conv' = [new EXCEPT !.exactness = k]
          \/ \E k : conv' = [new EXCEPT !.radix = k]
          \/ Finish("false")
      BY <1>3, Zenon DEF Prefix
    <3>3. "printed" \in DOMAIN conv
      BY <1>1 DEF Conversion
    <3> HIDE DEF new
    <3> QED
      BY <3>1, <3>2, <3>3 DEF Finish
  <2> QED
    BY <2>2, <2>3 DEF ReadAgain
<1>4. CASE PrefixEnd
  <2>1. PICK k : conv' = [conv EXCEPT !.pc = "part", !.radix = k]
                 /\ k = IF conv.radix = -1 THEN conv.defradix ELSE conv.radix
    BY <1>4 DEF PrefixEnd
  <2>2. /\ conv'.pc = "part" /\ conv'.radix = k
        /\ conv'.printed = conv.printed /\ conv'.ptr = conv.ptr /\ conv'.dup = conv.dup
        /\ conv'.val = conv.val /\ conv'.exactness = conv.exactness
    BY <1>1, <2>1 DEF Conversion
  <2>3. conv'.allowre = conv.allowre /\ conv'.allowim = conv.allowim
    BY <1>1, <2>1 DEF Conversion
  <2>4. ASSUME NEW z \in ComplexNumber, conv'.printed # <<>>, z = conv'.printed[1] PROVE Again(z)'
    <3>1. Again(z) /\ conv.pc = "prefix"
      BY <1>4, <2>2, <2>4 DEF ReadAgain, PrefixEnd
    <3>2. /\ Kept(z) /\ IsExact(z) /\ conv.exactness = -1
          /\ AtFirst(z) /\ conv.radix = -1 /\ conv.defradix = 10
          /\ conv.dup = ntos(z) /\ conv.allowim
      BY <3>1 DEF Again
    <3>3. conv'.radix = 10
      BY <2>1, <2>2, <3>2
    <3>4. AtFirst(z)'
      BY <2>2, <2>3, <3>2 DEF AtFirst
    <3>5. conv'.allowim
      BY <2>3, <3>2
    <3> QED
      BY <2>2, <3>2, <3>3, <3>4, <3>5 DEF Again
  <2> QED
    BY <2>4 DEF ReadAgain
<1>5. CASE Reread
  <2>0. PICK y : y = conv.val
    OBVIOUS
  <2>1. Kept(y) /\ y \in ComplexNumber /\ IsExact(y)
    BY <1>5, <2>0 DEF ConvTypes, Kept, Reread, Displays
  <2>2. conv' = [Idle EXCEPT !.pc = "prefix", !.str = ntos(y), !.dup = ntos(y), !.defradix = 10,
                             !.printed = <<y>>]
    BY <1>5, <2>0 DEF Reread, Start
  <2>3. /\ conv'.pc = "prefix" /\ conv'.dup = ntos(y) /\ conv'.defradix = 10
        /\ conv'.printed = <<y>> /\ conv'.ptr = 1 /\ conv'.radix = -1 /\ conv'.exactness = -1
        /\ conv'.val = new_number(0) /\ conv'.allowre /\ conv'.allowim
    BY <2>2 DEF Idle
  <2>4. AtFirst(y)'
    BY <2>3 DEF AtFirst
  <2>5. Again(y)'
    BY <2>1, <2>3, <2>4 DEF Again
  <2>6. ASSUME NEW z \in ComplexNumber, z = conv'.printed[1] PROVE z = y
    BY <2>3, <2>6
  <2> QED
    BY <2>5, <2>6 DEF ReadAgain
<1> QED
  BY <1>2, <1>3, <1>4, <1>5 DEF Convert

\* No step loses the number that was written.
LEMMA AgainStep == RInv /\ ReadAgain /\ [Next]_vars => ReadAgain'
<1> SUFFICES ASSUME RInv, ReadAgain, [Next]_vars PROVE ReadAgain'
  OBVIOUS
<1>1. ConvTypes
  BY DEF RInv
<1>2. CASE Lex \/ UNCHANGED vars
  BY <1>2 DEF Lex, vars, ReadAgain, Again, AtFirst, AtImag
<1>3. CASE Run
  <2>1. PICK w : Literal(w) \/ \E r \in Radices : string2number(w, r)
    BY <1>3 DEF Run
  <2>2. conv'.printed = <<>>
    <3>1. ASSUME NEW r, Start(w, r, <<>>) PROVE conv'.printed = <<>>
      BY <3>1 DEF Start, Idle
    <3>2. ASSUME Literal(w) PROVE conv'.printed = <<>>
      <4>1. CASE numberFitsInt32(w)
        <5>1. PICK v : conv' = [Idle EXCEPT !.pc = "done", !.str = w, !.out = "number", !.val = v]
          BY <3>2, <4>1 DEF Literal
        <5> QED
          BY <5>1 DEF Idle
      <4>2. CASE ~numberFitsInt32(w)
        BY <3>1, <3>2, <4>2 DEF Literal
      <4> QED
        BY <4>1, <4>2
    <3>3. ASSUME NEW r, string2number(w, r) PROVE conv'.printed = <<>>
      <4>1. CASE w = <<>>
        <5>1. conv' = [Idle EXCEPT !.pc = "done", !.defradix = r, !.out = "false"]
          BY <3>3, <4>1 DEF string2number
        <5> QED
          BY <5>1 DEF Idle
      <4>2. CASE w # <<>>
        BY <3>1, <3>3, <4>2 DEF string2number
      <4> QED
        BY <4>1, <4>2
    <3> QED
      BY <2>1, <3>2, <3>3
  <2> QED
    BY <2>2 DEF ReadAgain
<1>4. CASE Convert
  BY <1>1, <1>4, ConvertAgain
<1> QED
  BY <1>2, <1>3, <1>4 DEF Next

(***************************************************************************)
(* Every exact number that comes out of a conversion, an integer of any size, *)
(* a fraction or a complex number of them, is read back as itself from the    *)
(* text that display writes.                                               *)
(***************************************************************************)
THEOREM PrintedIsReadBack == Spec => []PrintedReadsBack
<1>1. Init => ReadAgain
  BY DEF Init, Idle, ReadAgain
<1>2. RInv /\ ReadAgain => PrintedReadsBack
  <2> SUFFICES ASSUME RInv, ReadAgain, conv.pc = "done", conv.printed # <<>>
               PROVE  conv.out = "number" /\ conv.val = conv.printed[1]
    BY DEF PrintedReadsBack
  <2>1. conv.printed[1] \in ComplexNumber
    BY DEF RInv, ConvTypes, Conversion
  <2>2. Again(conv.printed[1])
    BY <2>1 DEF ReadAgain
  <2> QED
    BY <2>2 DEF Again
<1> QED
  BY <1>1, <1>2, RInit, RStep, AgainStep, PTL DEF Spec

-----------------------------------------------------------------------------
(***************************************************************************)
(* What the conversions of GMP are given.                                   *)
(***************************************************************************)

\* the digits of a radix
Numeric(radix) == {c \in Figural : digit_value(c) \in 0..(radix - 1)}

\* t has digits of D from a to b, behind an optional minus, and at most one character of P
DigitsFrom(t, a, b, D, P) ==
  /\ \A j \in a..(b - 1) : t[j] \in D \cup P \/ (j = a /\ t[j] = "-")
  /\ \E j \in a..(b - 1) : t[j] \in D
  /\ \A j, k \in a..(b - 1) : t[j] \in P /\ t[k] \in P => j = k

\* The digits of a radix are those of the parser without the point.
LEMMA NumericDigits ==
  ASSUME NEW radix \in 2..36
  PROVE  /\ ston_digits(radix) \subseteq Numeric(radix) \cup {"."}
         /\ "." \notin Numeric(radix) /\ "0" \in Numeric(radix)
         /\ "-" \notin Numeric(radix) /\ "@" \notin Numeric(radix)
         /\ Numeric(10) = Digit
<1> DEFINE req == IF radix <= 10 THEN radix ELSE 2 * radix - 10
           V(k) == IF k <= 11 THEN k - 2 ELSE 10 + ((k - 12) \div 2)
<1>1. ston_digits(radix) = {cstr[k] : k \in {j \in 1..23 : j - 1 <= req}}
  BY CstrFacts DEF ston_digits
<1>2. Figural = {cstr[k] : k \in 1..23}
  BY CstrFacts DEF Figural
<1>3. ASSUME NEW k \in 1..23 PROVE digit_value(cstr[k]) = V(k)
  <2> DEFINE i == CHOOSE j \in 1..23 : cstr[j] = cstr[k]
  <2>1. i \in 1..23 /\ cstr[i] = cstr[k]
    OBVIOUS
  <2>2. digit_value(cstr[k]) = V(i)
    BY CstrFacts DEF digit_value
  <2> HIDE DEF i
  <2>3. i = k
    BY <2>1, CstrFacts
  <2> QED
    BY <2>2, <2>3
<1>4. ASSUME NEW k \in 1..23, k - 1 <= req, k # 1
      PROVE  cstr[k] \in Numeric(radix)
  <2>1. V(k) \in 0..(radix - 1)
    <3>1. CASE k <= 11
      <4>1. k - 2 \in Int /\ 0 <= k - 2 /\ k - 2 <= radix - 1
        BY <1>4, <3>1
      <4> QED
        BY <3>1, <4>1
    <3>2. CASE k > 11
      <4>1. radix > 10 /\ k - 12 \in 0..11 /\ k - 12 <= 2 * radix - 21
        BY <1>4, <3>2
      <4>2. PICK m \in 0..5 : m = (k - 12) \div 2 /\ 2 * m <= k - 12
        BY <4>1
      <4>3. 10 + m \in 0..(radix - 1)
        BY <4>1, <4>2
      <4> QED
        BY <3>2, <4>2, <4>3
    <3> QED
      BY <3>1, <3>2
  <2>2. cstr[k] \in Figural
    BY <1>2
  <2> QED
    BY <1>3, <2>1, <2>2 DEF Numeric
<1>5. ston_digits(radix) \subseteq Numeric(radix) \cup {"."}
  <2> SUFFICES ASSUME NEW k \in 1..23, k - 1 <= req
               PROVE  cstr[k] \in Numeric(radix) \cup {"."}
    BY <1>1
  <2>1. CASE k = 1
    BY <2>1, CstrFacts
  <2>2. CASE k # 1
    BY <1>4, <2>2
  <2> QED
    BY <2>1, <2>2
<1>6. "." \notin Numeric(radix)
  <2>1. digit_value(cstr[1]) = -1 /\ cstr[1] = "."
    <3>1. V(1) = -1 /\ 1 \in 1..23
      OBVIOUS
    <3> QED
      BY <1>3, <3>1, CstrFacts
  <2>2. digit_value(".") \notin 0..(radix - 1)
    BY <2>1
  <2> QED
    BY <2>2 DEF Numeric
<1>7. "0" \in Numeric(radix)
  <2>1. cstr[2] = "0" /\ 2 \in 1..23 /\ 2 - 1 <= req /\ 2 # 1
    BY CstrFacts
  <2>2. cstr[2] \in Numeric(radix)
    BY <1>4, <2>1
  <2> QED
    BY <2>1, <2>2
<1>8. Numeric(10) \subseteq Digit
  <2> SUFFICES ASSUME NEW k \in 1..23, V(k) \in 0..9 PROVE cstr[k] \in Digit
    <3>1. \A c \in Numeric(10) : c \in Figural /\ digit_value(c) \in 0..9
      BY DEF Numeric
    <3> QED
      BY <1>2, <1>3, <3>1
  <2>1. k - 2 \in 0..9 /\ k = (k - 2) + 2
    OBVIOUS
  <2> QED
    BY <2>1, DigitValues
<1>9. Digit \subseteq Numeric(10)
  <2>1. \A c \in Digit : c \in Figural /\ digit_value(c) \in 0..(10 - 1)
    BY DigitValues
  <2> QED
    BY <2>1 DEF Numeric
<1>10. "-" \notin Numeric(radix) /\ "@" \notin Numeric(radix)
  BY TextCharacters DEF Numeric
<1> QED
  BY <1>5, <1>6, <1>7, <1>8, <1>9, <1>10

\* The same digits in a piece of the text.
LEMMA DigitsInPiece ==
  ASSUME NEW t \in Seq(Character), NEW a \in 1..(Len(t) + 1), NEW e \in (a - 1)..Len(t),
         NEW h \in a..(e + 1), NEW D, NEW P, DigitsFrom(t, a, h, D, P)
  PROVE  DigitsFrom(SubSeq(t, a, e), 1, h - a + 1, D, P)
<1> DEFINE w == SubSeq(t, a, e)
           b == h - a + 1
<1>1. Len(t) \in Nat /\ a \in Nat /\ h \in Int /\ e \in Int /\ h <= e + 1 /\ a <= h
  OBVIOUS
<1>2. \A j \in 1..(e - a + 1) : w[j] = t[a + j - 1]
  BY PieceFacts
<1> HIDE DEF w
<1>3. ASSUME NEW j \in 1..(b - 1)
      PROVE  a + j - 1 \in a..(h - 1) /\ w[j] = t[a + j - 1] /\ (a + j - 1 = a <=> j = 1)
  <2>1. j \in 1..(e - a + 1) /\ a + j - 1 \in a..(h - 1)
    BY <1>1
  <2> QED
    BY <1>1, <1>2, <2>1
<1>4. \A j \in 1..(b - 1) : w[j] \in D \cup P \/ (j = 1 /\ w[j] = "-")
  BY <1>3 DEF DigitsFrom
<1>5. \E j \in 1..(b - 1) : w[j] \in D
  <2>1. PICK i \in a..(h - 1) : t[i] \in D
    BY DEF DigitsFrom
  <2>2. i - a + 1 \in 1..(b - 1) /\ a + (i - a + 1) - 1 = i
    BY <1>1
  <2>3. w[i - a + 1] = t[i]
    BY <1>3, <2>2
  <2> QED
    BY <2>1, <2>2, <2>3
<1>6. ASSUME NEW j \in 1..(b - 1), NEW k \in 1..(b - 1), w[j] \in P, w[k] \in P
      PROVE  j = k
  <2>1. \A x, y \in a..(h - 1) : t[x] \in P /\ t[y] \in P => x = y
    BY Zenon DEF DigitsFrom
  <2>2. a + j - 1 \in a..(h - 1) /\ a + k - 1 \in a..(h - 1)
    BY <1>3
  <2>3. t[a + j - 1] \in P /\ t[a + k - 1] \in P
    BY <1>3, <1>6
  <2> DEFINE x == a + j - 1
             y == a + k - 1
  <2> HIDE DEF x, y
  <2>4. x = y
    BY <2>1, <2>2, <2>3, Zenon DEF x, y
  <2> QED
    BY <1>1, <2>4 DEF x, y
<1>7. DigitsFrom(w, 1, b, D, P)
  BY <1>4, <1>5, <1>6, Zenon DEF DigitsFrom
<1> QED
  BY <1>7 DEF w

\* what the parser accepted between q and h is digits of the radix, with at most one point
Digited(f, q, d, h, radix) ==
  /\ \A j \in q..(h - 1) : f.dup[j] \in Numeric(radix) \cup {"."}
  /\ ~f.decimal => \A j \in q..(h - 1) : f.dup[j] \in Numeric(radix)
  /\ \A j, k \in q..(h - 1) : f.dup[j] = "." /\ f.dup[k] = "." => j = k
  /\ d # q => \E j \in q..(h - 1) : f.dup[j] \in Numeric(radix)
  /\ f.decimal => radix = 10

\* What _ston_parse_real accepts has digits of the radix only, and a point in decimals.
LEMMA PassedDigits ==
  ASSUME NEW s \in Seq(Character), NEW p \in 1..(Len(s) + 1), NEW radix \in 2..36,
         NEW f, NEW q \in Nat, NEW d \in Nat, NEW h \in Nat, Passed(s, p, radix, f, q, d, h),
         f.valid
  PROVE  Digited(f, q, d, h, radix)
<1> DEFINE n == Len(s)
           g == f.dup
<1>1. /\ q \in p..(n + 1) /\ d \in q..(n + 1) /\ h \in d..(n + 1)
      /\ \A j \in q..(d - 1) : s[j] \in ston_digits(radix)
      /\ \A j \in d..(h - 1) : s[j] \in {".", "#"}
      /\ WellFormed(s, q, d, h, radix)
      /\ f.decimal = (Points(s, q, h) # {} \/ Marked(s, h))
      /\ \A j \in 1..n : g[j] = CASE j \in d..(h - 1) /\ s[j] = "#" -> "0"
                                  [] j = h /\ s[j] \in Marker -> "@"
                                  [] OTHER -> s[j]
  BY Zenon DEF Passed
<1>2. n \in Nat /\ p \in Nat /\ 1 <= p
  OBVIOUS
<1> HIDE DEF g, n
<1>11. 1 <= q /\ p <= q /\ q <= d /\ d <= h /\ h <= n + 1
  <2>1. q \in p..(n + 1) /\ d \in q..(n + 1) /\ h \in d..(n + 1)
    BY <1>1
  <2> QED
    BY <1>2, <2>1
<1>3. ASSUME NEW j \in q..(h - 1)
      PROVE  /\ g[j] \in Numeric(radix) \cup {"."}
             /\ g[j] = "." <=> j \in Points(s, q, h)
             /\ j < d => g[j] = s[j]
  <2>1. j \in 1..n /\ j # h
    BY <1>2, <1>11
  <2>2. g[j] = IF j \in d..(h - 1) /\ s[j] = "#" THEN "0" ELSE s[j]
    BY <1>1, <2>1
  <2>3. j \in q..(d - 1) \/ j \in d..(h - 1)
    BY <1>11
  <2>4. j \in q..(d - 1) => j \notin d..(h - 1) /\ s[j] \in Numeric(radix) \cup {"."}
    <3>1. \A i \in q..(d - 1) : s[i] \in Numeric(radix) \cup {"."}
      BY <1>1, NumericDigits
    <3> QED
      BY <1>11, <3>1
  <2>5. j \in d..(h - 1) => s[j] \in {".", "#"}
    BY <1>1
  <2>6. "0" \in Numeric(radix) /\ "0" # "." /\ "#" # "."
    BY NumericDigits
  <2>7. j < d => j \notin d..(h - 1)
    BY <1>11
  <2>8. j \in Points(s, q, h) <=> s[j] = "."
    BY DEF Points
  <2> QED
    BY <2>2, <2>3, <2>4, <2>5, <2>6, <2>7, <2>8
<1>4. ~f.decimal => \A j \in q..(h - 1) : g[j] \in Numeric(radix)
  <2> SUFFICES ASSUME ~f.decimal, NEW j \in q..(h - 1) PROVE g[j] \in Numeric(radix)
    OBVIOUS
  <2>1. Points(s, q, h) = {}
    BY <1>1
  <2> QED
    BY <1>3, <2>1
<1>5. ASSUME NEW j \in q..(h - 1), NEW k \in q..(h - 1), g[j] = ".", g[k] = "."
      PROVE  j = k
  <2>1. j \in Points(s, q, h) /\ k \in Points(s, q, h)
    BY <1>3, <1>5
  <2>2. Cardinality(Points(s, q, h)) = 1
    BY <1>1, <2>1 DEF WellFormed
  <2>3. IsFiniteSet(Points(s, q, h))
    <3>1. IsFiniteSet(q..(h - 1)) /\ Points(s, q, h) \subseteq q..(h - 1)
      <4>1. q \in Int /\ h - 1 \in Int
        BY <1>1
      <4> QED
        BY <4>1, FS_Interval DEF Points
    <3> QED
      BY <3>1, FS_Subset, Zenon
  <2>4. \E x : Points(s, q, h) = {x}
    BY <2>2, <2>3, FS_Singleton, Zenon
  <2> QED
    BY <2>1, <2>4
<1>6. d # q => \E j \in q..(h - 1) : g[j] \in Numeric(radix)
  <2> SUFFICES ASSUME d # q PROVE \E j \in q..(h - 1) : g[j] \in Numeric(radix)
    OBVIOUS
  <2>1. q \in q..(h - 1) /\ q < d
    BY <1>11
  <2>2. CASE g[q] # "."
    BY <1>3, <2>1, <2>2
  <2>3. CASE g[q] = "."
    <3>1. s[q] = "."
      BY <1>3, <2>1, <2>3
    <3>2. d # q + 1
      BY <1>1, <3>1 DEF WellFormed
    <3>3. q + 1 \in q..(h - 1)
      BY <1>11, <2>1, <3>2
    <3>4. g[q + 1] # "."
      <4>1. q # q + 1
        BY <1>1
      <4> QED
        BY <1>5, <2>1, <2>3, <3>3, <4>1
    <3> QED
      BY <1>3, <3>3, <3>4
  <2> QED
    BY <2>2, <2>3
<1>7. f.decimal => radix = 10
  BY <1>1 DEF WellFormed
<1> QED
  BY <1>3, <1>4, <1>5, <1>6, <1>7, Zenon DEF Digited, g

\* An integer, a fraction and a decimal as GMP takes them: a denominator has a digit, and
\* so has an exponent.
IntegerOf(w, radix) == DigitsFrom(w, 1, Len(w) + 1, Numeric(radix), {})

FractionOf(w, radix) ==
  \E b \in 1..(Len(w) - 1) : /\ DigitsFrom(w, 1, b, Numeric(radix), {}) /\ w[b] = "/"
                             /\ \A j \in (b + 1)..Len(w) : w[j] \in Numeric(radix)

DecimalOf(w) ==
  \E b \in 1..(Len(w) + 1) :
    /\ DigitsFrom(w, 1, b, Digit, {"."})
    /\ b <= Len(w) => w[b] = "@" /\ \E j \in (b + 1)..Len(w) : w[j] \in Digit
    /\ \A j \in (b + 1)..Len(w) : w[j] \in Digit \/ (j = b + 1 /\ w[j] \in Signs)

\* Two texts that it refuses: nothing behind the slash, and nothing but a sign behind the @.
NoDenominator(w, radix) ==
  Len(w) >= 1 /\ w[Len(w)] = "/" /\ DigitsFrom(w, 1, Len(w), Numeric(radix), {})

NoExponent(w) ==
  \E b \in 1..Len(w) :
    /\ DigitsFrom(w, 1, b, Digit, {"."}) /\ w[b] = "@"
    /\ \A j \in (b + 1)..Len(w) : j = b + 1 /\ w[j] \in Signs

\* What the parser accepted is digits from the sign on.
LEMMA RunDigits ==
  ASSUME NEW s \in Seq(Character), NEW p \in 1..(Len(s) + 1), NEW radix \in 2..36,
         NEW f, NEW q \in Nat, NEW d \in Nat, NEW h \in Nat, Passed(s, p, radix, f, q, d, h),
         f.valid, d # q, NEW P, P = IF f.decimal THEN {"."} ELSE {}
  PROVE  DigitsFrom(f.dup, From(f.dup, p), h, Numeric(radix), P)
<1> DEFINE g == f.dup
           a == From(g, p)
           D == Numeric(radix)
<1>1. RunsTo(s, p, f, q, h) /\ Digited(f, q, d, h, radix) /\ LeftText(s, p, f, q, d, h)
  BY FromDigits, PassedDigits, PassedText, Zenon
<1>2. /\ a \in p..q /\ a < h /\ a \in Nat /\ g[p] = s[p] /\ p \in Nat
      /\ \A j \in a..(h - 1) : g[j] \in Figural \/ (j = a /\ g[j] = "-")
  BY <1>1 DEF RunsTo, DigitRun
<1>3. q \in {p, p + 1} /\ (q = p + 1 => s[p] \in Signs)
  BY <1>1 DEF LeftText
<1>4. /\ \A j \in q..(h - 1) : g[j] \in D \cup {"."}
      /\ ~f.decimal => \A j \in q..(h - 1) : g[j] \in D
      /\ \A j, k \in q..(h - 1) : g[j] = "." /\ g[k] = "." => j = k
      /\ \E j \in q..(h - 1) : g[j] \in D
  BY <1>1, Zenon DEF Digited
<1> HIDE DEF g, a, D
<1>5. ASSUME NEW j \in a..(h - 1), ~(j >= q) PROVE j = a /\ g[j] = "-"
  <2>1. j = p /\ q = p + 1
    BY <1>2, <1>3, <1>5
  <2>2. g[j] \in Signs
    BY <1>2, <1>3, <2>1
  <2>3. g[j] \notin Figural
    BY <2>2, TextCharacters
  <2> QED
    BY <1>2, <2>3
<1>6. \A j \in a..(h - 1) : g[j] \in D \cup P \/ (j = a /\ g[j] = "-")
  <2> SUFFICES ASSUME NEW j \in a..(h - 1), j >= q PROVE g[j] \in D \cup P
    BY <1>5
  <2>1. j \in q..(h - 1)
    BY <1>2
  <2> QED
    BY <1>4, <2>1
<1>7. \E j \in a..(h - 1) : g[j] \in D
  <2>1. PICK j \in q..(h - 1) : g[j] \in D
    BY <1>4
  <2>2. j \in a..(h - 1)
    BY <1>2
  <2> QED
    BY <2>1, <2>2
<1>8. ASSUME NEW j \in a..(h - 1), NEW k \in a..(h - 1), g[j] \in P, g[k] \in P PROVE j = k
  <2>1. g[j] = "." /\ g[k] = "."
    BY <1>8
  <2>2. j \in q..(h - 1) /\ k \in q..(h - 1)
    BY <1>2, <1>5, <2>1
  <2> QED
    BY <1>4, <2>1, <2>2
<1>9. DigitsFrom(g, a, h, D, P)
  BY <1>6, <1>7, <1>8, Zenon DEF DigitsFrom
<1> QED
  BY <1>9 DEF g, a, D

\* Where the first digits of a part are, unless it is a sign and i.
LEMMA PartDigits ==
  ASSUME Reading, NEW flag, NEW last,
         flag = ston_parse_real(conv.dup, conv.ptr, conv.radix), last = Last(flag),
         Parsed(flag, last), ~Unit(flag, last)
  PROVE  \E q, d, h \in Nat : Passed(conv.dup, conv.ptr, conv.radix, flag, q, d, h) /\ d # q
<1> DEFINE s == conv.dup
           p == conv.ptr
           radix == conv.radix
<1>1. s \in Seq(Character) /\ p \in 1..(Len(s) + 1) /\ radix \in 2..36
  BY DEF Reading
<1>2. PICK q \in Nat, d \in Nat, h \in Nat : Passed(s, p, radix, flag, q, d, h)
  BY <1>1, ParseFacts, Zenon
<1> HIDE DEF s, p, radix
<1>3. flag.valid = WellFormed(s, q, d, h, radix)
  BY <1>2, Zenon DEF Passed
<1>4. d # q
  <2> SUFFICES ASSUME d = q PROVE FALSE
    OBVIOUS
  <2>1. At(s, d) = "i"
    BY <1>3 DEF Parsed, WellFormed
  <2>2. StopsAt(s, flag, d, h)
    BY <1>1, <1>2, <2>1, UnitPassed, Zenon
  <2>3. flag.end = d /\ flag.iunit /\ At(flag.dup, d) = "i"
    BY <2>2 DEF StopsAt
  <2>4. ~Slash(flag)
    BY <2>3 DEF Slash
  <2>5. last = flag
    BY <2>4 DEF Last
  <2> QED
    BY <2>3, <2>5 DEF Unit, Imag
<1> QED
  BY <1>2, <1>4, Zenon DEF s, p, radix

\* what GMP is given to read in a part
Suits(flag, last) ==
  LET w == PartText(last) IN
  /\ Slash(flag) => FractionOf(w, conv.radix) \/ (NoDenominator(w, conv.radix) /\ Imag(last))
  /\ ~Slash(flag) /\ flag.decimal => DecimalOf(w) \/ NoExponent(w)
  /\ ~Slash(flag) /\ ~flag.decimal => IntegerOf(w, conv.radix)

\* Two descriptions of a text with a marker in it agree on where that is.
LEMMA OneMark ==
  ASSUME NEW w \in Seq(Character), NEW m \in {"@", "/"}, NEW D, NEW P,
         m \notin D, m \notin P, NEW b \in 1..(Len(w) + 1), DigitsFrom(w, 1, b, D, P),
         b <= Len(w) => w[b] = m,
         NEW c \in 1..(Len(w) + 1), DigitsUpto(w, c), c <= Len(w) => w[c] = m
  PROVE  b = c
<1>1. Len(w) \in Nat /\ m \notin Figural /\ m # "-"
  BY TextCharacters
<1>2. ~(c < b)
  <2> SUFFICES ASSUME c < b PROVE FALSE
    OBVIOUS
  <2>1. c \in 1..(b - 1) /\ c <= Len(w)
    BY <1>1
  <2> QED
    BY <1>1, <2>1 DEF DigitsFrom
<1>3. ~(b < c)
  <2> SUFFICES ASSUME b < c PROVE FALSE
    OBVIOUS
  <2>1. b \in 1..(c - 1) /\ b <= Len(w)
    BY <1>1
  <2> QED
    BY <1>1, <2>1 DEF DigitsUpto
<1> QED
  BY <1>1, <1>2, <1>3

\* An integer or a decimal.
LEMMA WholeSuits ==
  ASSUME Reading, NEW flag, NEW last,
         flag = ston_parse_real(conv.dup, conv.ptr, conv.radix), last = Last(flag),
         Parsed(flag, last), ~Unit(flag, last), ~Slash(flag)
  PROVE  Suits(flag, last)
<1> DEFINE s == conv.dup
           p == conv.ptr
           radix == conv.radix
           n == Len(s)
           g == flag.dup
           a == From(g, p)
           e == flag.end
           w == SubSeq(g, a, e - 1)
           P == IF flag.decimal THEN {"."} ELSE {}
           D == Numeric(radix)
<1>1. s \in Seq(Character) /\ p \in 1..(n + 1) /\ radix \in 2..36 /\ n \in Nat
  BY DEF Reading
<1>2. PICK q \in Nat, d \in Nat, h \in Nat : Passed(s, p, radix, flag, q, d, h) /\ d # q
  BY PartDigits, Zenon
<1>3. last = flag
  BY DEF Last
<1>4. PartText(last) = w
  BY <1>3 DEF PartText, From
<1>5. w \in Seq(Character) /\ (flag.decimal => DecimalText(w))
  BY <1>3, <1>4, PartTexts, Zenon
<1> HIDE DEF s, p, radix
<1>6. /\ e \in h..(n + 1) /\ e = ExponentEnd(s, h) /\ g \in Seq(Character) /\ Len(g) = n
      /\ flag.decimal = (Points(s, q, h) # {} \/ Marked(s, h))
  BY <1>2, Zenon DEF Passed
<1>7. /\ a \in 1..(n + 1) /\ a < h
      /\ DigitsFrom(g, a, h, D, P)
      /\ Marked(s, h) => h <= n /\ g[h] = "@"
      /\ flag.decimal => radix = 10
  <2>1. flag.valid
    BY DEF Parsed
  <2>2. RunsTo(s, p, flag, q, h) /\ LeftText(s, p, flag, q, d, h)
    BY <1>1, <1>2, FromDigits, PassedText, Zenon
  <2>3. Digited(flag, q, d, h, radix)
    BY <1>1, <1>2, <2>1, PassedDigits, Zenon
  <2>4. DigitsFrom(g, a, h, D, P)
    BY <1>1, <1>2, <2>1, RunDigits, Zenon
  <2>5. a \in 1..(n + 1) /\ a < h
    BY <2>2 DEF RunsTo
  <2>6. Marked(s, h) => h <= n /\ g[h] = "@"
    BY <2>2 DEF LeftText
  <2>7. flag.decimal => radix = 10
    BY <2>3, Zenon DEF Digited
  <2> QED
    BY <2>4, <2>5, <2>6, <2>7
<1> DEFINE b == h - a + 1
<1> HIDE DEF a, e, D, P, g, n
<1>8. /\ a \in 1..(Len(g) + 1) /\ e - 1 \in (a - 1)..Len(g) /\ h \in a..((e - 1) + 1)
      /\ h \in Nat /\ a \in Nat /\ e \in Nat
  BY <1>1, <1>6, <1>7
<1>9. DigitsFrom(w, 1, b, D, P)
  <2>1. g \in Seq(Character)
    BY <1>6
  <2> QED
    BY <1>7, <1>8, <2>1, DigitsInPiece, Zenon
<1>10. Len(w) = e - a /\ \A j \in 1..(e - a) : w[j] = g[a + j - 1]
  <2>1. /\ Len(w) = (e - 1) - a + 1
        /\ \A j \in 1..((e - 1) - a + 1) : w[j] = g[a + j - 1]
    BY <1>6, <1>8, PieceFacts
  <2>2. (e - 1) - a + 1 = e - a
    BY <1>8
  <2> QED
    BY <2>1, <2>2
<1> HIDE DEF w
<1>11. CASE flag.decimal
  <2>1. D = Digit /\ P = {"."}
    <3>1. radix = 10 /\ Numeric(10) = Digit
      BY <1>1, <1>7, <1>11, NumericDigits
    <3> QED
      BY <1>11, <3>1 DEF D, P
  <2>2. b \in 1..(Len(w) + 1) /\ (b <= Len(w) => w[b] = "@")
    <3>1. b \in 1..(Len(w) + 1)
      BY <1>7, <1>8, <1>10
    <3>2. CASE ~Marked(s, h)
      <4>1. e = h
        BY <1>6, <3>2 DEF ExponentEnd
      <4> QED
        BY <1>8, <1>10, <3>1, <4>1
    <3>3. CASE Marked(s, h)
      <4>1. ASSUME b <= Len(w) PROVE w[b] = "@"
        <5>1. b \in 1..(e - a) /\ a + b - 1 = h
          BY <1>8, <1>10, <3>1, <4>1
        <5> QED
          BY <1>7, <1>10, <3>3, <5>1
      <4> QED
        BY <3>1, <4>1
    <3> QED
      BY <3>2, <3>3
  <2> HIDE DEF b
  <2>3. PICK c \in 1..(Len(w) + 1) :
          /\ DigitsUpto(w, c)
          /\ c <= Len(w) => w[c] = "@"
          /\ \A j \in (c + 1)..Len(w) : w[j] \in Digit \/ (j = c + 1 /\ w[j] \in Signs)
    BY <1>5, <1>11 DEF DecimalText
  <2>4. b = c
    <3>1. "@" \notin Digit /\ "@" \notin {"."} /\ "@" \in {"@", "/"}
      BY TextCharacters
    <3> QED
      BY <1>5, <1>9, <2>1, <2>2, <2>3, <3>1, OneMark, Zenon
  <2>5. DecimalOf(w) \/ NoExponent(w)
    <3>1. /\ DigitsFrom(w, 1, b, Digit, {"."})
          /\ \A j \in (b + 1)..Len(w) : w[j] \in Digit \/ (j = b + 1 /\ w[j] \in Signs)
      BY <1>9, <2>1, <2>3, <2>4, Zenon
    <3>2. CASE b <= Len(w) => \E j \in (b + 1)..Len(w) : w[j] \in Digit
      BY <2>2, <3>1, <3>2, Zenon DEF DecimalOf
    <3>3. CASE ~(b <= Len(w) => \E j \in (b + 1)..Len(w) : w[j] \in Digit)
      <4>1. b \in 1..Len(w) /\ w[b] = "@"
        BY <2>2, <3>3
      <4>2. \A j \in (b + 1)..Len(w) : j = b + 1 /\ w[j] \in Signs
        BY <3>1, <3>3
      <4> QED
        BY <3>1, <4>1, <4>2, Zenon DEF NoExponent
    <3> QED
      BY <3>2, <3>3
  <2> QED
    BY <1>4, <1>11, <2>5, Zenon DEF Suits
<1>12. CASE ~flag.decimal
  <2>1. ~Marked(s, h)
    BY <1>6, <1>12
  <2>2. e = h
    BY <1>6, <2>1 DEF ExponentEnd
  <2>3. b = Len(w) + 1
    BY <1>8, <1>10, <2>2
  <2>4. DigitsFrom(w, 1, Len(w) + 1, Numeric(radix), {})
    BY <1>9, <1>12, <2>3 DEF D, P
  <2>5. IntegerOf(w, radix)
    BY <2>4, Zenon DEF IntegerOf
  <2> QED
    BY <1>4, <1>12, <2>5, Zenon DEF Suits, radix
<1> QED
  BY <1>11, <1>12

\* A fraction, whose denominator is missing at most before i.
LEMMA RatioSuits ==
  ASSUME Reading, NEW flag, NEW last,
         flag = ston_parse_real(conv.dup, conv.ptr, conv.radix), last = Last(flag),
         Parsed(flag, last), ~Unit(flag, last), Slash(flag)
  PROVE  Suits(flag, last)
<1> DEFINE s == conv.dup
           p == conv.ptr
           radix == conv.radix
           n == Len(s)
           t == flag.dup
           u == last.dup
           e == last.end
           a == From(t, p)
           D == Numeric(radix)
<1>1. s \in Seq(Character) /\ p \in 1..(n + 1) /\ radix \in 2..36 /\ n \in Nat /\ p \in Nat
  BY DEF Reading
<1>2. PICK q \in Nat, d \in Nat, h \in Nat : Passed(s, p, radix, flag, q, d, h) /\ d # q
  BY PartDigits, Zenon
<1>3. flag.valid /\ last.valid /\ ~flag.decimal /\ ~last.sign /\ ~last.decimal
  BY DEF Parsed
<1>4. At(t, flag.end) = "/"
  BY DEF Slash
<1>5. last = ston_parse_real(t, flag.end + 1, radix)
  BY DEF Last
<1>6. PartText(last) = SubSeq(u, From(u, p), e - 1)
  BY DEF PartText, From
<1> HIDE DEF s, p, radix
<1>7. /\ flag.end = ExponentEnd(s, h) /\ t \in Seq(Character) /\ Len(t) = n
      /\ flag.end \in h..(n + 1)
      /\ flag.decimal = (Points(s, q, h) # {} \/ Marked(s, h))
  BY <1>2, Zenon DEF Passed
<1>8. /\ a \in 1..(n + 1) /\ a \in p..q /\ p < h /\ a < h
      /\ DigitsFrom(t, a, h, D, {})
  <2>1. RunsTo(s, p, flag, q, h)
    BY <1>1, <1>2, FromDigits, Zenon
  <2>2. DigitsFrom(t, a, h, D, IF flag.decimal THEN {"."} ELSE {})
    BY <1>1, <1>2, <1>3, RunDigits, Zenon
  <2> QED
    BY <1>3, <2>1, <2>2 DEF RunsTo
<1>9. flag.end = h
  BY <1>3, <1>7 DEF ExponentEnd
<1>10. h <= n /\ t[h] = "/"
  BY <1>4, <1>7, <1>9 DEF At, NUL
<1> HIDE DEF t, a
<1>11. t \in Seq(Character) /\ Len(t) = n /\ h + 1 \in 1..(Len(t) + 1)
  BY <1>1, <1>7, <1>10
<1>12. last = ston_parse_real(t, h + 1, radix)
  BY <1>5, <1>9
<1>13. PICK q2 \in Nat, d2 \in Nat, h2 \in Nat : Passed(t, h + 1, radix, last, q2, d2, h2)
  BY <1>1, <1>11, <1>12, ParseFacts, Zenon
<1>14. /\ q2 \in (h + 1)..(n + 1) /\ h2 \in d2..(n + 1) /\ d2 \in q2..(n + 1)
       /\ e = ExponentEnd(t, h2)
       /\ last.sign = (q2 # h + 1)
       /\ last.decimal = (Points(t, q2, h2) # {} \/ Marked(t, h2))
       /\ last.valid = WellFormed(t, q2, d2, h2, radix)
       /\ u \in Seq(Character) /\ Len(u) = n
  BY <1>11, <1>13, Zenon DEF Passed
<1>15. q2 = h + 1 /\ e = h2
  BY <1>3, <1>14 DEF ExponentEnd
<1>16. \A j \in 1..h : u[j] = t[j]
  <2>1. LeftText(t, h + 1, last, q2, d2, h2)
    BY <1>1, <1>11, <1>13, PassedText, Zenon
  <2>2. \A j \in 1..h : j \in 1..(d2 - 1)
    BY <1>14, <1>15
  <2> QED
    BY <2>1, <2>2 DEF LeftText
<1>17. \A j \in q2..(h2 - 1) : u[j] \in D
  <2>1. Digited(last, q2, d2, h2, radix)
    BY <1>1, <1>3, <1>11, <1>13, PassedDigits, Zenon
  <2> QED
    BY <1>3, <2>1, Zenon DEF Digited
<1>18. d2 = q2 => Imag(last)
  <2> SUFFICES ASSUME d2 = q2 PROVE Imag(last)
    OBVIOUS
  <2>1. At(t, d2) = "i"
    BY <1>3, <1>14 DEF WellFormed
  <2>2. StopsAt(t, last, d2, h2)
    BY <1>1, <1>11, <1>13, <2>1, UnitPassed, Zenon
  <2> QED
    BY <2>2 DEF StopsAt, Imag
<1> HIDE DEF u, e
<1>19. From(u, p) = a
  <2>1. p \in 1..h
    BY <1>1, <1>8
  <2> QED
    BY <1>16, <2>1 DEF From, a
<1> DEFINE w == SubSeq(u, a, e - 1)
           b == h - a + 1
<1>20. PartText(last) = w
  BY <1>6, <1>19
<1>21. /\ a \in 1..(Len(u) + 1) /\ e - 1 \in (a - 1)..Len(u) /\ h \in a..((e - 1) + 1)
       /\ e \in (h + 1)..(n + 1) /\ a \in Nat /\ a < h
  BY <1>8, <1>14, <1>15
<1>22. DigitsFrom(u, a, h, D, {})
  <2>1. \A j \in a..(h - 1) : u[j] = t[j]
    <3>1. \A j \in a..(h - 1) : j \in 1..h
      BY <1>21
    <3> QED
      BY <1>16, <3>1
  <2> HIDE DEF D
  <2> QED
    BY <1>8, <2>1 DEF DigitsFrom
<1>23. DigitsFrom(w, 1, b, D, {})
  BY <1>14, <1>21, <1>22, DigitsInPiece, Zenon
<1>24. Len(w) = e - a /\ \A j \in 1..(e - a) : w[j] = u[a + j - 1]
  <2>1. /\ Len(w) = (e - 1) - a + 1
        /\ \A j \in 1..((e - 1) - a + 1) : w[j] = u[a + j - 1]
    BY <1>14, <1>21, PieceFacts
  <2>2. (e - 1) - a + 1 = e - a
    BY <1>21
  <2> QED
    BY <2>1, <2>2
<1> HIDE DEF w
<1>25. b \in 1..Len(w) /\ w[b] = "/"
  <2>1. b \in 1..(e - a) /\ a + b - 1 = h
    BY <1>21
  <2>2. u[h] = "/"
    BY <1>10, <1>16, <1>21
  <2> QED
    BY <1>24, <2>1, <2>2
<1>26. ASSUME NEW j \in (b + 1)..Len(w) PROVE w[j] \in D
  <2>1. j \in 1..(e - a) /\ a + j - 1 \in q2..(h2 - 1)
    BY <1>15, <1>21, <1>24
  <2> HIDE DEF D
  <2> QED
    BY <1>17, <1>24, <2>1
<1>27. CASE b # Len(w)
  <2>1. b \in 1..(Len(w) - 1)
    BY <1>24, <1>25, <1>27
  <2>2. FractionOf(w, radix)
    BY <1>23, <1>25, <1>26, <2>1, Zenon DEF FractionOf
  <2> QED
    BY <1>20, <2>2 DEF Suits, radix
<1>28. CASE b = Len(w)
  <2>1. d2 = q2
    <3> SUFFICES ASSUME d2 # q2 PROVE FALSE
      OBVIOUS
    <3>1. Len(w) \in (b + 1)..Len(w)
      BY <1>14, <1>15, <1>21, <1>24
    <3> QED
      BY <1>24, <1>28, <3>1
  <2>2. NoDenominator(w, radix)
    <3>1. Len(w) >= 1 /\ w[Len(w)] = "/"
      BY <1>25, <1>28
    <3>2. DigitsFrom(w, 1, Len(w), D, {})
      BY <1>23, <1>28
    <3> QED
      BY <3>1, <3>2, Zenon DEF NoDenominator
  <2> QED
    BY <1>18, <1>20, <2>1, <2>2 DEF Suits, radix
<1> QED
  BY <1>27, <1>28

\* Whatever _ston_parse_real accepts is a text that the conversion of its type takes: an
\* integer for mpz_set_str, a fraction for mpq_set_str, a decimal for mpf_set_str and
\* _lsrt_mpq_set_decimal, of digits of the radix (10 for a decimal), with at most a minus in
\* front; or it is one of two texts that GMP refuses, a fraction without a denominator, before
\* i only, and an exponent without a digit.  _ston looks at no result of the GMP functions
\* (number.c:697-724), so that these two go on as some value all the same.
GmpGets ==
  conv.pc = "part" =>
    LET flag == ston_parse_real(conv.dup, conv.ptr, conv.radix)
        last == Last(flag)
    IN Parsed(flag, last) /\ ~Unit(flag, last) => Suits(flag, last)

(***************************************************************************)
(* GMP is given a numeral of the type it is to make, or one of the two texts  *)
(* named above: every other part of a number is refused before, by a parser   *)
(* that goes through the text once, writes over it as it goes, and starts in  *)
(* its middle after a slash or a real part.                                  *)
(***************************************************************************)
THEOREM GmpGetsNumeralsButTwo == Spec => []GmpGets
<1>1. ASSUME RInv PROVE GmpGets
  <2> SUFFICES ASSUME conv.pc = "part",
                      NEW flag, flag = ston_parse_real(conv.dup, conv.ptr, conv.radix),
                      NEW last, last = Last(flag), Parsed(flag, last), ~Unit(flag, last)
               PROVE  Suits(flag, last)
    BY Zenon DEF GmpGets
  <2>1. Reading
    BY <1>1 DEF RInv, ConvTypes, Conversion, Reading
  <2> QED
    BY <2>1, WholeSuits, RatioSuits, Zenon
<1> QED
  BY <1>1, RInit, RStep, PTL DEF Spec
=============================================================================
