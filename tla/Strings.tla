------------------------------ MODULE Strings ------------------------------
(***************************************************************************)
(* Strings and symbols (src/runtime/strings.c) over the objects of Heap: a    *)
(* string is a pointer to bytes that end with a zero.  Bytes lie in one       *)
(* memory, so that a write past the end of a buffer falls into its neighbour. *)
(***************************************************************************)
EXTENDS Heap

Seqs == INSTANCE SequencesExt
Sets == INSTANCE FiniteSetsExt

CONSTANTS
  Data,       \* the bytes of the string constants and symbol names, from address 0
  Granule,    \* the allocator's unit, 16 in the Boehm collector
  Extra       \* bytes it adds to each request, 1 where interior pointers count

Byte == 0..19

\* the values of 1..9 are lower case, those of 11..19 their upper case
tolower(c) == c % 10

ASSUME StringsAssumption ==
  /\ LET n == Cardinality(DOMAIN Data) - 1
     IN n \in Nat /\ Data \in [0..n -> Byte] /\ Data[n] = 0
  /\ Granule \in Nat \ {0} /\ Extra \in Nat
  /\ \A p \in Programs : \A k \in 1..Len(p.given) :
       p.given[k].kind \in {"string", "symbol"} => p.given[k].val \in DOMAIN Data

VARIABLES
  memory,     \* address to byte
  meant       \* the text that each string and symbol stands for: the reference

strVars == <<vars, memory, meant>>

\* u1.ptr of a string, u2.ptr of a symbol
lso_string_get(x) == heap[x].val

strlen(a) ==
  LET ends == {b \in DOMAIN memory : b >= a /\ memory[b] = 0}
  IN (IF ends = {} THEN Sets!Max(DOMAIN memory) + 1 ELSE Sets!Min(ends)) - a

Text(a) == [k \in 1..strlen(a) |-> memory[a + k - 1]]

Named == {x \in 1..Len(heap) : heap[x].kind \in {"string", "symbol"}}

StrTypeOK ==
  /\ TypeOK
  /\ memory \in [DOMAIN memory -> Byte]
  /\ \A x \in Named : lso_string_get(x) \in DOMAIN memory
  /\ DOMAIN meant = Named
  /\ \A x \in Named : meant[x] \in Seq(Byte \ {0})

StrInit ==
  /\ Init
  /\ memory = Data
  /\ meant = [x \in Named |-> Text(lso_string_get(x))]

-----------------------------------------------------------------------------

BlockSize(n) == ((n + Extra + Granule - 1) \div Granule) * Granule

\* where a block may come to lie: in front of all others, or behind
Places(n) == {Sets!Min(DOMAIN memory) - BlockSize(n), Sets!Max(DOMAIN memory) + 1}

\* GC_malloc clears what it returns
GC_malloc(buf, n) ==
  [a \in DOMAIN memory \cup buf..(buf + BlockSize(n) - 1) |->
     IF a \in DOMAIN memory THEN memory[a] ELSE 0]

\* s written at a, wherever that is
Write(m, a, s) == [b \in DOMAIN m |-> IF b \in a..(a + Len(s) - 1) THEN s[b - a + 1] ELSE m[b]]

\* pads with zeros up to n bytes
strncpy(m, buf, str, n) == Write(m, buf, [k \in 1..n |-> IF k <= strlen(str) THEN memory[str + k - 1] ELSE 0])

-----------------------------------------------------------------------------

Recorded(op, args) ==
  /\ call' = [op |-> op, args |-> args]
  /\ it' = NULL /\ len' = 0 /\ idx' = 0
  /\ UNCHANGED program

Answer(op, args, b) ==
  /\ Called(op, args)
  /\ Return(Bool(b))
  /\ Recorded(op, args)
  /\ UNCHANGED <<heap, memory, meant>>

NewString(buf, text) ==
  /\ lsrt_new_object(<<Obj("string", buf, <<>>)>>)
  /\ meant' = [x \in Named \cup {Len(heap) + 1} |-> IF x \in Named THEN meant[x] ELSE text]
  /\ Atomic

StringPredicate(x) ==
  \/ Answer("string?", <<x>>, Is("string", x))
  \/ Answer("symbol?", <<x>>, Is("symbol", x))

\* the string shares the symbol's name
SymbolToString(x) ==
  /\ Called("symbol->string", <<x>>)
  /\ NewString(lso_string_get(x), meant[x])
  /\ UNCHANGED memory

StringLength(x) ==
  /\ Called("string-length", <<x>>)
  /\ lsrt_new_object(<<Obj("small", strlen(lso_string_get(x)), <<>>)>>)
  /\ Recorded("string-length", <<x>>)
  /\ UNCHANGED <<memory, meant>>

StringEqual(x, y) ==
  LET s(z) == Text(lso_string_get(z))
      lower(t) == [k \in 1..Len(t) |-> tolower(t[k])]
  IN \/ Answer("string=?", <<x, y>>, s(x) = s(y))
     \/ Answer("string-ci=?", <<x, y>>, lower(s(x)) = lower(s(y)))

\* mutant: buflen without the room for the zero
copySubstringTight(m, buf, str, start, end) ==
  LET buflen == end - start
  IN Write(strncpy(m, buf, str + start, buflen - 1), buf + buflen, <<0>>)

\* buf[buflen] lies behind the buflen bytes, and nothing is written to the last of them
copySubstring(m, buf, str, start, end) ==
  LET buflen == end - start + 1
  IN Write(strncpy(m, buf, str + start, buflen - 1), buf + buflen, <<0>>)

Substring(x, i, j) ==
  LET str == lso_string_get(x) IN
  /\ Called("substring", <<x, i, j>>)
  /\ \E start \in lso_simplenumber_get(i) : \E end \in lso_simplenumber_get(j) :
       \/ /\ start < 0 \/ start > end \/ end > strlen(str)
          /\ lsrt_error
          /\ Atomic
          /\ UNCHANGED <<heap, memory, meant>>
       \/ /\ start >= 0 /\ start <= end /\ end <= strlen(str)
          /\ \E buf \in Places(end - start + 1) :
               /\ memory' = copySubstring(GC_malloc(buf, end - start + 1), buf, str, start, end)
               /\ NewString(buf, SubSeq(meant[x], start + 1, end))

\* total_len + 1 bytes of zeros, and a strcat for each argument
StringAppend(args) ==
  LET texts == [k \in 1..Len(args) |-> Text(lso_string_get(args[k]))]
      all == Seqs!FlattenSeq(texts)
  IN
  /\ Called("string-append", args)
  /\ \E buf \in Places(Len(all) + 1) :
       /\ memory' = Write(GC_malloc(buf, Len(all) + 1), buf, Append(all, 0))
       /\ NewString(buf, Seqs!FlattenSeq([k \in 1..Len(args) |-> meant[args[k]]]))

StrStart ==
  \/ \E a \in Args(1) : StringPredicate(a[1]) \/ SymbolToString(a[1]) \/ StringLength(a[1])
  \/ \E a \in Args(2) : StringEqual(a[1], a[2])
  \/ \E x \in Named : \E a \in Args(2) : Substring(x, a[1], a[2])
  \/ \E n \in 1..MaxArgs : \E a \in Args(n) : StringAppend(a)

StrNext ==
  \/ Next /\ UNCHANGED <<memory, meant>>
  \/ pc = "idle" /\ StrStart

StrSpec == StrInit /\ [][StrNext]_strVars /\ WF_vars(Walking)

-----------------------------------------------------------------------------

(***************************************************************************)
(* Whatever strings are cut out of each other and put together, the bytes of  *)
(* every one of them go on spelling what it means, the byte that substring     *)
(* writes behind its buffer and the names that symbols share with strings     *)
(* notwithstanding, and length and comparison go by that meaning.             *)
(***************************************************************************)
StringsRight ==
  LET x == call.args[1]
      y == call.args[2]
      lower(s) == [k \in 1..Len(s) |-> tolower(s[k])]
  IN
  /\ \A z \in Named : Text(lso_string_get(z)) = meant[z]
  /\ Done("string-length") => heap[ret].val = Len(meant[x])
  /\ Done("string=?") => ret = Bool(meant[x] = meant[y])
  /\ Done("string-ci=?") => ret = Bool(lower(meant[x]) = lower(meant[y]))
=============================================================================
