# llscheme in TLA+

llscheme is a compiler from Scheme (R5RS) to LLVM IR, an interpreter built on the
same code generator and LLVM's JIT, and a C runtime library. This directory models
its parts, checks them on small instances with TLC and proves the most important
facts about them with TLAPS. Source paths below are relative to the repository.

## The system

The program has a single thread. What makes it hard is not interleaving but long
sequences of small steps over shared mutable state, with errors in the middle:

| Component | State it keeps | Operations | Used by |
|---|---|---|---|
| code stream, lexer (`src/codestream.cc`, `src/lexer.cc`) | one character of lookahead | `getchar`, `consume`, `nextToken` | parser |
| parser (`src/parser.cc`) | token lookahead, stacks of open lists | `parseSExp`, `peekToken`, `consume`, `match` | main |
| AST (`src/include/astnodes.hh`) | nodes with arguments and a dotted flag | `addArgument`, `tagDotted`, printing | parser, code generator |
| compile-time environment (`src/env.cc`) | global symbols, a stack of scopes, a parallel stack of captured names | `newScope`, `exitLastScope`, `addBinding`, `searchLocalBinding` | code generator, drivers |
| code generator (`src/codegen.cc`) | the LLVM module, the builder's insert point, the environment | `codeGenEval` of every node, `createFunction`, the syntax handlers | drivers |
| drivers, main (`src/driver.cc`, `src/main.cc`) | the module, the builtins declared in it, the symbols' values at run time | `codegen`, `InterpreterRun`, `CheckBuiltinProcs`, the input loop | the user |
| numbers (`src/runtime/number.c`, `number.h`) | an accumulator of int, mpz, mpq or mpf parts | `+ - * /`, `= < > <= >=`, predicates, `string->number` | generated code |
| pairs, lists, vectors (`src/runtime/pairlist.c`, `vector.c`) | the heap | `cons`, `set-cdr!`, `length`, `vector->list`, ... | generated code |
| strings, output (`strings.c`, `io.c`) | strings, stdout | `substring`, `display`, ... | generated code |
| runtime support (`utils.c`) | allocation, the error exit | `lsrt_new_object`, `lsrt_error`, argument checks | all builtins |

Components interact by calls only. The states they share are the environment
`eenv` (code generator and `CheckBuiltinProcs`), the LLVM module (all forms of an
interpreter session) and the heap. An `Error` unwinds everything between the throw
and `main()`; a run-time error comes back to the interpreter's prompt through
`lsrt_exit_hook`. What has to be right:

* **environment and code generator**: every variable read reaches the binding that
  lexical scoping gives it, through however many closures; no emitted operand
  mentions a deleted placeholder; scopes and functions are opened and closed together;
* **drivers**: a builtin has its value before code that uses it runs; the user's
  definitions are never overwritten, in whatever order forms name and define them;
* **numbers**: exact arithmetic is exact across representations, results are in the
  smallest representation, comparisons agree with the values;
* **parser**: exactly the data of the grammar are accepted, the tree is what the
  tokens spell, no token is asked for that the datum does not need;
* **heap**: loops end and answer correctly on any heap a program can make; no object
  refers to nothing; a string keeps its text whatever is cut out of others;
* **lexer**: exactly the tokens of the text, each without looking further than its end
  takes; its loops end unless the input stops inside a token;
* **number input and output**: a numeral is read as the number that R5RS says it is,
  nothing else is a number, and what is printed reads back as the same number;
* **emitted code**: every function passes LLVM's verifier, does what its body says on
  every path, and is not touched again once it is complete.

## Modules

### ExecutionEnv, CodeGen, Driver

`ExecutionEnv` holds the methods of class `ExecutionEnv` as operators from one
environment to the next. A scope is a function from names to values or `NULL`; a
value is an argument of a function, a slot of its freelist, or a placeholder
(`AllocaInst`). `searchLocalBinding` answers and changes the environment, so it is
two operators, `searchLocalBinding` and `afterSearch`.

`CodeGen` adds what `codeGenEval()` does with it. The program is not fixed: each
action is one thing the generator may meet next (a variable, a `define`, a function,
any Error), and a behaviour is the generation of some program. Forms that only contain
other forms do nothing to the environment and have no action. `createFunction` is
cut at its body: `BeginFunction` creates the function, opens the scope and binds the
parameters; `EndFunction` does everything after the body: the loads that replace the
placeholders, the fills of the freelist in the parent, `exitLastScope` and the
restored insert point. `handleDefine` is cut in the same way. `handleDefine` also casts the
first of the formals to a symbol without a look (`codegen.cc:506`). Where it is none, or
there is none, what happens is undefined: the process ends (`MalformedDefine`), or
goes on with what it read as if that were a name (`BeginDefine`, `Redefinition`). Emitted code is kept as
`uses` (reads), `stores` (definitions) and the operands of each function's freelist.

`Driver` composes it with the two drivers: `codegenInit`/`codegenFinish` once, or
`InterpreterRun` for each form, `CheckBuiltinProcs` one builtin at a time, then the
run of the form. At run time only the symbols' values (`cell`) are kept: the prolog
installs builtins, and the body performs any subset of the definitions in the code
generated so far, since it may call earlier functions or stop at an error.

### Blocks

What `CodeGen` leaves out of the same generator: the instructions, the basic blocks and
the builder's insert point. `blocks` is every `BasicBlock` created, `funs` the list of
blocks of each function, `insert` the block the builder writes to, `stack` the open
activations of `codeGenEval` and the handlers, cut wherever one generates a sub-form
(`BeginIf`, `IfTest`, `IfThen`, `EndIf`; `BeginApp`, `AppOperator`, `EndApp`; ...). An
instruction is kept as what it does, the operand it defines and those it uses; loads and
stores that always come together are one. Names are resolved (that is what
`CodeGen` is about): a variable is the function whose parameter it is. A captured variable
is the load in the `prolog` block from the start; the placeholder in between is in `CodeGen`.
`Throw` drops the activations and leaves the insert point where it is, as the code does.

`Verified` is LLVM's `verifyFunction` written out: one terminator per block, phis that name
their predecessors, definitions that dominate their uses. `CodeCorrect` runs the blocks
(`Exec`) for every choice of the tests that succeed and compares with the effects of
the tree of forms (`Effects`, `Result`), which know nothing of blocks.

### Fixnum, Number, Arith

`Fixnum` has the int arithmetic of `number.h` with an int width given by the constant
`H` (ints are `-H..H-1`; the code has `H = 2^31`): the three overflow tests,
wrap-around, the trap of `%`. `Number` has `_re_promote`, `_re_canonicalize`,
`_re_arith2`, `_re_order2`, the complex product and inverse. `mpz` and `mpq` are exact
integers and fractions; `mpz_divexact` of an inexact division and a wrapped int
comparison are what the C standard and GMP leave open: `Undefined`, or a set of
outcomes. `Arith` is the loop of the builtins over their arguments.

### Characters, Lexer, Scanner

`Lexer` is `nextToken` and its helpers, one step per character, on the stream that keeps
one character. `pos` counts the characters consumed, `taken` the `get()` calls on
the `istream`: that is what blocks at a terminal. At the end of the input `getchar`
goes on returning the same -1 and `consume` does nothing, so the loops of
`getNumber`, `getString` and `skipComment` may stay there for ever. `Scanner` is what a lexer
promises: the next token is found by looking at the whole text (the longest run without
a delimiter, a string up to its quote), and its kind depends on the run alone. `Lexer`
implements it (`ImplementsScanner`): `pc = "error"` stands for `failed`, the rest of
the lexer's state is hidden.

### Numeral, Reader

`Numeral` has `_ston` with one step per prefix and per part of a complex number,
`_ston_parse_real`, the conversion of an exact decimal, `NumberASTNode::codeGen`, the
text that `_ntos` makes of an exact number and the tests behind `real?`, `exact?` and
`integer?`. GMP's conversions are external. An inexact number keeps its type and the
rational it was written as; rounding is left out. The reference is the grammar of
R5RS 7.1.1 without polar numbers, as the set of meanings a text may have
(`Meanings`), from the ways to split it. `Reader` composes the two: a program of
constants is lexed, then each number is made, displayed and what was displayed is read
again; each string goes to `string->number` with some radix.

### Parser, Quotation

Tokens are the input, `Inputs` a set of token sequences; `"bad"` stands for input on
which the lexer throws, and `"unended"`, which can only come last, for input that stops
inside a number, a comment or a string: `nextToken` reads on for ever (`lexer.cc:104`, `131`,
`140`), `fillToken` gets no answer (`Endless`), and the program stays where it is. `calls` is the stack of `parseSExp` activations, each with its
own stack of open lists and with what it waits for when it has called itself (for
the datum after a quote or a dot). `fetched - pos` is the length of the lookahead. At end
of input `parseSExp` runs off its end without a return statement; the model returns an
unknown node (`Garbage`) or crashes. What the interpreter does with a form happens
inside `Take`.

`Quotation` adds to each datum that the parser hands to `main()` the objects that
`SExprASTNode::codeGen` makes of it under a quote and what `display` writes of those. A
list that starts with a dot has one argument and is dotted, so that `codeGen`
reads an argument that is not there; such a datum may crash (`ShowUndefined`).

### Heap, Strings

Objects with their kind, `u1.val` and the objects they refer to. Every builtin of
`pairlist.c` and `vector.c` is an action on arguments taken from the heap; `Reject` is
a failed argument check. The loops of `_length`, `_listp` and `list-ref` take one step
per pair, with `len` an int that wraps at `IntMax`. The three globals (`#t`, `#f`,
unspecified) are results but never arguments: they behave like any other object that is
neither pair, nil, number nor vector. A big number read as an int yields any value of
`PointerBits`.

`Strings` adds the builtins of `strings.c` over a memory of bytes. `GC_malloc` returns a
cleared block in front of or behind all others, of the requested size plus `Extra` rounded
up to `Granule`. `substring` writes its zero one byte behind the size it asks for and never
writes the last byte of it; what keeps it correct is that the collector clears memory and
adds a byte (`Extra = 1`, the Boehm collector's default). With `Extra = 0`, TLC finds
`StringsRight` violated: the zero cuts off a neighbour's first character.

## Runs

| Run | Checks | Bounds |
|---|---|---|
| `reader` | the lexer implements the scanner (`ImplementsScanner`) and asks for no more characters than it needs (`ReadsNoFurther`); `NumeralRead`, `OnlyNumerals`, `PrintedReadsBack`, `PredicatesRight` | all texts of up to 3 characters of every class, of 4 over those that meet in one token; numerals of up to 4 to 7 characters; `string->number` with 3 radices |
| `compile_scope` | one compilation: `LexicalScope`, `Chained`, `PlaceholdersDistinct`, `NoDanglingPlaceholder`, `ScopesMatchFunctions` (scopes, open functions and the insert point agree) | 2 names, `main` and 3 functions, nesting 4, 1 parameter each, 1 definition |
| `repl` | an interpreter session with Errors in every place: `BuiltinReady`, `DefinitionStays`, `LexicalScopeUnlessLeft` | 2 names, one of them a builtin, 4 functions over all forms |
| `repl_scope` | violated: `LexicalScope` in the interpreter | as `repl` |
| `blocks` | compiler and interpreter: `Verified`, `CodeCorrect`, `CompletedStay` | 7 forms generated, open and begun together, 4 functions, 2 top-level forms |
| `arith` | `Exact`, `CanonicalResult`, `ZeroDivisorTraps`, `OrderCorrect` | 3-bit ints, 11 integers, 2 fractions, 20 complex numbers; up to 3 real or 2 complex operands, and a list whose wrong quotient is `-H` |
| `order2`, `divide` | violated: `OrderIsSign`, `NeverInexact` | pairs of reals |
| `parser` | `RoundTrip`, `DataAccepted`, `OnlyData`, `NoReadAhead`, `ShownReadsSame`, `Terminates` | all inputs of up to 4 tokens, and of up to 6 with one atom and no lexer error; all that are a token shorter with an unended one behind |
| `heap` | `Closed`, `LengthCorrect`, `ListRefCorrect`, `RefsPairs`, `SlotsInOrder`, `StringsRight`, `WalkEnds` | four kinds of programs, up to 3 new objects, vectors of up to 2 slots, strings of 2 characters and what can be made of them |
| `circular`, `index` | violated: `LengthAnswers`, `IndexIsSmall` | 2 new objects |

Each component's type invariant is checked in one run.

Why the bounds are enough to meet the interesting cases: three nested functions are
what it takes for a name to be captured through a function that does not itself use it;
a second function after a first is enough for stale scopes and reused placeholders;
four forms are enough to fail, define, name a builtin and use it. Three-bit ints make
every sum, difference and product of two ints overflow in both directions for some
operands. Six tokens hold a quote in a list in a list, a dotted list after a
quote and two data in a row. Three pairs make a circle with a tail, shared tails and
dotted lists. Seven forms hold an `if` in each branch and in the test of another, with
the value of the inner one used by the outer phi, an `if` in a closure, and three
functions in each other of which the inner one captures through the middle one; the second
top-level form meets what an Error in the first left behind. In the text sets every pair
and triple of character classes occurs, so every exit of each loop of the lexer with every
next character; the numerals hold a sign, a fraction, a point, an exponent, a `#` and an `i`
in every order of four. Two-digit exponents are left out (`SmallExponent`: TLC's integers);
`FitDigits = 1` puts the border between literals and `string->number` within reach.
Two strings of two characters are cut and joined in two calls, which is enough for
a block to get a neighbour.

`MaxFun`, `MaxFormals`, `MaxDepth`, `MaxStores`, `MaxArgs`, `Inputs`, `ArgLists`,
`Programs`, `PointerBits`, `Radices`, `MaxNodes`, `MaxFuns` and `MaxForms` are bounds of the instances; the other constants are
parameters of the code. Deadlock is not checked where the program ends
(`CHECK_DEADLOCK FALSE`); the heap model never ends and is checked.

**Fairness.** Safety runs assume none. `Quotation` (with `Parser`) has weak fairness of its
next-state relation, `Heap` of the loops' steps and `Reader` of the lexer's: a single thread that can go on does go on,
and nothing else runs meanwhile. `Heap` does not assume that a program makes another call.
For the parser, whose step asks for a whole token, fairness takes it that `nextToken` returns
wherever the input has a token or an Error: the `reader` run shows that of the lexer. Where
it never returns there is a state of its own, and `Terminates` names it: `main()` comes to
an end unless the input stops inside a token.

**References.** The properties compare with definitions that do not follow the code:
`Denotes`/`Binder` (what an operand means at run time against the innermost enclosing
parameter), rational arithmetic on pairs, the grammar of R5RS 7.1.2 as a function of
token ranges, the set of tails of a list, the grammar of R5RS 7.1.1 as sets of splits,
`Scanner`, the tree of forms in `Blocks`, the texts that strings are meant to have.

## Findings

1. `repl_scope`: an Error inside a function body leaves the function's scope open
   (`codegen.cc:384`). In the interpreter the next form resolves its names in
   that scope. `LexicalScopeUnlessLeft` and `BuiltinReady` show that this is the only
   way in which the interpreter loses lexical scoping or a builtin.
2. `order2`: `_re_order2` subtracts ints without an overflow test (`number.h:454`).
   `OrderCorrect` holds for neighbours less than 2^31 apart, and for `=` always.
3. `divide`: a small number divided by a big one reaches `mpz_divexact`
   (`number.h:379`), whose result is undefined when the division is not exact.
4. `circular`: `_length` and `_listp` never return on a circular list (`pairlist.c:140`).
5. `index`: `list-ref`, `vector-ref` and `make-vector` read the int out of any
   number (`pairlist.c:206`, `vector.c:82`, `vector.c:131`).

The properties leave out by name, and the models do as the code does, where the code
departs from R5RS and no document of the repository says otherwise:

* a list may start with a dot, `( . a)` (`OnlyData`), and quoting it reads past the
  arguments (`Unusable` in `ShownReadsSame`, `codegen.cc:248`);
* `#e1.e2` loses its exponent, since the scan of the fraction fails on an empty one
  (`ExponentLost`, `number.c:569`); `1/2#` is exact (`PoundBelow`, `number.c:733`);
* `1e-` is 0, `i` parts may come first, `+1/i` is `i` (`SignOnly`, `ImaginaryFirst`,
  `UnitBelow` in `OnlyNumerals`); `1/0` stops the process (`NumeralRead` says so);
* `integer?` of an inexact real reads the missing imaginary part (`number.c:80`,
  `PredicatesRight` says so);
* a number, string or comment at the very end of the input is read for ever (`"waits"` in
  `Scanner`).

## Proofs

| Theorem | Says | Module |
|---|---|---|
| `TypeCorrect` | `Spec => []TypeOK` | `DriverProofs` |
| `ChainedAlways` | captured names come from the scope around, after any sequence of forms and Errors | `DriverProofs` |
| `PlaceholdersStayDistinct` | no placeholder stands for two names or two scopes | `DriverProofs` |
| `NoDangling` | no emitted operand mentions a deleted placeholder | `DriverProofs` |
| `CompilerScopes` | in the compiler there is one scope for each open function, code goes to the innermost, and the innermost scope binds that function's parameters | `LexicalProofs` |
| `DefinitionsStay` | no step replaces a definition by a builtin | `DriverProofs` |
| `LexicalUnlessLeft`, `CompilerLexicalScope` | closure conversion implements lexical scoping: always in the compiler, in the interpreter until an Error leaves a scope behind | `LexicalProofs` |
| `BuiltinsReady` | at every prompt the builtins that finished code reads as globals have values | `LexicalProofs` |
| `ReplaceExact` | `replaceAllUsesWith` turns the placeholders of the function that ends, and no others, into the loads of their slots | `DriverProofs` |
| `HeapClosed` | references lead to objects, vectors have no empty slot | `HeapProofs` |
| `LengthAnswered`, `ListRefAnswered`, `RefOnPairs` | `list?`, `length` and `list-ref` answer by the tails of their argument, on every heap | `HeapProofs` |
| `VectorListed` | `vector->list` lists the slots in order | `HeapProofs` |
| `StringsSpell`, `StringTypes` | strings and symbols spell what they mean, whatever `substring` writes behind its buffer | `HeapProofs` |
| `NeverReadsFurther` | the lexer asks for no character that a token does not need, for any set of texts | `ReaderProofs` |
| `LexerScans` | every step of the lexer is a step of the longest-match scanner, or none (the safety part of `ImplementsScanner`) | `ReaderProofs` |
| `ReaderTypes` | type correctness of `Reader`: no scan of `_ston` leaves its text, and what is stored is canonicalized | `ReaderProofs` |
| `GmpGetsNumeralsButTwo` | what `_ston` gives a conversion is a numeral that it takes, or a fraction without a denominator, or a decimal whose exponent has no digit | `ReaderProofs` |
| `PrintedIsReadBack` | every exact number that `display` writes is read back as itself | `ReaderProofs` |
| `AddOverflowExact`, `SubOverflowExact`, `MulOverflowExact` | the overflow tests are right for every pair of ints | `NumberProofs` |
| `FixnumExact` | when `_re_arith2` stays in ints, `+ - *` are exact | `NumberProofs` |
| `DifferenceSignFacts` | when comparison by subtraction is right | `NumberProofs` |
| `CrossEqual` | two fractions in lowest terms are equal if their cross products are | `NumberProofs` |
| `Arith2Outcome` | one `_arith2` is exact and canonical, or undefined, or a trap, for all canonical operands, real or complex | `ArithProofs` |
| `ArithExact`, `ResultsCanonical`, `DivisorsChecked` | `+ - * /` of any number of arguments of any size: the exact result in its smallest representation; what stops a division | `ArithProofs` |
| `ComparisonsRight` | `= < > <= >=` answer as the values compare, unless neighbouring ints are `H` or more apart | `ArithProofs` |
| `ArithTypes` | type correctness of `Arith` | `ArithProofs` |
| `DatumSpelled` | each datum stands for exactly the tokens consumed for it, for any input, nesting and number of forms | `ParserProofs` |
| `NoDatumRefused` | the parser throws, runs off its end, returns a broken node or is left without an answer by the lexer only where no datum of the grammar starts | `ParserProofs` |
| `OnlyDataAccepted` | what it returns is a datum of the grammar, or broken, or has a list that starts with a dot | `ParserProofs` |
| `NothingReadAhead` | a complete datum is returned with the lookahead empty | `ParserProofs` |
| `ParserTypes` | type correctness of `Parser` | `ParserProofs` |

They hold for every set of names (finite, of naturals: the order of `std::map`), every
bound and every `H >= 2`, from the assumptions named in the modules.

The invariant of `DriverProofs` is
`IInv == TypeOK /\ EnvInv(env) /\ StackOK /\ ScopesOpen /\ NoDanglingPlaceholder`. Alone,
`NoDanglingPlaceholder` is not inductive: `EndFunction` replaces the placeholders of
the innermost scope only, so the others must belong to scopes that stay open, which
needs that placeholders are distinct; that needs that new ones are newer than all
existing ones (`OldPlaceholders` in `EnvInv`), and that the scope which is closed is one
that was opened for a function (`ScopesOpen`, `StackOK`). `EnvInv` is preserved by each
method of the environment; `DriverProofs` has those lemmas first, then what
`replaceAllUsesWith` does to operands, then one lemma per action.
`CompilerCount` strengthens `ScopesOpen` to an equality of numbers, which Errors break in the
interpreter only. `DefinitionsStay` adds `InstallInv`: whatever a form can define is a
global symbol, every builtin that is a global symbol has been declared once
`CheckBuiltinProcs` has passed it, so a builtin with a user's value is declared and
can no longer be among those the prolog installs.

`LexicalProofs` goes on from there. A variable read in finished code is a chain of loads
from freelists, of any length, and `Denotes` follows it by recursion on the depth of the
scopes; the invariant is local instead: each operand of an open function stands for its
name in the scope that emitted it (`StandsFor`), each slot of a freelist belongs to the
scope that captured it (`Owned`), and each name a scope takes from outside is resolved
in the scope around it (`Resolved`). One induction on the depth turns that into
`Denotes`. The one thing that breaks it is an Error that leaves a scope on the stack,
after which the interpreter resolves names of the next form in a scope that no function
owns: hence `LexicalScopeUnlessLeft`, and `LexicalScope` for the compiler.

`CompilerScopes` adds the insert point to `CompilerCount`. Each activation keeps the insert
point of the one below it, which is the parent's (`InsertOK`), and has its code in the
innermost function at or below it, past any definitions (`InnermostOK`); so what `EndFunction`
and `EndDefine` restore is the innermost function again (`InsertPoint`). With as many
scopes as functions, the innermost scope is that function's own (`OwnArguments`).

`Recursion` holds what such inductions rest on. The library's induction theorems take
an operator, which the provers cannot instantiate; here induction on the naturals
speaks of a set of numbers, and `RecursiveFunction` solves a definition `F[h] == ...` by
recursion for a functional given as a function. `Denotes`, the tails of an object, the
scanner's `Begins`, `gcd` and the written form of nodes are solved by it.

`HeapProofs`: the reference is `Tails`, the least set that is closed
under `cdr`, which takes as many rounds as there are objects (that many rounds suffice
because each but the last adds one). The invariant of the heap is
`HInv == TypeOK /\ HeapOK /\ LoopsOK /\ AnswersOK`: what the loops of `length`, `list?`
and `list-ref` hold is a tail of their argument, at the distance they have counted; what
has been answered is right. No property is inductive by itself: `RefsPairs` needs that
the first loop of `list-ref` has counted at least as many pairs as the second walks, and
that the heap does not change in between. `SInv == HInv /\ NamesOK` adds that each
string points to a buffer that spells its text (`Spelled`). It needs `Extra >= 1`, the
spare byte that the collector's allocator adds to each block; with `Extra = 0`, TLC finds
`substring` writing into its neighbour.

`ReaderProofs` needs `ReadsNoFurther` with the types of the lexer only: every step either
returns a token, after a look at the next character or after consuming its last one, or goes
on inside a token, where nothing is claimed. `LexerScans` needs more: each place in the
lexer is tied to where the scanner says that the token begins (`ScanInv`: at rest, looking
at the first character, in a comment, in a string, in a run of characters, or still
asked), the characters of the run hold no delimiter, and the flags of the loop say which
tokens are still possible. `Begins` of the scanner skips space and comments by recursion
to the end of the text, and is solved counting from there. That the loops end, the
fairness part of `ImplementsScanner`, is TLC's.

For the conversions, `ParseFacts` puts all scans of `_ston_parse_real` into one statement
(`Passed`): where the sign, the digits, the `#`s and the exponent end, and what has been
written over them. `_ston` hands a piece of its copy to GMP, cut at the places that
up to two scans found; `PartTexts` shows that the piece is digits, or digits, a bar
and digits, or a decimal (`IntegerText`, `FractionText`, `DecimalText`). What GMP's
conversions make of it is
a fraction (`Raw`); canonicalized it is a number in its only representation (`Good`) or
a fault. That is `ConvTypes`, the invariant behind `ReaderTypes`. It assumes
`RadicesAssumption` (radices 2 to 36; `string->number` checks nothing, and GMP defines
other radices differently) and `FitDigitsAssumption` (what is compiled as an int fits).

`GmpGetsNumeralsButTwo` says more of the pieces (`GmpGets`): each suits the conversion of its
type (`Suits`), in digits of the radix, of which an integer and both sides of a slash have
at least one; a point stands in decimals only, once. `_ston` looks at no result of `mpz_set_str`, `mpq_set_str` and `mpf_set_str`, so a text
that they refuse would give the value 0 without an error. The digits accepted are a
prefix of one string, `cstr`, whose length depends on the radix; that the prefix is right
for each radix is `NumericDigits`. Two texts that these functions refuse do get through,
and `Suits` names both: a fraction without a denominator (`NoDenominator`), only before `i`
(`+1/i`), and an exponent without a digit (`NoExponent`, `1e-`).

`PrintedReadsBack` speaks of the end of a conversion; `Again` says what is true on the way
there: the text is still what was written, and the conversion is either at its first
character with nothing stored, or behind the real part with that part stored. That a
complex number is cut where its parts were joined follows from each part's first
character: a digit or a minus, and a sign for the imaginary one (`FirstCharacter`,
`ImTextFacts`, `Joined`). `ParseDigits` says that the scan of a part stops there, `ShownFacts`
that its digits spell its value (`DecimalSpells`, from the digit by digit definitions of
both directions), and canonicalizing that value gives back the number
since it was canonical (`CanonicalKept`). TLC checks the property on short numbers; the
proof is for all of them.

`NumberProofs` and `ArithProofs` go up from ints to calls. The overflow tests need no more than wrapping.
`gcd` is a recursive definition: `RecursiveFunction` solves it, and induction shows that it
divides both arguments and is a combination of them (`Common`). From that, a fraction
in lowest terms is the only one of its value (`RatUnique`), equality and order of
fractions are those of the cross products (`CrossEqual`), and sums and products of
fractions may be put in lowest terms at any point (`LowestScale`). `Standard` says that a
number is in its only representation; `re_canonicalize` establishes it (`CanonicalizeFacts`)
and every branch of `_re_arith2` ends there, with the sum, difference, product
(`SumExact`) or quotient (`QuotientExact`) of the fractions, in what `mpz_divexact` leaves,
or in a trap; the last two stay what they are through any later operation
(`FaultyFacts`). A complex quotient is a product with an inverse: `OverSum` and
`InverseFacts` relate it to the division of the reference. `_re_neg` cannot negate `-H`,
hence the condition `Negatable`. The invariant of the loops is
`ArithInv` (`Exact` and `ZeroDivisorTraps` together: a trap at `-H / -1` is only known
to be due because the number so far is exact) and `OrderInv`: the loop of `_order` goes on
only while all pairs so far are related. `Folded`, the reference, is solved by induction
on the number of arguments (`FoldedFacts`). The one assumption is `ArithAssumption`: the
arguments are objects of another type, or exact numbers in canonical representation, which
is what `ResultsCanonical` says of results.

`ParserProofs`: `Written`, in which `RoundTrip` is stated, is a recursion over the nodes.
`TextsFacts` solves it by induction from the last node back, since a node is older than
its arguments (`Acyclic`), and `TextsStable` says that only the text of an open list
changes when it takes an argument, since it is nobody's argument yet (`Unshared`).
`RoundTrip` is about complete forms only and far from inductive. `Shape` says what the
stacks hold: lists that get younger towards the innermost; those below the top only
take arguments, and the top of an activation that waits is the list of its quote or dot.
`Spelled` says what they spell: the openings of the lists, from the outermost on,
are the tokens read since the last form (`Chain`), so that what completes a
list, or the datum that an activation returns, ends at the token consumed last. What is
returned at the end of the input is broken.

`DataAccepted` and `OnlyData` compare that with the grammar, a recursion over the ranges
of tokens. `GrammarFacts` solves it by induction on the length of the range, and `Rules`
are its productions. `Stands` says of a text that wherever it is found it is a datum and no
datum starts there and ends elsewhere; `InRow` says the same of data in a row.
One lemma per production shows that what is written as the parser writes it stands for a
datum, and `ClosedStands` carries that to every node but the open lists, for which `Finished`
is needed: a list that is complete has what its quote or dot announced. That gives
`OnlyData`; a dot right behind a parenthesis is the one text the parser takes and the
grammar does not. For `DataAccepted`, `Spelled` says that no datum starts behind the
last form once the parser has thrown, or has lost the text at its end. `Inward` proves it:
if a datum starts there, it has to go on in the innermost open list at the next token
(`GoesOn`: another datum, a dot or a parenthesis in a plain list; a datum behind a quote;
one datum and a parenthesis behind a dot), because none of the texts of the lists
around it can be read in another way; and each refusal is of a token that cannot.
TLC checked `Shape`, `Spelled` and `Finished` on the inputs of the `parser` run
before they were proved. The theorems are about `Parser`; `Quotation`, which adds
the objects of each form and changes none of the parser's variables, has recursive operators.

Only model-checked: liveness (`Terminates`, `WalkEnds`, the fairness of `ImplementsScanner`);
`NumeralRead`, `OnlyNumerals` and `PredicatesRight`, which
compare `_ston` with the grammar of numerals; the properties of `Blocks` and `Quotation`. `Blocks` and `Quotation` use recursive operators over trees, out of the prover's reach.

## Not modelled

* Operations on inexact reals (`mpf`) and `_re_sqrt`, the rounding of decimals, and the
  printing of inexact numbers: GMP's algorithms, with no state of the program's own.
* Type set-up (`InitializeLSTypes`, `InitializeLSRTFunctions`, `driver.hh`) and the
  helpers that build constant objects: straight-line calls of LLVM.
* The AST printer and the visitors; `display` of procedures and vectors; the wording of
  errors (two of which, `lexer.cc:160` and `lexer.cc:170`, add a character to a pointer).
* The zero that `sscanf` writes behind the one character it was given for the sign of an
  exponent (`number.c:559`): what lies there is the compiler's choice.
* `lsrt_main_retval` and `lsrt_test_expr`: no state.
* LLVM, GMP and the garbage collector: external, modelled by what the code relies on.
* `src/llscheme.in` and `utils/` (scripts), `src/prototyping` (experiments).

## Plan

1. Done: environment, code generator with its instructions, drivers; exact arithmetic;
   lexer, number input and output; parser and quoted data; heap and strings.
2. An abstract specification of scoping (names resolved in a tree of functions) and
   `Driver` shown to implement it.
3. Calls at run time: argument counts (`utils.c:122`) and freelists passed by the caller.
4. Proofs left: that `_ston` reads what the grammar of numerals says (`NumeralRead`,
   `OnlyNumerals`) and, from that, `PredicatesRight`. `ParseFacts` is where they start.
