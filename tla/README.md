# Tiny Lisp in TLA+

Tiny Lisp compiles a small Lisp to x86-64 assembly: a lexer and a parser make
a syntax tree, the code generator walks it once and writes the sections of an
assembly file, which is assembled and linked with a C runtime. Everything is
sequential. What is hard about it is not concurrency but *sequences of steps*:
a hash table that grows while it is growing, symbol information that is freed
while someone still holds it, scopes and files that are opened and closed
around recursive calls, and code whose effect on the stack is decided in four
different places of the compiler.

## Inventory

| Component | State | Operations | What makes it correct | Here |
|---|---|---|---|---|
| symbol map (`symbol.c`) | buckets, capacity, size; ownership of `SymbolInfo` | create, emplace (grows), lookup, free | behaves as a map whatever growth happens; frees each object once | `NameMap`, `SymbolMap`, `NextPrime`, `SymbolMapSearch` |
| symbol information (`symbol.c`) | name, kind, slot or label | constructors, free, `mutate_func_name` | label of a use = label of the definition | `Scope`, `Codegen` |
| symbol table (`scope.c`) | chain of scopes, stack offset of each | create, enter, exit, define, lookup, destroy | lexical scoping; no shared slots; ownership | `Scope`, `SymbolTable`, `SymbolTableProofs` |
| code generator (`codegen.c`) | symbol table, section files, `label_counter`, swap of `text_file` and `func_file` | one handler per form | well-formed assembly; errors end it | `Codegen`, `CodegenProofs` |
| generated program and runtime (`codegen.c`, `runtime.c`) | registers, stack, data section | the instructions emitted, the runtime functions | means what the source means; stack discipline | `Machine`, `LispSemantics`, `Compiler`, `MachineProofs` |
| expression tree (`expr.c`) | vectors of expressions, length and capacity | create, append, cleanup | growth keeps the elements | built by `Parser`, read by `Codegen` |
| lexer, tokens (`lexer.c`, `token.c`) | position, line, column, lexeme buffer | `lexer_next` | tokens tile the text, maximal, at the right places; progress | `Lexer`, `LexerProofs` |
| parser (`parser.c`) | lexer, current token, activations | recursive descent | accepts `grammar.txt`, rejects at the first wrong token | `Parser`, `Reader`, `ParserProofs` |
| section files (`global_data_sections.c`) | five temporary files and the output | create, finalize, destroy | sections stay apart and in order; temporary files removed | `Sections` |
| driver (`main.c`) | file names, exit status | main | success means an output, failure changes nothing | `Driver`, `DriverProofs` |

`main` calls the parser, which pulls tokens from the lexer, and hands the tree
to `compile_program`. That owns the symbol table and the section files; every
handler of `codegen.c` writes to the file `text_file` currently names and
calls the symbol table, whose scopes each own one symbol map, which owns the
`SymbolInfo` objects. The handlers hold pointers into that map across
recursive calls. The generated code calls the runtime and nothing else.

The hazards in `PROJECT.json` are the list the properties are aimed at; those
without a property say why.

## Modules

**`NameMap`** is what a symbol map promises: a partial function from names to
objects. **`SymbolMap`** is the hash table. `symbol_map_emplace` calls
`_symbol_map_resize`, which calls `symbol_map_emplace` for each entry of the
old array, which may grow the table again; the C call stack is the variable
`frames`, and an action is one probe of a bucket or one turn of the copying
loop (`Grow`, `ResizeMove`, `ProbeNext`, ...). `heap` says of every
`SymbolInfo` whether it is live or freed, so that a double free is a state.
The refinement maps an array being copied, the entries in flight and the
array being filled to one abstract map (`Contents`). Hashes are a constant:
the values of `hash_string` before reduction modulo the capacity.
`find_next_prime` is used by what it returns (`FindNextPrime`). Failed
allocations, which end the process, are left out.

**`NextPrime`** is that function, one step for every turn of its loops: an odd
candidate, odd divisors up to the root, and a second test of the loop condition,
after a candidate may have been replaced, that decides whether the first loop
found a divisor. **`Primality`** holds what a prime is, for both modules.
**`SymbolMapSearch`** composes the two: `symbol_map_create` and
`symbol_map_emplace` call the function for the capacity of a new array
(`CallSearch`) and wait until it has returned (`GrowAsFound`). It is shown to
implement `SymbolMap`.

**`SymbolMapProofs`** proves that the types of the map hold, that probing is
sound, and that `SymbolMapSearch` implements `SymbolMap`;
**`SymbolMapRefinement`** that it owns its entries, is never full, and
implements `NameMap`.

**`Scope`** has the operations of `scope.c` as functions from a symbol table
to the table they leave. The map inside a scope is the abstract one of
`NameMap`, which `SymbolMap` is shown to implement. **`SymbolTable`** runs
these operations in any order; **`SymbolTableProofs`** proves its properties.

**`Codegen`** uses the same functions. The recursion of the handlers is the
variable `work`, a stack of tasks: an expression to compile, instructions to
emit, or the part of a handler after its last recursive call (`StartLocal` /
`FinishLocal`, `StartCall` / `FinishCall`, ...). A section is a sequence of
instructions. `inFunc` is the swap of `text_file` and `func_file`. Every error
exit is a disjunct of `Rejected`; the undefined behaviour of malformed
definitions is `Crash`; a `SymbolInfo` used after it was freed (`Stale`) gives
any of the values that memory can hold. Comments, alignment directives and
`extern` lines are not kept. A name is the sequence of its characters, runs of
letters and digits counting as one, so that `sanitize_label` and
`mutate_func_name` can be modelled by what they do. `Exprs` are the expressions
a program may contain: atoms, and lists whose elements are such expressions in
turn. That set is a constant because the parts of an expression cannot be
defined without recursion; `CodegenAssumption` says that it is closed.

**`Machine`** links and executes the sections. Words are tagged (number,
address, return address, saved `rbp`, zero, junk), the stack grows upwards and
is `MaxStack` words long. `[rbp - 8k]` is word `rbp + k`. Runtime calls
destroy the caller-saved registers and everything beyond `rsp`. Using a word
as what it is not, or exhausting the stack, is `Fault`. A frame is what
`compile_func_definition` reserves after counting the `define`s at the top of
the body (`FrameWords`), while the slots in it are given out by
`symbol_table_define` wherever a `define` is met; `StackDiscipline` says that
the two agree. Processor, assembler,
linker and calling convention are external; the instructions are those
`codegen.c` emits. **`LispSemantics`** is an evaluator of the language,
written without looking at how it is compiled; it is recursive and used only
by TLC. **`Compiler`** states the properties that relate the two.

**`Lexer`** is `lexer_next`. The source is a sequence of characters, those of
no special meaning being constants (`Letters`). A handler is a value of
`handler`; a step is one turn of its loop, which appends a character to the
lexeme buffer and advances. The buffer is its characters and its capacity.
The handlers take the buffer's address before they append: when `realloc`
moves the block (`moved`, a free choice at every growth), the token is made of
`Garbage`. What `strtod` accepts is external and described by its grammar
(`StrtodReads`): numerals, decimal or hexadecimal, and the words for infinities
and NaN. The tests the code makes of it are `IsNumber`; that exactly the numerals
pass them is part of `TokensMaximal`.
`upto`, the number of characters consumed, is added to each token so that
properties can speak about it. `LexerSpec` is the lexer under any caller.

**`Parser`** is the recursive descent. Activations are the variable `frames`;
`parser_advance` starts the lexer, and the parser waits until it has returned.
`value` is the expression `parse_expr` returns. A vector is its elements, its
capacity and the bytes of its block, which `exprvector_append` gets wrong: an
element beyond the block is undefined behaviour, and the model stops there
(`status = "undefined"`). Two things about positions are the code's: a
parenthesis ends one column behind itself, other tokens end at their last
character; and a quoted list ends where the token *after* it ends.
**`Reader`** writes `grammar.txt` as a relation between trees and sequences
of tokens (recursive, for TLC only) and states that accepted trees follow it.

**`Sections`** is `global_data_sections.c` on a disk, a function from file
names to contents. Names are sequences of parts, so that `prog.s` may be a
source as well as an output. Four calls have a failing variant: creating
a temporary file, opening the output, `ftell`, and copying, which may stop after
any number of chunks and is only warned about. That writing a header (`fprintf`),
`fflush` or `fclose` fails is not modelled. The files
are appended under other names than those they were created with (`Pieces`).
**`Driver`** is `main` around it, one invocation after the other on the same
disk, from reading the source to the exit status. It leaves open what the
parser and the code generator decide: `Generate` writes to any section, and
`CompileError` may come at any point. What is written is marked with the
number of the invocation, so that no output can be mistaken for another.

Operators marked `mutated` are variants of the operator that follows them, as
a plausible slip would make it. Each property is known to fail on one of them.

## Runs

| Run | What it asks | Bounds |
|---|---|---|
| `symbol_map` | types, unbroken probe paths, ownership, never full, the least prime, refinement of `NameMap` and of `SymbolMap`, the search for a prime ends | 4 names in two groups of equal hash, 4 emplacements, capacities from 3 to 23, first searches for all arguments up to 400 |
| `symbol_map_load` | *violation*: the table grows below the load factor in the source | capacity 17, as in the code |
| `symbol_table` | types, disjoint slots, ownership, lexical scoping | 3 names (symmetric), 3 scopes, 4 definitions |
| `codegen` | functions written whole, branches land, references resolve | all lists of up to 3 elements over 13 expressions, in 4 contexts, and further shapes; label buffer of 8 |
| `compiler` | machine types, stack discipline, agreement with the evaluator, control flow intact, termination | programs from templates, with and without errors the compiler does not report; 24 words of stack |
| `subtraction`, `nested_define`, `redefinition` | *violations*, see below | one program each |
| `reader` | buffer, positions, tiling, longest tokens, the grammar, first error, nesting of positions, termination | all texts of up to 3 characters of 11 classes, of 4 of the 8 most different, of up to 6 structural and 4 numeric ones, the words of `strtod` with signs and tails, lists and programs of 6 to 9 elements, texts of several lines; buffer of 3, vectors of 8 |
| `list_growth` | *violation*, see below | lists of 6 to 9 elements, buffer of 256 and vectors of 8 as in the code |
| `driver` | sections in place, whole output, what errors and success leave, sources kept, termination | 4 file names, 2 invocations, up to 2 chunks in the text and 1 in the other sections |
| `success_report` | *violation*, see below | 1 invocation |

*Why the bounds are enough.* The initial capacity of the map is 3, not 17, so
that the four entries reach high loads, wrap around and grow seven times
(3, 5, 7, 11, 13, 17, 19, 23), nested up to three deep; the code treats all
capacities alike, and one insertion more only repeats the pattern. The
arguments of the first search cover gaps of up to 14 between primes and the squares
of all odd primes up to 19, where a loop that ends too early would be caught.
Three
scopes are one more than the compiler ever opens; four definitions allow
shadowing, redefinition and reuse of a slot at once. In `codegen` the label
buffer is 8 elements instead of 256 characters, which puts names on both sides
of the limit; the alphabet holds one of each kind of expression and of
operator. In `compiler` the templates put calls and conditionals among
operands, two activations of one function at a time, up to six parameters and
up to two locals, one shadowing a parameter. 24 words hold two activations of
the largest frame; endless recursion exhausts them. `CompiledAgrees` and
`RunsToTheEnd` are claimed of the 722 error-free programs (`Correct`) only;
`StackDiscipline` of all programs whose functions define variables in
statements of their bodies (`Orderly`): those 722 and 55 of the 295 with
errors. In `reader` the lexeme buffer is 3 characters instead of
256, so that one token may grow it twice and the next ones inherit it; the
vectors keep their 8, with lists on both sides. Six structural characters nest
lists and quotes three deep and close them in every wrong way. In `driver`
the four names share one output in three ways; two invocations are enough to
tell an old output or leftover from a new one, and every piece of state but
the disk is set anew by an invocation.

*Deadlock* is not checked: the compiler exits, the reader and the program
halt, a freed table accepts no calls, and the bounds on emplacements, definitions
and invocations stop the symbol map, the symbol table and the driver.

*Fairness.* `SearchingSpec` has weak fairness of the search only: a function that
runs goes on, while callers need not call. `MachineSpec`, `Spec` of `Parser` and
`Spec` of `Driver` have weak fairness of the whole next-state relation: each is
one sequential process that nothing makes wait, and every call of the file system
returns. Otherwise no fairness is asked of single actions. `SearchEnds`,
`RunsToTheEnd`, `EverythingEnds`, `ReaderEnds` and `InvocationsEnd` rest on it;
the safety runs need none.

## Proofs

`SymbolTableProofs` proves, for any set of names, any nesting of scopes and
any number of definitions:

- `TypeCorrect` (`TypeOK`),
- `SlotsNeverShared` (`SlotsDisjoint`),
- `Ownership` (`InfosOwned`),
- `LexicalScoping` (`LookupIsLatest`).

They assume nothing about the constants: the bounds `MaxDepth` and
`MaxDefines` only restrict when an action may happen. None of the last three is
inductive by itself, and `IInv` adds the reasons for which they hold:

- *slots*: offsets grow from the global scope inwards (`Monotone`), a scope's
  slots lie above the offsets of the scopes around it (`Placed`) and differ
  from each other (`Distinct`). Leaving a scope and entering another reuses
  offsets, which is why disjointness is about open scopes only;
- *ownership*: entries hold live objects named as the entry (`EntriesLive`),
  and live objects are held (`LiveHeld`). That replacing an entry frees
  nothing another entry holds needs that an object is in one scope only, which
  follows from `Ordered`;
- *scoping*: identities are given out in order of definition, and whatever an
  inner scope holds is younger than what outer scopes hold (`Ordered`): one
  can define only in the innermost scope. `Innermost` says that among the
  scopes that know a name there is an innermost one, for every prefix of the
  chain; it stands in for an induction on the number of scopes.

One lemma per operation (`DefineEffect`, ...) spells out what it does to each
component of the table; one lemma per action shows that it preserves `IInv`.
`IInv` was also checked with TLC on the bounds of the run `symbol_table`.

`SymbolMapProofs` proves, for any hashes, any initial capacity and any bounds,

- `SymbolMapTypeCorrect` (`TypeOK`),
- `ProbingSound` (`ProbePathsUnbroken`),
- `NextPrimeFound` (`LeastPrime`),
- `SearchingTable` (`ImplementsTable`): `SymbolMapSearch` implements `SymbolMap`.

`MInv` says what the activation records hold: only the top one probes, below it
each record waits for the one above (`Stack`), what an interrupted probe has
passed is occupied (`TopProbes`), and the arrays are as large as their capacity
(`Table`). Since nothing ever empties a bucket of an array in use, a path once
full stays so; the lemma about paths says it for the wrap around the end.
`PInv` is the invariant of the search: the candidate is odd, no number passed is
a prime, and no number below the divisor divides the candidate, even ones
included (`EvenDivisor`). When the square of the divisor exceeds the candidate,
one of two factors would have been found (`Root`). After a candidate has been
replaced the second test cannot succeed by mistake, as the new one is larger
still. While a table
searches, its emplace waits at the load test for a prime behind its own capacity
(`Asked`), so that growing as found is growing to `FindNextPrime`. `FInv`, the
two together, was also checked with TLC on the bounds of `symbol_map`.

`SymbolMapRefinement` goes on from `MInv` and proves, under the same
assumptions,

- `TableOwnsInfos` (`InfosOwned`),
- `TableNeverFull` (`NeverFull`),
- `TableIsNameMap` (`ImplementsNameMap`): every step of the table is a step of
  `NameMap` or leaves what it talks about unchanged,
- `SearchingTableRight`: all of these for `SymbolMapSearch`, which the run
  `symbol_map` checks.

`OInv` is about places. An entry is in a bucket, in the part of an old array
that has yet to be copied, or in the parameters of an activation of `emplace`
(`Holders`). No two places have the same information (`OneOwner`), only the
caller's own call may carry a name that is stored already (`OneName`), and the
live informations are those in a place (`LiveHeld`). Growing, copying an entry
and storing one that was copied move entries from place to place one to one:
the lemmas `OwnerMoved`, `LiveMoved`, `NamesMoved` and `RoomMoved` say what
such a move preserves, and each action exhibits its move. `OneName` is why
`Overwrite` happens in the caller's call only, so that growing frees nothing.
`Room` counts the places: there is a bucket more than there are entries,
because a call brings one entry and, unless the table is empty (`SizeZero`),
grows it first. `LookupPassed` is what a search remembers; a stored name lies
before the first free bucket of its path, so a search that stops there may
answer NULL. `OInv` was also checked with TLC on the bounds of `symbol_map`.

`LexerProofs` proves of the lexer alone, for any texts of any length and any
capacity of the buffer,

- `LexerTypeCorrect` (`LexerTypeOK`), `LexemeBufferFits` (`BufferFits`),
- `TokenPlaces` (`PlacesRight`), `TokensTileSource` (`TokensTile`),
- `LongestTokens` (`TokensMaximal`).

`IInv` adds what the running handler knows: the buffer is the text since the
last token (`Reading`), and the handler is the one its first character chose
(`Chosen`), without which an unterminated string might be taken for a token
that consumed nothing. `Shaped` says what each loop has let into the buffer: no
newline before the end of a comment, no quote inside a string. That a handler
has stopped then makes the token's text one of its language (`Language`). The
code's tests of a number are shown equivalent to having the form of a numeral
(`NumbersAreNumerals`): numerals have a digit (`NumeralsHaveDigits`), and the
words `strtod` reads have none (`NonFiniteHasNoDigit`). `Shaped` was also checked with TLC,
on all texts of up to four of twelve characters. `ParserProofs` then shows that every step of the parser
is a step of the lexer or leaves it alone (`ParserDrivesLexer`), which carries
the five theorems over to the reader, and, of the parser itself,

- `ShortLists` (`ShortListsSafe`),
- `ErrorsFoundAtOnce` (`RejectsAtFirstError`),
- `PositionsNest` (`SpansNest`).

Vectors are only overrun when they grow (`FramesSound`, about the vectors of
waiting activations). The first error rests on `DInv`: as many activations of
`parse_list` wait as parentheses are open before the current token, and one
waits for a quoted expression exactly if the last significant token is a quote
(`Descends`), so that what the innermost activation accepts is what counting
allows. Positions rest on `SpanInv`: the elements of every waiting list start
at or after the list and one after the other, the activation above starts after
the last of them (`Bound`), and nothing ends behind the last token. It needs of
the lexer that the tokens themselves are in order (`PositionsOrdered`), which
follows from line and column never going back. These invariants were checked
with TLC on the bounds of `reader`. The proofs assume of the constants what
`LexerAssumption` and `ParserAssumption` say: texts do not contain the
terminator, letters are no punctuation, and capacities are not zero.

`CodegenProofs` proves, for any programs over any names and any size of the
label buffer,

- `CodegenTypes` (`TypeOK`),
- `NoFunctionInsideAnother` (`FunctionsNotNested`),
- `EveryBranchLands` (`BranchesLand`),
- `EveryReferenceResolves` (`ReferencesResolve`).

The first three follow from `CInv`, which measures what the generated code does
to the stack. Between two instructions the frame has a *height*, the number of
words pushed on it, or the code is at one of the named places of prologue and
epilogue (`Entered`, `Saved`, `Left`, `Popped`) or outside functions
(`Outside`); `Moves` says from where to where an instruction leads, `TaskMoves`
the same of a task that is still to be done. Sections and tasks together form
one path (`Shape`, `Stack`, `Ends`): the section being written ends at the
height at which the first task starts, and the text section, while a function
is being written, at that of the first task below its end. That is what makes
functions whole: a `ret` follows an epilogue, an epilogue a body, and only one
task ends a function. For branches, every local label has one owner, an
instruction or a task (`Placed`; counted by `label_counter`), and a branch has
its label ahead of it at its own height in the same function, or gets it from
a task of that function (`Branched`, `TaskBranches`). Each handler replaces
tasks by tasks along the same path: `StepCode` says so for every step, and
`StartInv`, `QuietInv` and `WriteInv` for the three kinds of handlers.

References have an invariant of their own, `RInv`, for the symbol
table: an information has the label of its name (`InfosMade`), a scope maps a
name to an information of that name and those of functions hold local
variables only (`ScopesMade`, for which `TasksMade` says where definitions can
come from). Under the premise of the property no name of a function or global
variable is defined twice, so that nothing an interrupted call refers to is
freed (`FunctionsHeld`), every label is placed once (`FunctionsPlaced`,
`GlobalsPlaced`, `LiteralsPlaced`), and every instruction refers to one
(`AllResolved`). The premise is about the names defined so far, as names only
ever become more: if it holds at the end it held throughout. `CInv` and `RInv`
were also checked with TLC on the bounds of `codegen`.

`MachineProofs` proves, for any programs and any size of the stack
(`MachineAssumption`: at least one word),

- `MachineTypes` (`MachineTypeOK`),
- `ControlSurvives` (`ControlIntact`),
- `FramesSuffice` (`StackDiscipline`).

It starts where `CodegenProofs` ends: the linked image has the heights of the
sections, and since it links, every branch, call and global variable has a
target (`ImageLinked`). `MInv` says that the height of the current instruction
is where `rsp` is: so far above `rbp` inside a body, and at a return address or
a saved `rbp` at the places of prologue and epilogue (`Top`). Below `rbp` lies
a chain of frames (`Frames`); next to each saved `rbp` is the place where the
calling frame goes on, which the height of that place puts exactly there
(`Returns`). Slots and pushes lie above `rbp`, so nothing in a body can reach
the chain, not even a variable without a slot of its own frame; a `pop` is at a
height above zero, so it never takes a saved `rbp`. `FrameIntact` is a
recursive function: `FrameEquation` shows that there is one, whether a word
belongs to a set of words that lead to each other only, and `FramesIntact`
goes by the least frame that is not intact. `MInv` was also checked with TLC on
the bounds of `compiler`, with heights and frames computed from the image and
the stack.

`FramesSuffice` needs a third invariant of the generator, `SInv`. A frame is the
words reserved right after `mov rbp, rsp` (`Adjacent`: nothing else reserves any);
`Frame` is the size of the frame in force at an instruction.
When a function starts, its frame has room for every parameter and for every
statement of its body that defines a variable (`DefineFree` expressions give out
nothing); `Room` says that the slots given out and those the waiting tasks will
still ask for (`Pending`) fit. `Sorted` says which expressions the waiting tasks
may hold, that is, that nothing but statements is met where a function defines
variables, and `LocalsIn` that a local variable has a slot its scope has counted.
So whatever is written in a body uses slots of its frame only (`Framed`), text
outside functions none (`Frameless`), and the linked image inherits both
(`ImageFramed`). The heights of `CodegenProofs` count from the end of the frame;
in the image they are raised by its size, so a height inside a body is never less
than the words of the frame. With `MInv` that puts every slot between `rbp` and
`rsp`. `DefineFree` and `Orderly` are recursive functions over expressions, about
which the proofs use their equations only (`FreeOf`, `FreeEquation`). `SInv` was
also checked with TLC on the bounds of `compiler`.

`DriverProofs` proves, for any files, any number of invocations and any calls
failing,

- `FailureKeepsOutput` (`ErrorsKeepOutput`),
- `SourceSurvives` (`SourceKept`),
- `DriverTypes` (`TypeOK`),
- `SectionsStayInPlace` (`SectionsInPlace`),
- `SuccessfulOutputWhole` (`OutputWhole`),
- `LeftoversFew` (`FewLeftovers`).

`DInv` adds that nothing is touched before the temporary files (`Untouched`),
and that a name without the ending of an assembly file is never written or
removed (`Foreign`, `ForeignKept`): temporary files and outputs differ from it
in the last part of the name. `FInv` goes on from there. `Books`, `Streams` and
`Failures` say which streams are open at each iteration of the two loops, that
each holds chunks of its section and of this invocation, and which calls can
have failed by then; `Leftovers` says which temporary files exist at each
iteration. `Contents` is about the output as it grows: `Laid` says that every
chunk written so far lies in its section, `Growing` that the file still ends in
`.text` when the code without a header is appended, and that it equals
`Assembled(next)` as long as nothing has failed. `Growing` is what makes
`SectionsInPlace` inductive: without the section in force at the end of the file
nothing is known of what comes next. The lemmas `LayHeader` and `LayChunks` carry
`Laid` over an appended header and appended chunks, any prefix of them included,
which is a copy that fails. `FInv` was also checked with TLC on the bounds of
`driver`, and with a source named like a temporary file.

Model-checked only: what is stated with the recursive operators of `Reader`
and `LispSemantics` (`TreesDerive`, `CompiledAgrees`), and
liveness (`SearchEnds`, `RunsToTheEnd`, `EverythingEnds`, `ReaderEnds`,
`InvocationsEnd`). Recursive operators and liveness are out of the prover's
reach.

## What was found

- **Load factor** (`symbol_map_load`): `symbol.c:224` stores 0.7 in an
  `unsigned int`. The threshold is 0 and the table grows on every insertion
  but the first, and again on every insertion of the copying loop. It costs
  memory and time, and nothing else: lookups stay right (`TableIsNameMap`) and
  the table never fills (`TableNeverFull`).
- **Subtraction** (`subtraction`): `match_builtin_function` takes a non-zero
  `strcmp` for equality, and `-` is compiled to `lisp_multiply`. `README.md:54`
  promises `+-*/`; `*` and `/` are unknown operators, as `populate_global_scope`
  does not enter them (a program of `MCMisuse` uses `*`).
- **Nested define** (`nested_define`): a `define` that is not itself a
  statement of the function body, for example in a branch of an `if`, gets a
  slot outside the reserved frame, where the next push writes. Return
  addresses and saved frame pointers survive even so (`ControlIntact`).
- **Redefinition** (`redefinition`): `(f (define f 1))` frees the `SymbolInfo`
  of `f` while the call still holds it.
- `sanitize_label` keeps `#` and `mutate_func_name` does not, so a variable
  with `#` in its name compiles to a program that does not assemble, and names
  that differ in punctuation only share a label. `ReferencesResolve` therefore
  has the premise `CleanNames`; `MCMisuse` contains such programs.
- **Long lists** (`list_growth`): `exprvector_append` passes a number of
  elements to `realloc`. The eighth expression of a list or of a program is
  written outside its block; `grammar.txt:28` allows any number. Shorter lists
  are safe at any nesting (`ShortListsSafe`).
- **Success without output** (`success_report`): when the output cannot be
  opened, `gds_close_and_finalize` prints a message and returns nothing;
  `main` reports success. A section that could not be copied is a warning.
- A successful compilation leaves `<base>.func.tmp.s` behind, because the
  file is finalised under the name `text`; `FewLeftovers` allows for it. A
  compilation error leaves all five temporary files.
- A lexeme that fills the initial buffer (255 characters) may be read through
  a stale pointer; `TokensTile` is stated up to that.
- `main` cuts the name at its last dot, even one in the name of a directory
  (`../prog` becomes `.`), and a source called `prog.s` is overwritten by its
  own output; `SourceKept` has the premise.

- A source called like a temporary file (`prog.text.tmp.s`) is removed when the
  program it belongs to (`prog.lisp`) is compiled; `TypeOK` and `DriverTypes`
  allow for it.

## Not modelled

Printing of the tree, token names and the build files have no behaviour worth
a property. Allocation never fails in the models. What the code does
when it fails differs: most functions print a message and exit or hand NULL to a
caller that does, but `symbol_table_enter_scope` stores the NULL of
`scope_create`, and `codegen.c:114` does not look at that of
`symbol_table_create`. A failing `fprintf`, `fflush` or `fclose` is not modelled
either. The freeing of tokens and of the finished tree is not modelled: each is freed by its one
owner. File names have no length: the code cuts those of temporary files
silently at 255 characters. Texts that contain a terminator are cut at it when
they are read, and letters outside ASCII, on which `isalnum` depends on the
platform, are left out. Values are integers instead of doubles, and the textual
precision of `%lf` in the number literals is ignored. The alignment of `rsp` at
calls of C functions is not modelled: the compiler does not keep it.
`lisp_divide` and `lisp_debug_print` are called by no generated code;
`parser_cleanup` and `lexer_cleanup` by nobody.

## Plan

Every module planned is written, and every safety invariant of the runs that is
stated without recursive operators is proved. What could be added, in this order:

1. The alignment of `rsp` at calls of C functions, as a documented disagreement
   with the System V ABI (`codegen.c:356`).
2. The lengths of names: the prefix of a label in `label_buf` (`codegen.c:32`) and
   the names of the temporary files (`global_data_sections.c:10`).
