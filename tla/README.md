# A verification project for basic_lang

basic_lang is a small BASIC system in C: a line editor at a terminal, a
compiler that turns the edited program into bytes, and a stack machine that
runs them. This directory holds TLA+ models of its parts, TLC configurations
that check them on small instances, and proofs that TLAPS checks for every
value of the parameters.

Paths below are relative to `src/` of the program (`repl/edit.c` is
`src/src/repl/edit.c` in `PROJECT.json`).

## 1. The system

The program is one thread. Its difficulty is not concurrency but shared
memory: one 64 KB workspace holds the edited program at the top, the compiler's
contexts and parse tree below it (`nextHigh`, growing down), and symbols,
strings and code from the bottom (`nextLow`, growing up). Errors leave by
`longjmp`, and a few pointers are the only thing that says
which bytes belong to whom. Not everybody asks them: the generator reports a full
buffer and stores the code all the same.

| Component | State | Operations | What makes it correct |
|---|---|---|---|
| Edit buffer (`repl/edit.c` 391-511) | packed records `[number, length, text]` in `[buffer, bufferTop)`, `currentLine` | add, delete, seek, get a line; NEW, LIST, LOAD, SAVE, RENUM | the records tile the buffer, sorted, no number twice; a command changes the lines it names and no other; a walk meets each line once |
| Commands (`repl/edit.c` 106-356) | globals `c`, `sys`, `sys_line`, `getLine`, `i` | RUN, DUMP, SAVEBIN, RUNBIN, HELP, CAT | however a command ends, the editor reads its terminal again; files are closed |
| Compile driver (`compiler/compile.c`) | the stack `currentFile`, `includedFiles`, `errorTarget` | Compile, PushFile, ParseGetLine | each included file is read once, in place; an error leaves no half-way state behind |
| Scanner (`compiler/scan.c`) | `linePtr`, `inComment`, the saved token | GetToken, SaveToken, ParseError | the tokens are those of the text without its comments, each as long as can be, whatever was looked at ahead and given back |
| Parser (`compiler/parse.c`, `symbols.c`) | block stack, parse tree, symbol tables, the data that DIM puts into low memory | one function per statement and per level of expression | the tree has the shape of the text; what has no reading or does not nest is refused, nothing else; a name keeps its kind; DIM's name leads to DIM's cells |
| Generator (`compiler/generate.c`) | code at `nextLow`, chains of unresolved references, `lastReturn` | Generate, PlaceSymbol, StoreVector | the code means what the tree means, every reference ends at its symbol, code stays below the contexts |
| Assembler (`compiler/assemble.c`) | - | ParseAsm, Assemble | bytes as written |
| Interpreter (`interpreter/vm.c`, `vmtrap.c`) | image, `pc`, `sp`, `fp`, `tos`, stack | one case per opcode, traps | programs print what they mean; the stack and the image are not left |
| Printers (`debug.c`, `vmdebug.c`, `optimize.c`) | - | print trees and code | - |
| Console (`repl/main.c`) | one line | GetConsoleLine | - |

How they interact: `edit_workspace` gets its lines through the handler
`sys_line->getLine`. `compileProgram` saves that handler in a global, puts
`EditGetLine` in its place, points `nextHigh` at the edit buffer, makes the
contexts there and calls `Compile`, which sets the jump target and pulls lines:
from the edit buffer, or from the topmost include file. END FUNCTION and the
end of the text call the generator; `vm_init` copies `code_len` bytes and
`vm_execute` runs them. Then the handler is restored.

What is hard to test in it: records that slide over one another after long
sequences of edits; a failure (`ParseError`, no memory, no file) at any point
between a save and its restore; references patched through the code that holds
them; stack layouts that only agree if generator and interpreter agree; limits
reached exactly. `PROJECT.json` lists these hazards line by line.

## 2. The modules

| Module | Models | State and actions |
|---|---|---|
| `ProgramText` | abstract: a program is a function from numbers to texts | the editor's commands on it; a reading takes the lowest pending number; a compilation may lose the program (`LoseProgram`), and only a `Restart` follows |
| `EditBuffer` | `Buf*`, `FindLineN`, DoNew, DoList, DoSave, DoLoad, DoRenum | `lines` is the set of records with their addresses, `buffer`, `currentLine`, `nextLow` as in the code; one action per command, one per turn of the loops of LIST, SAVE, LOAD and compilation. A compilation asks for its contexts, then each line may store code (`StoreCode`); code that does not fit below the parse tree is stored over it (`Overrun`), and like a jump to a target never set (`NoRoomToCompile`) that leads to the mode "undefined", which only a `Restart` of the program leaves |
| `EditMemory` | the same with the words of the workspace | `mem` maps addresses to words; `memmove` and the stores of `BufAddLineN` in their order; the walks follow the lengths they find in `mem` (`Behind`); the code of a compilation is among the words |
| `Induction` | lemmas the proofs share: least and greatest elements, induction, and when a recursive function exists | |
| `EditBuffer_proofs` | theorems about `EditBuffer`: its invariants; that it reads, loads and implements `ProgramText` | |
| `EditMemory_proofs` | theorems about `EditMemory`: its walks meet the records and no other word; it implements `EditBuffer` | |
| `Session` | RUN, DUMP, SAVEBIN, RUNBIN, compileProgram, Compile, PushFile, ParseGetLine, the two `longjmp`s | `source` is `sys_line->getLine`; `getLine` and `sys_line` the globals; `phase` where the command is; `files`, `includedFiles` the stack and list; `used` the units of memory taken. `vm_execute` is the phase "executing", which `Halt` may leave and need not |
| `Session_proofs`, `Session_expansion` | theorems about `Session`: types, files, the prompt; what a compilation reads | |
| `Scanner` | `scan.c`, ParseGetLine | pure operators: `c` is the ParseContext_t, each routine maps it to the next one; `On(c, Step)` is what follows unless ParseError has left |
| `Expressions` | the expression parser, `symbols.c`, constant folding, GetSymbolRef, the Resolve functions, AddString | the same; a node carries the type the parser gave it |
| `Statements` | ParseStatement and every statement but INCLUDE, ParseAsm and Assemble | the same; `c.stmts` has the statements in order, `c.cells` and `c.here` low memory, `c.blocks` the block stack. `CodeStatements` is what the generator finds out about what is stored to: `c.complaints` are the names it calls no variables, `NullCall` its end at what is no l-value |
| `FrontEnd` | Compile's loop over a program of characters, RUN twice | `text`, `c`, `phase`, `before` (what the RUN before left); a step reads a line to its first token or parses a statement, one action per kind of statement; a compilation is "compiled", "refused" by the parser or "crashed" in the generator, and behind a crash there is no second RUN |
| `BasicText` | abstract: what a text means, without parsing it | comments are an automaton over characters, tokens the longest lexemes, the root of an expression its last weakest operator outside brackets, a name is what the first of its mentions to say so makes it |
| `Nesting` | abstract: how lines nest, by counting the blocks opened and closed before each | used by `BasicText` and by the properties of `Blocks` |
| `Blocks` | ParseStatement's dispatch and the functions for blocks, PushBlock, AddNodeToList, Compile's loop | `blocks` is the stack up to `bptr`, `nodes` the tree nodes, `list` the statement lists; one action per keyword |
| `Blocks_proofs`, `Blocks_nesting` | theorems about `Blocks`: the tree while blocks open and close; that the stack is the text's own nesting | |
| `Words` | the machine words that parser and interpreter compute with, opcodes | `Wrap`, `Unary`, `Binary` |
| `CodeGen` | `generate.c` whole, Compile's placement of data, AddGlobal, AddString, DIM of globals | pure operators from parse trees to an image; a context `c` is threaded through as in the code |
| `Interpreter` | `vm_execute`, `vm_do_trap`, the macros of `vm.h` | `code pc sp fp tos stack input out status`; one action per opcode or group of like opcodes |
| `BasicMeaning` | abstract: what a program prints, by recursion on its parse tree | no stack, no addresses |
| `CompiledProgram` | DoRun: `CodeGen`'s image under `Interpreter`, compared with `BasicMeaning` | |
| `Toolchain` | RUN: `FrontEnd`, then `CodeGen` on what it parsed, then `Interpreter` | the variables of both; `Start` turns `c.stmts` and `c.events` (what the parser put into low memory, in order) into the generator's trees and the machine's first state, and computes `meaning` from `BasicText` and `BasicMeaning` |
| `Machine` | DoRunBin: `Interpreter` on any image | |
| `Machine_proofs` | theorems about `Machine` | |
| `MC...` | constants of the runs | |

Definitions whose comment begins with "Fault" are plausible mistakes in the
definition below them. Nothing uses them in the specifications: they serve to
show that each property notices a mistake in the code it is about
(`PROJECT.json`, `mutants`).

Abstractions. Texts of lines are model values with a length. In `Session` a line
of source is a statement, an error or the name of a file to include, and memory
is counted in units: one per statement or record, `ContextSize` for the
contexts; where parser and symbols fail for want of memory the generator may also
have written over the tree (`OutOfMemory`). The generator's own test is modelled
in `EditBuffer` and `EditMemory`, where a compilation takes any of `TreeSizes` and
`CodeSizes`; `FrontEnd` has all the memory it wants. In `Blocks` a line is its keyword; expressions are left out. In
`FrontEnd` they are there, and the lists that the nodes hang in are left out
instead: statements follow each other, with the lines that open, split and close
a block between them. Sizes in low memory (of a symbol, a string's header, a
function's code) are constants, so addresses are right up to these; symbols have
the name in place of the pointer. Statements that the generator dies of are in
`FrontEnd` alone: those of `EditBuffer` and `Session` it can store code for. `FrontEnd` keeps data under its addresses and
`CodeGen` under its names, so `Toolchain` turns an array's address back into its
name; the names it hands over say whether they are a global's, an argument's or
a local's. A routine that fails ends in `c.error`, which stands for the
`longjmp`; texts of messages are not a property's subject. In `CodeGen`
expressions are trees whose names are already resolved; words have `WordSize`
bytes (four in the code, two in the runs: offsets, shifts and
wrap-around are computed from it). The machine's status is `wild` as soon as the
code would read or write outside its image or stack; what C does then is not
modelled.

## 3. The runs

All runs finish; times are a few seconds to less than three minutes.

| Run | Instance | Distinct states | Shows |
|---|---|---|---|
| `edit_buffer` | 48 bytes, line numbers 0, 105, 200 (and those of LOAD and RENUM), texts that need 16 and 24 bytes, a file of four lines that do not all fit, a compilation with contexts of 4 bytes, a tree of 0 or 8 and code of 0 or 13 a line | 14 015 | records tile the buffer (`Layout`); loops read every line once in order (`ReadInOrder`, `CursorOnLine`), end (`LoopsEnd`), and implement the abstract program (`ImplementsProgramText`); LOAD's numbers (`LoadPlacesLines`); no edit puts a line on what a compilation has left below (`HeapBelowBuffer`). Compilations that store over the lines are among the steps; what holds, holds until one does |
| `edit_memory` | twelve words, two numbers, both texts, code of 13 or 30 bytes | 237 707 | the words implement the records (`ImplementsEditBuffer`); a walk meets addresses of records only (`TypeOK`) |
| `compiled` | six programs: all operators on values at the ends of the range; nested loops of every kind; mutual recursion with forward references; AND, OR, arrays, strings; character input and output; endless recursion. With and without input; fresh stack cells hold 0 or 7 | 8 982 | the output is the meaning (`PrintsItsMeaning`), `pc` stays on instructions, saved frames lead up, the stack is balanced, only variables change, only the endless program is aborted, all end |
| `machine` | every image of three of 26 instructions, three cells | 55 054 | pushes that the macros guard do not write below the stack (`StackGuard`) unless CLEAN, DROP or a bad frame has moved `sp` past its top |
| `session` | seven programs, three include files of which two include each other and themselves, one has an error; a file that is missing; programs that leave no memory for the contexts or run out half way; three FILEs | 17 808 | the prompt reads the terminal; include files are read once and in place; files are closed; the compiler ends, and a command comes back or hands over to the BASIC program it runs (`CommandsEnd`) |
| `front_end` | 1 929 programs and 1 085 texts that are only scanned: all short sequences of what may be said of a name, of operands, operators and brackets, of initializers on one and two lines, of PRINT items, of parameters, of the lines of blocks, of what may stand behind IF and FOR; a hundred programs for the other statements and errors; each compiled by RUN twice. 138 programs that RUN also executes: all pairs of fifteen binary operators on a variable and on constants; all function bodies of two parts out of assignment, RETURN, IF, ELSE IF, FOR and two forms of DO; one name for a global, an argument and a local in 36 ways; recursion, data over lines, strings | 43 100 | tokens (`TokensOfText`, of texts without the comments of the run `comment_flag`), acceptance, with the names the generator complains of and the stores it dies of (`AcceptsExactly`), and statements (`TreesMatchText`) are those of the reading in `BasicText`; DIM's names lead to their cells, which overlap no other (`DimCells`); functions have their code once and are found by their calls (`FunctionsDefinedOnce`); names keep their kind (`NamesKeepTheirKind`); what RUN accepts it accepts again, to the same data (`AcceptedStaysAccepted`); what a program prints is what its text means (`PrintsItsText`), though the one is parsed, compiled and run and the other neither |
| `blocks` | every text of up to six keyword lines, three blocks | 184 790 | the tree is the text's (`TreeMatchesText`, an independent definition by counting openers and closers), exactly the nesting texts are accepted, functions are generated once |

Bounds: `edit_buffer`'s workspace is filled exactly, overfilled, emptied and
refilled within the reach of the run, and a line is replaced by longer and by
shorter ones below and above others; further bytes only repeat this. A compilation that
has the workspace to itself fits in it, beside two long lines its contexts do
not, and code of 13 bytes a line meets the tree, the contexts or the lines after
two or three.
In `blocks`, `MaxBlocks = 3` is the main program, a block and a block in it (the code has
ten places), and six lines are enough to fill, overflow and empty them with
ELSE IF and ELSE between. Include files of three and four lines contain each
form of re-inclusion: of the file itself, of the one that includes it, of one
already closed. `StackSize = 24` holds the deepest of the terminating programs
and no more than a few calls of the endless one (the code has 1024).
`CodeLimit` only bounds `TypeOK`.

`front_end` has words of two bytes, so that folding wraps at 32767, four blocks,
tokens of eight
characters (32 in the code) and the keywords its texts use; the table of opcodes
has one of each format. Each family holds every sequence up to its length, the
illegal ones too, and the hand-written programs of `Mixed` add what takes more
lines. Larger families (sequences one longer, some 20 000 texts in all) were
checked once with the same result. Which texts are accepted was also compared
with the program built from this source. They agree, but for what lies in the
word size, in the names of the PRINT handlers, and in the smallest word divided by -1,
which raises a signal in the compiler itself on machines where division does.
The generator's messages have three meanings, and the model tells them apart. A
store through a subscript prints "Expecting an lvalue" and makes the right code
(`parse.c` 1251): the message is left out. A store to the bare name of an array,
by LET or FOR, calls a null pointer behind that message: outcome "crashed". A
store to a function, or a FOR over a name that nothing has made a variable,
prints "is not a variable", is left out and the program goes on: `complaints`.

The programs that `front_end` also executes (`Executed`) have a stack of 40 cells,
more than the deepest recursion needs. Their texts keep clear of the
disagreements below: functions that are called for their value have two
arguments or more, a function's first local is `pad`, which nothing uses, and
globals are declared by DIM. What the programs print was also compared with the
program built from this source: it is the same but for shifts by -3, whose
result depends on the width of the word.

Deadlock is checked in `edit_buffer` and `edit_memory`. The others may stop:
a machine halts, a compilation ends, and C leaves `undefined` open.

Fairness is assumed in three places, each time weak and of the one thread that
is in the middle of something. In `EditBuffer` it is of the turns and the ends of
the loops over lines (`ReadLine`, `StopReading`, `LoadLine`, `StopLoad`): nothing
in them waits for the user. In `Session` it is of the compiler and what is done
around it (`Compiling`), for the same reason; `Halt`, the return of `vm_execute`,
is not fair, since a BASIC program that loops for ever never returns to
`DoRun`, and no command is promised to end while its program runs. In
`CompiledProgram` it is of `vm_execute`'s loop, and what ends by it is each of
the programs that should (`ComesToAnEnd`): one that reads a character gets one, or
EOF. Nothing is assumed about the user's commands, nor that anybody starts the
program again.

### Runs that show a disagreement

Each checks one property that the repository states and TLC refutes; what each
shows was also observed on the program built from this source. (There the overrun was
provoked by `DIM a[20000]`: RUN crashes in the generator, `codeaddr`, as soon as the
zeros have gone over its own context, which lies between the tree and the lines.)

| Run | What the code does |
|---|---|
| `one_argument` | a call with one argument ends in DROP (`generate.c` 407), which replaces the function's value by the argument. `test.bas` calls such functions |
| `first_local` | the first local of a function is the cell of the saved frame pointer (`generate.c` 171, `vm.h` 61) |
| `no_dim` | variables that no DIM declares lie behind `code_len` (`compile.c` 73-82), outside the copy that runs |
| `bytecode_overflow` | code that does not fit is reported (`generate.c` 481, 499, 514) and stored all the same, over the parse tree, the contexts and the lines |
| `comment_flag` | a comment met in the look-ahead behind END, ELSE, DO or LOOP that goes on behind the line leaves `inComment` set where the text in front of it is read again (`scan.c` 309): the `x` of `end x/*` is lost |

The `compiled` run keeps clear of the first three: its functions have no or
several arguments (the handlers printTab and printNL have one and a value
nobody uses), their first local is a dummy, and its variables are declared.

Other behaviour met while modelling, that has no run: SAVEBIN that cannot open its
file restores the line source through a NULL global (`edit.c` 301) before any RUN
(phase "undefined" of `Session`); IF with a statement behind THEN is always refused
(`parse.c` 493), which `AcceptsNestedBlocks` and `AcceptsExactly` say as well;
`x = 1` where `x` is an array is reported ("Expecting an lvalue") and then calls a
null pointer (`generate.c` 128), as does FOR over an array (`generate.c` 271):
these are the texts whose outcome `AcceptsExactly` gives as "crashed".

Moreover, contradicting no text of the repository: AddGlobal ignores the type it is given (`symbols.c` 45), so a
symbol has the type that the last RUN left there and a text refused by the first
RUN may be accepted by the second, and the variables of DIM are no numbers to an
operator the first time (`DIM x`, `y = x + 1` is refused); elements of arrays
and AND and OR have no type, so `a[1] + a[2]` is refused; FOR does not make its
variable one (`parse.c` 557), and a name that is never set or called gets no
place at all (`compile.c` 76); `DIM a[] = {1}` is always "too many
initializers", and an array with fewer initializers than cells has only those;
DIM behind the first use of a name makes a symbol that no search finds; the
character `'n'` is a newline, and `'\n'` is refused; opcodes NOT and RETURN are keywords and cannot be assembled; a string may have
32 characters in `token`, which has 32 places and no room for its end, and
NumberToken tests no length; RUN after a parse error executes what an earlier
compilation left, or nothing sensible (`UseGarbage` in `Session`); with the
workspace full, RUN jumps through a target never set (`Jump`); a function still
open at the end of the text is left out silently (`CompileEnds` in `Blocks`); a
line may be refused because of memory the last compilation no longer needs; a
parse error inside an include file leaves that file open; END generates no code;
a function that ends in IF ... ELSE ... RETURN ... END IF gets no final RETURNZ.

## 4. The proofs

The theorems hold for every value of the constants that satisfies the named
assumptions of the modules. Each assumption is evaluated by TLC in the runs of
its module.

| Theorem | States | Checked in run |
|---|---|---|
| `EditBuffer_proofs`: `TypeCorrect`, `LayoutCorrect`, `CursorCorrect`, `EditsSpareHeap` | `TypeOK`, `Layout`, `CursorOnLine`, `HeapBelowBuffer` | `edit_buffer` |
| `EditBuffer_proofs`: `ReadsInOrder`, `LoadsAtPlace`, `Implements` | `ReadInOrder`, `LoadPlacesLines`, `ImplementsProgramText` | `edit_buffer` |
| `EditMemory_proofs`: `TypeCorrect`, `Implements` | `TypeOK`, `ImplementsEditBuffer` | `edit_memory` |
| `EditMemory_proofs`: `Advances` | `CursorAdvances`: BufGetLine goes up, never past the end | (TLC agreed on the instance of `edit_memory`) |
| `EditMemory_proofs`: `LayoutCorrect`, `ImplementsText` | `Layout` of the records in memory; the words implement `ProgramText` | (of `EditBuffer`, in `edit_buffer`) |
| `Session_proofs`: `PromptSafe`, `FilesSafe`, `TypeCorrect` | `PromptReadsTerminal`, `FilesAccounted`, `TypeOK` | `session` |
| `Session_proofs`: `ClosesOnce`, `IncludesOnce` | at least the files in use are open; no file is on the stack twice | (invariants of the proof; TLC agreed on the instance of `session`) |
| `Session_expansion`: `ReadsRight` | `ReadsExpansion` | `session` |
| `Blocks_nesting`: `TypeCorrect`, `TreeCorrect`, `NestingCorrect`, `GeneratedCorrect` | `TypeOK`, `TreeMatchesText`, `AcceptsNestedBlocks`, `GeneratedOnce` | `blocks` |
| `Machine_proofs`: `TypeCorrect`, `PushesGuarded` | `TypeOK`, `StackGuard` | `machine` |
| `Machine_proofs`: `LiveKept` | `LiveCellsKept`: only LSET changes what is on the stack | (TLC agreed on the instance of `machine`) |

The inductive invariants were checked with TLC on the instances of the runs
before they were proved.

### The edit buffer

For every workspace, set of numbers and texts, file and size of code, from
`WorkspaceAssumption` (`FreeSpace <= BufferTop`), `TextAssumption` and
`CompilerAssumption` (lengths, numbers and sizes are natural numbers).

`IInv == TypeOK /\ Layout /\ HeapBelowBuffer /\ CursorOnLine` is inductive, and
none of its parts is alone. `BufAddLineN` and `BufDeleteLineN` keep the records
together only if the place `FindLineN` gives them is a boundary, which is
`Layout`; that a record's address is in the workspace at all needs
`HeapBelowBuffer`; a reading cursor moves from one boundary to the next because
records tile. The argument: a finite set of records has a lowest one that
satisfies `FindLineN`'s test (`LeastInteger`, by the pigeonhole principle, then
`LeastElement`); the records below it have smaller numbers and those above
greater ones; sliding the lower part by the difference of lengths closes or
opens exactly the gap the changed record needs. RENUM is the case where all
numbers change and all addresses stay.

`EditsSpareHeap` is about edits: however lines are typed, replaced, loaded and
renumbered behind however many compilations, `BufAddLineN`'s check keeps them off
what was taken from below. It does not say that the generator keeps off the lines.
It does not (run `bytecode_overflow`): a compilation whose code passes its tree ends in
the mode "undefined", in which the theorems claim nothing of the lines, and the
abstract program of `Implements` is lost there too (`LoseProgram`). What the theorem of
refinement adds is that it is lost in no other way.

`Progress` adds to it how far the loops have come: `out` is what lies below the
cursor and is empty outside readings, and `number` and `rest` say how much of
the file has been read. With that, initial states map to initial states of
`ProgramText` and every action to its action there or to a stutter
(`Implements`). The set of records is turned into the function from numbers to
texts by `ProgramIs`: one record for each number, from `Layout`.

### The words of the edit buffer

For every workspace whose top is a multiple of the word's size, numbers, texts
and sizes of code, from `MemoryAssumption`. (Addresses count from the start of
`workspace`; `system_allocate_high_memory` rounds all it takes off its 64 KB.)
`EditMemory_proofs` cites the theorems about `EditBuffer` for the records that
are read off the words (`Records`), and adds what only the words can get wrong.

- The walks. `FindLineN` and the walk of RENUM are recursive functions whose
  calls go wherever memory sends them, so that they exist at all has to be shown
  (`WalkExists`, from `Recursion` of `Induction`). If the addresses `S` tile the
  buffer (`Tiles`), the walk meets exactly `S` (`VisitedIs`), and `FindLineN`
  stops at the record that `EditBuffer` finds (`FindsRecord`); both by induction
  from the top of the buffer down (`FromTheEnd`).
- memmove. `Relaid` says what is left of the tiles when all below a boundary
  have moved by one distance and a record, or nothing, fills the hole. Since the
  next state's walk meets whatever tiles then, it yields the records of the next
  state without a look at how they came there. `PutsLine` and `RemovesLine`
  show its premises for `BufAddLineN` and `BufDeleteLineN` word by word: each
  word that is copied, stored or left, also where the copied areas overlap.
- The invariant is `MInv`: `TypeOK` of the words and `IInv` of the records. A
  step keeps it because it is a step of `EditBuffer`, which keeps `IInv`, and
  `IInv` gives the words their types back (`Retyped`). Code that a
  compilation stores below its contexts is below `buffer` as well and disturbs no
  record (`SameWords`). Code that passes them is no part of this argument: it is
  the step `Overrun` in both modules (`OverrunImplements`), behind which no
  line is counted on.

From the step lemmas follow `Implements` and, with the refinement proved for
`EditBuffer`, that a user of the words sees the map of `ProgramText`
(`ImplementsText`). `Advances` is the part of `LoopsEnd` that is no liveness:
`BufferTop - currentLine` gets smaller with each line read.

### The session

For every set of programs and include files, which may include each other in
any way, and every amount of memory and of FILEs, from `LimitAssumption` and
`SourceAssumption` (texts are sequences of strings, no program is larger than
the workspace, the disk holds finitely many files, "program" is not one of them).

- `PromptSafe`: at the prompt the source is the terminal. The strengthening
  `Saved` says which source is in place in which phase, that the saved handler is
  the terminal once it has been saved (so a nested save never happens), and that
  the jump target is live exactly while Compile is on the stack.
- `FilesSafe`: without failure the open files are the include stack and
  SAVEBIN's own; `Stacked` adds that the stack is a sequence of files.
- `TypeCorrect` needs bounds that failures keep as well: `handles` does not
  become negative because at least the files in use are open (`ClosesOnce`), and
  stays below `MaxFiles` because `PushFile` asks.
- `IncludesOnce`: no file is on the stack twice, because all of it is in
  `includedFiles`, which is what stops files that include each other.
- `ReadsRight`: what a compilation has read is a prefix of the program's
  expansion, and all of it when the compilation ends well. The expansion is a
  recursive function, so the first part (`ExpandIs`) is that it exists: at every
  point, what is still to be done weighs less than before, files not yet
  included weighing more than all lines. The second part is the invariant
  `Following`: the stack of files is a plan. Level `k` of it goes on at its line
  with the files `S[k]` included, which are those the levels above will have
  included by then, and `T[k]` is what follows that level; what has been read,
  the rest of the topmost file and its `T` together are the expansion.
  `PushFile` adds a level to the plan, `PopFile` takes one off, a statement
  moves the topmost one on.

### The parser's blocks

For texts of every length and every depth of the block stack
(`BlockAssumption`). `Nesting` tells where a line belongs by counting the lines
before it that open and close, with no stack; the parser has a stack and no
counts. The inductive invariant `IInv` (`Blocks_proofs`) says that they agree:

- `Shape`: the main program at the bottom, a function only right above it;
- `Follows`: the stack is as high as the text is deep (`DepthIs`), and for block
  `k` the last line at depth `k - 1` that opens one is of its kind (`Opened`) and
  the last that opens or splits one is the part it is in, with its node
  (`InPart`). This is what makes the three properties inductive: the parser
  decides by the top of the stack, the properties by these lines;
- `Tree`: nodes in the order of their lines (`NodeOrder`), all in some list
  (`AllHang`), an IF's ELSE part empty until it is entered (`ElseFree`), and
  `TreeMatchesText` itself;
- `NotYet`: the function that is open has not come out of the generator.

`Blocks_proofs` shows for each kind of step (one that adds a node, opens,
splits or closes a block) that it keeps types, shape and tree; `Blocks_nesting`
that it keeps `Follows`, and that the parser's tests are `Allowed`.

### The interpreter

For every size of word of two bytes or more (`WordAssumption`: a byte that is
loaded is not negative), every stack whose size is a word (`MachineAssumption`),
every image that a word can measure, keys that are bytes and any junk on the
fresh stack (`ImageAssumption`). `IInv` adds to `TypeOK` that the image is one
piece, that the frame pointer, which FRAME saves in a cell, is a word, and that
a machine that is `wild` stopped at a step that is not defined. The arithmetic
is proved from the definitions: powers of two count subsets (`Power`), sums over
bytes and bits are integers by recursion on subsets (`SumIsInt`), C's quotient
and remainder are words but for the one case the processor refuses
(`QuotientIsWord`). `LiveKept` needs of it that `sp` is an integer and FRAME's
operand a byte: that what is reserved lies below `sp`.

### Model-checked only

- Everything about `Scanner`, `Expressions`, `Statements`, `FrontEnd`,
  `CodeGen`, `BasicMeaning`, `BasicText`, `CompiledProgram` and `Toolchain`.
  They are recursive over characters, tokens, trees and code with `RECURSIVE`
  operators, of which the provers know nothing; what they compute for every
  input would be an induction over data.
- That the code stays below the contexts is false (`bytecode_overflow`), and what
  follows from an overrun is left open.
- Liveness, which needs fairness: `LoopsEnd`, `CommandsEnd`, `ComesToAnEnd`.
- The properties with prime or box that are about recursive modules
  (`ReturnsToCaller`, `NamesKeepTheirKind`).

## 5. Not modelled

INCLUDE inside `FrontEnd` (it is in `Session`); TokenName and the wording of
errors; buffers overrun by tokens of exactly their length; the console; HELP and
CAT; the printers. What is in memory
behind an overrun by the generator, a store of the running program outside its
image or a jump to a dead target. The table of 100 functions that the generator
fills for its listing (`generate.c` 241). A crash of the generator, in
`EditBuffer` and `Session`. The interpreter's natural-size conversions between pointers
and words are those of the model's word size.

## 6. The plan

Done, in this order: the edit buffer, because every other part rests on its
memory; the generator and interpreter with the meaning of programs; the
session; the parser's blocks; the first proofs; the scanner, expressions and
statements with the reading of texts they are checked against; last the whole
way from characters to output.

Then the proofs: the refinement of the edit buffer, the session's types and
include files, the parser's blocks, the interpreter, and last the words of the
edit buffer. What changed in the models for them changed nothing of what they
mean: the expansion of a program in `Session` and the sums in `Words` and
`Interpreter` became functions, and the closing keywords in `Nesting` an operator
of the opening one. The walk in `EditMemory` was no function at all over words
that hold no records, a length there being anything; it now ends at a length that
leads nowhere, and `TypeOK` says that it meets none. The assumptions that words
have two bytes or more, that the stack's size is a word and that the workspace
ends at a multiple of the word were missing before the proofs asked for them.

What could follow:

1. LOAD and SAVE on the words: `EditMemory` leaves them to `EditBuffer`, where
   they are `PutLine` and a reading once more.
2. A session with the real edit buffer's memory: `EditBuffer` and `Session`
   composed over `nextLow` and `nextHigh`.
3. The generator as recursive functions instead of `RECURSIVE` operators: then
   what its code leaves on the stack could be proved statement by statement.
