# Verification of o7rc

o7rc compiles Oberon-7 to RISC-V assembler for the RARS simulator. This directory
holds TLA+ models of its parts, the configurations that check them with TLC, and
proofs checked by TLAPS. Paths below are relative to the repository, except the
modules named here.

## The system

One process, one thread, one pass over each file: `main.cpp` reads the main module
(tokenizer and parser), loads the modules it imports, runs the semantic analysis over
each of them, and generates assembler in one of two ways, directly from the syntax
tree or through an intermediate representation (`--ir`) with optional passes (`--opt`).

| Part | State it keeps | Operations | What makes it correct |
|---|---|---|---|
| Tokenizers (`tokenizer/impl`) | input position, one token of lookahead; `BufferedTokenizer` keeps all tokens and an index | `peek`, `next` | `peek` changes nothing visible; `next` never repeats or skips a token; both tokenizers agree |
| Parsers (`parser/impl`) | position in the token stream, the tree so far | one function (or grammar rule) per construct | both build the same tree |
| ModuleLoader (`module`) | `loaded_`, `cache_`, search paths; the C++ stack of its recursion | `load`, `loadImports` | ends on every import graph; loads each module once; the cache names the right one; nothing loadable is missed |
| Sema (`sema`) | stack of scopes, errors, flags of the current procedure | one visitor per node | accepts only what the generators can resolve, refuses nothing that is legal |
| IRBuilder (`ir/IRBuilder.cpp`) | the functions built so far, current function and block, scopes, constants | one visitor per node | each block ends in its only terminator; edges match terminators; control reaches what the source lets it reach |
| IR passes (`ir/passes`) | a function | `ConstantFolding`, `CopyPropagation`, `DeadCodeElim` | what the function does is unchanged |
| RISC-V from the IR (`ir/RiscVIRCodeGen.cpp`) | slots of temporaries, frame size | one case per IR operation | no two live values share memory; the frame holds all of them and the saved registers |
| Direct RISC-V (`codegen`) | symbol table, labels | one visitor per node | a value kept in a register survives the code in between; the stack pointer comes back |
| Runtime tables (`runtime`) | none | one instruction sequence per procedure | - |
| Printers (`IRPrinter`, `IRDotExporter`) | none | output | - |

The parts hand each other finished data: the parser a tree to the loader, the loader
`loaded()` (a vector, in the order the files were opened) to Sema and to the
generators, IRBuilder an `IRModule` to the passes and the IR generator. Nothing runs
concurrently and nothing is stored between runs. What is hard is inside: visitors that
recurse over the tree while they hold blocks, registers, pointers or scopes of their
own, and must find them as they left them whatever their children did; and a loader that
recurses over files that may import each other, be missing or be broken.
`PROJECT.json` lists these hazards, each at its line.

## Modules

| Module | What it models |
|---|---|
| `BasicBlocks` | blocks, terminators, `createBlock`, `linkBlocks`, `emit`, `finishBlock` |
| `IRBuilder` | the lowering of one body: all statement visitors and ABS |
| `BlockLedger` | abstract: blocks are created, opened once and sealed once |
| `ModuleLoader` | `load` and `loadImports`, and the answer `main.cpp` gets |
| `ImportSearch` | abstract: what a search over imports may find, and how it ends |
| `IRCode` | three-address code with operands, and what it does when it runs |
| `Passes` | the lowering of a body with its values, and the three passes of `--opt` |
| `RegisterUse` | what the code of the direct generator keeps in registers and below `sp` |
| `FrameLayout` | slots, areas and saved registers of a function compiled from the IR |
| `HandTokenizer` | `HandTokenizer` character by character, and `BufferedTokenizer` before it |
| `FlexTokenizer` | the rules of `oberon.l`, the longest match first |
| `TokenStream` | abstract: what a parser may expect of `peek` and `next` |
| `HandParser` | every function of `HandParser`, beside a parser made from the grammar |
| `BisonGrammar` | the rules of `oberon.y`, and what a parser made from them does with a token |
| `Names` | scopes, declarations and uses of names in Sema, IRBuilder and the direct generator |
| `Layout` | the sizes of types and the addresses of designators, in both generators |
| `MCIRBuilder`, `MCModuleLoader`, `MCPasses`, `MCRegisterUse`, `MCFrameLayout`, `MCHandTokenizer`, `MCHandParser`, `MCNames`, `MCLayout` | instances for TLC |
| `IRBuilder_proofs`, `ModuleLoader_proofs`, `Passes_proofs`, `FrameLayout_proofs`, `RegisterUse_proofs`, `HandTokenizer_proofs`, `Names_proofs`, `Layout_proofs` | theorems |

`Passes` and `FrameLayout` run on what `IRCode` says of instructions. `BlockLedger`,
`ImportSearch` and `TokenStream` are specifications that `IRBuilder`, `ModuleLoader` and
`HandTokenizer` are shown to implement. `HandTokenizer` and `HandParser` put two
implementations of one interface side by side, `Names` and `Layout` the two generators (and
Sema, which comes before them).

### IRBuilder

The visitors call each other recursively. The C++ stack is the variable `stack`, one
frame per active visitor, with the blocks its local variables still name
(`mergeBB`, `headerBB`, ...) and the point it has reached. `blocks` is
`curFunc_->blocks`, `cur` is `curBlock_`. The syntax tree is not built first: it is
chosen node by node as it is visited (`Visit` counts the nodes), so that one
specification covers every tree of at most `MaxNodes` nodes. Each action is the stretch
of a visitor between two calls into its children: `BeginWhile` is the code of
`visit(WhileStmt)` up to `emitExpr(*s.cond)`, `WhileBranch` from there to
`emitStatements(s.body)`, `EndWhile` the rest.

Of expressions only ABS is an action, since no other one creates blocks; it may be used
any number of times wherever an expression is evaluated. The calls INC, DEC and NEW and
the assignments are one action (`EndSimple`): straight-line code and a store.
Instructions keep their operation, grouped, and their targets. Two variables are
history: `live` says whether the source lets control reach the point being lowered
(it is what `ReachableIffLive` compares the blocks with), `split` names the loop headers
whose test ABS has cut up.

The blocks of the code are numbered from 0 and here from 1; 0 stands for "no target".
A CASE alternative without labels is left out: both parsers refuse it, so the branch at
`IRBuilder.cpp:1293` cannot be reached from a source file.

### ModuleLoader

`stack` holds one frame per active `loadImports` loop. A step handles one import of the
innermost loop: it is built in (`SkipBuiltin`), cached (`CacheHit`), loaded (`Open`:
everything `load` does up to the recursion), or cannot be loaded (`Abandon`); `Complete`
is the end of a list. `Return` is what follows: the outermost loop answers `main.cpp`,
an inner one returns to `load`, which drops the answer (`ModuleLoader.cpp:63`).

`disk` says for every name whether `load` could get a module from it. It stands for the
search path, the parser factory, the parser and the check of the module's name at once:
each of them makes `load` return null with nothing changed. Files do not change while the
compiler runs. The main module is parsed by `main.cpp` and is not in the cache, so it
is loaded again when another module imports it. If its name can be found on the path,
the file is taken to be the one given on the command line (`Init`); a second file of that
name with other imports is left out to keep the instance small.

A parser that throws (`std::stoll` on a number out of range) ends the process, since
`main.cpp` does not catch it; that is no behaviour of the loader and is left out.

### IRCode and Passes

`IRCode` keeps the operands an instruction reads in one sequence, `srcs`, where the code
has `src1`, `src2` and `args`; which of these an operation reads (`readsSrc1`,
`readsSrc2`) is its length. `Execute` gives an instruction the effect of the RISC-V code
`RiscVIRCodeGen::emitInstr` writes for it; a run is stuck when it reads a temporary
nobody has written, leaves a block at its end, or jumps to a block that is not there.

`Passes` lowers a body, and then takes one step for each pass, in the order
`main.cpp:268-271` adds them. `phase` says how far it is. The lowering is that of
`IRBuilder.cpp` seen from its operands: `vals` holds the `IRValue`s that visitors of
expressions have returned and their callers keep in local variables, `merges` one frame
per active `visit(IfStmt)`. An operator takes its operands from the end of `vals` and
leaves its result; a statement needs one value and leaves none. As in `IRBuilder` the
tree is chosen as it is visited. Loops and CASE are left out: all jumps go forward, every
body can be run to its end in as many steps as it has instructions, and its behaviour can
be compared before and after each pass. What can be seen is the variable, what was
written out, the answer, and whether the run returned.

All variables are one global `X` that holds a number; its address is its name, so that
temporaries holding addresses, calls and parameters are left out, as are `And`, `Or`, the
operations on REAL and the width of numbers (the passes compute in 64 bits, the processor
in 32). `built` is history: the body before the passes.

### RegisterUse

The visitors of `RiscVCodeGen.cpp` again call each other, and `frames` holds one frame
for each that waits for a child: which construct it is (`use`), which child it waits for
(`at`), the values it goes on to use (`kept`). The tree is chosen as it is visited, as in
`IRBuilder`, and the code a visitor emits is run at once: `regs` and `words` are the
registers and the words pushed below the frame of the procedure. A value is a number
given to it when it is computed, so that two values are equal only if they are the same
one; 0 is anything else (a mask, a sign, what a callee left). `BinaryLhs` is the stretch
between the two children of a binary operator, and so on.

What a visitor needs of a child's code is only that it leaves its value in a0; every
expression that uses no other register is a `Leaf`. A called procedure is taken to
overwrite all registers (`Called`): its own statements do, and it saves none but ra and
s0. Statements are nested in the bodies of FOR and CASE; those of IF, WHILE and REPEAT
are no different from a sequence of statements here, since these visitors keep nothing
(`BeginTest` stands for their conditions, for RETURN, and for calls as statements). Labels
are not followed: no register is relied on across a label but t5 and t6, and the code
between is run in the order it is printed.

`inside` and `used` are history: the constructs a visitor has seen since it put its values
aside, and the last visitor that went on to use them, with what it wanted and what it found.
Left out: types, names, addresses and the prologue; a call of more than nine arguments,
for which the generator names a register `a8` that no assembler accepts.

### FrameLayout

First the function is built: `AddParam`, `AddLocal` and `AddInstr` are the places where
`IRBuilder` calls `freshTemp` and `emit`, with what is read chosen freely. Then
`RiscVIRCodeGen` takes over, one step per value or instruction: pass 1 (`SlotValue`), the
parameters (`SlotParam`), pass 2 (`LayArea`), the size of the frame (`FixFrame`), and
the code, which asks `slotOf` for every temporary it loads or stores (`EmitValue`). `at` and
`arg` are the positions of the loops; `slots`, `areas`, `next` and `frame` are the members
`slots_`, `allocaDataOffset_`, `nextSlot_` and `frameSize_`. Of an instruction is kept
which temporaries it names and whether pass 1 counts its result (`hasDst`); constants,
jumps and what is computed do not matter here, and blocks follow each other in one
sequence, as both loops go through them.

### HandTokenizer, FlexTokenizer and TokenStream

A text is a sequence of characters, one for each class the tokenizer treats alike. `input`
is what `peekChar` and `getChar` move (`pos`, `line`, `col`), `mode` the loop of `readOne`
that runs, one step a turn of it. `la` and `hasLA` are `la_` and `hasLA_`. `Call` is a call
of `peek` or `next` by the parser. With `buffered`, a `BufferedTokenizer` stands between:
its constructor calls `next` until Eof (`Fill`), and the parser's calls read `tokens` at
`bpos`. `scanned` is history, every token found.

`FlexTokenizer` says for a position of the text which token the rules of `oberon.l` find
there: of all rules that match, the one that matches most; no two of them tie. Of a number's
digits, letters and comments it keeps the same classes, so that its token can be compared
with the one the hand-written tokenizer finds at the same place.

`TokenStream` is the interface: tokens are found one behind the other and without overlap,
`peek` gives the next without taking it, `next` gives it once, and Eof for ever.

### HandParser and BisonGrammar

`BisonGrammar` is `oberon.y` with left-recursive lists written as repetitions. `Shift` is
what `yyparse` does with one more token: the nodes the reductions before it build and what
is left to read behind it, or nothing if the token is refused. Conflicts are resolved as
bison does, by shifting.

`Hand` gives every function of `HandParser.cpp` as the sequence of what it does. `stack`
holds the calls under way, each with what it has left to do; `token` is what `peek` shows.
Tokens are not read from a given program: `peek` lets any token come, so that every sequence
of tokens is read, legal or not. The bison parser reads the same token at the moment the
hand-written one takes or refuses it, and the nodes both have built since the token before
are compared. Nodes are their kinds, in the order they are made, with an `"item"` for every
`push_back`: for one sequence of tokens that fixes the tree. Line numbers and texts of messages are
left out.

### Names

`program` is the source as far as names go: the module visited (`at`), the declarations so
far, the procedures open, and whether their statements have begun. A step declares
something, begins or ends a body, or meets a RETURN. The three users of the program keep
what they keep in the code: Sema `scopes_` and the flag that a RETURN was seen, IRBuilder
`scopes_`, `constants_` and `curFunc_` (with `moved`, the number of times
`module_.functions` has grown under it), the direct generator `scopes_` and the label of
the epilogue. Other statements change no table, so at every place of a body the operators
ask what each way of using a name would find: `irLoad`, `irAddress`, `irFor`, `irCall` and
their `sym` counterparts are the lookups of the visitors, `Meant` is what Oberon means.
Since both parsers store `r.x` and `M.x` as one base name with a dot, a qualified use is
one operator for both.

All modules that are imported have been analysed and lowered before the main one, in the
order of `loaded()`: `Order` is that order, and `InMain` the last one of it. No module is in
it twice; a main module that one of its imports imports again would be, and is left out.

### Layout

A program declares types and a variable, a type expression being built from the inside.
An entry holds what is known of it: its meaning, the `TypeInfo` the direct generator makes
of it, and the size, step, name and fields IRBuilder asks for. When the variable is
declared, `Designators` follows every legal sequence of selectors and works off the two
`emitAddress` beside it: a place is a block of memory, an offset in it, and the bytes the
block has (those of the variable, or what NEW allocated for it).

## Runs

| Run | Instance | What it shows |
|---|---|---|
| `lowering` | trees of at most 4 nodes, 177 693 states | see below; passes |
| `loading` | 3 modules and SYSTEM, import lists of at most 2, 128 308 states | passes |
| `optimising` | bodies of at most 4 nodes, all operators, 195 870 states | passes |
| `registers` | statements of at most 4 operators, calls, indices and statements, 503 986 states | passes |
| `frames` | at most 2 parameters and 4 instructions, variables of 0, 1, 4 and 6 bytes, 389 332 states | passes |
| `tokens` | texts of up to 6 characters, with and without the buffer, 3 calls, 295 416 states | passes |
| `parsing` | every sequence of 54 tokens, at most 8 calls under way, 1 014 277 states | passes |
| `names` | 3 modules, 2 names, 6 signatures, 3 declarations, 293 550 states | passes |
| `layouts` | at most 4 arrays, records and pointers, 4 selectors, 112 602 states | passes |
| `frames_saved` | at most 4 instructions | `SlotsInFrame` is violated |
| `optimising_abs` | at most 4 nodes | `SameBehaviour` is violated |
| `names_field` | as `names` | `FieldsAccessed` is violated |

`lowering`: an instruction never follows a terminator (`TerminatorLast`); a lowered body
leaves no block without one (`AllFinished`), so no block runs on into the one printed
after it; the recorded edges are those of the terminators at both ends as long as no loop
test uses ABS (`EdgesMatchUnlessSplit`); the current block can be reached from the entry
exactly when the source lets control get there (`ReachableIffLive`), so neither a
wrong target nor a RETURN in a branch cuts off or revives anything; and the whole
construction is one of `BlockLedger` (`BlocksAreLedgered`). Four nodes hold every nesting
of two statements with ABS in their expressions, a CASE of two alternatives, an IF with
an ELSIF around another statement; a visitor only ever sees one child at a time, and
the proofs below have no bound.

The exception of `EdgesMatchUnlessSplit` disagrees with `README.md:522`: the visitors of
WHILE and FOR record the edges of the loop test at the header they remember, and with
ABS in the test the branch is in another block. The generated code follows the
terminators and is right; the DOT export and the printed IR are wrong.

`loading`: the cache and the list describe the same
modules, each once (`CacheIndexesLoaded`); no module's imports are gone through by two
loops at a time (`NoReentry`); a module stands behind one that imports it
(`ImportersFirst`: both generators meet importers first); what is missing on success is
missing because of an import that cannot be loaded (`NothingLost`); and the loader
implements `ImportSearch`, its liveness included. Three modules and lists of two give
cycles of length 1 to 3, diamonds, repeated imports, an import of the main module, and
failures before, between and after successes.

What `NothingLost` excepts disagrees with `README.md:244` and `README.md:199`: an
import of an import that cannot be loaded is not reported. The rest of that module's
imports are skipped too, and compilation goes on.

`optimising`: each body is run from three inputs before and after each pass.
`ConstantFolding` changes nothing unless a constant is divided by the constant 0
(`FoldingPreserves`: the processor gives -1 or the dividend, the pass 0);
`CopyPropagation` changes nothing as long as no temporary is copied into at two places
(`PropagationPreserves`); `DeadCodeElim` changes nothing at all
(`EliminationPreserves`); and no body is stuck at any time (`NeverStuck`), so neither a
dropped instruction nor an erased block was needed. Four nodes hold an operation on the
results of operations on constants and on `X`, an IF around a statement with a computed
condition, and ABS of an operand; the literals 0 and 2 and the inputs -1 to 1 give every
operator operands it tells apart in both orders, and make each branch be taken.

`optimising_abs` is a disagreement: ABS copies into one temporary in two blocks, and
`CopyPropagation`, which keeps one map for the whole function, puts the last source in
place of every use: with `--opt`, `ABS(x)` is `x`. Two more were met on the way.
`README.md:776` shows `2 + 3 * 4` folded into 14, but the operand that was folded first
is still a temporary when the second is looked at. The comment at `DeadCodeElim.cpp:49`
and `README.md:474` have unreachable blocks removed; empty ones are, but a block that has
been finished has a terminator, and the one behind a RETURN stays.

`registers`: whatever expressions a statement contains, it leaves no word on the stack and
takes none that is not its own (`StackReturns`: the epilogue finds ra and s0 relative to
`sp`); left operands, assigned values, arguments, the set collected before a single
element and the lower end of a range are found again (`KeptOnStack`); the address
of an indexed array (t3), the operands of INC and DEC (t0, t2), what was read or
allocated (t0), a FOR's variable (t5, t0) and a CASE's value (t6) are found again unless
a construct of those `Spoilers` lists is inside (`KeptInRegister`). The lists are exact
in this instance: with any member left out the property fails. What they say about
programs: `a[b[i]]`, `FOR i := 0 TO` with a set in the bound, BY with an operation, `NEW`
and `In.Int` of an element whose index is an operation, and any of these around a call
are compiled into code that uses the wrong value. Four nodes hold a construct around two
others, or three in a row; a visitor has at most two children whose order matters. Three
argument registers instead of eight, and one argument more than there are, take a call
through every case of its loop.

The spoilers of INC disagree with `body.typ:191-192` of the explanatory note:
`INC(x, ABS(y))` and `INC(x, a + b)` add to something that is not `x`.

`frames`: no two temporaries, parameters or variables share memory at any time (`Apart`);
everything lies below the saved s0 and ra, except for the results of system calls that
no instruction reads (`InFrame`); offsets are aligned (`TypeOK`). The sizes are such
that some are rounded up and one is replaced by four; four instructions after two
parameters let the counter stop at each remainder modulo 16, and let a result be read
before, behind or never. The theorems below have no bound.

`frames_saved` disagrees with the comment at `RiscVIRCodeGen.cpp:42`: pass 1 does not give a
slot to all temporaries, and the first `In.Int()` used as a statement in a procedure
with one local variable stores its result over the saved s0, the second over ra.

`tokens`: the place reported for a token is that of its first character, whatever comments,
brackets that were put back and dots that were looked through precede it (`PositionsTrue`);
the hand-written tokenizer cuts every text into the tokens `oberon.l` finds, but for those
`Departs` describes and no others (`AgreesWithFlex`, an equivalence): letters inside a number,
an exponent without digits, a string without its quote, and NUL; every call returns
(`CallsReturn`); and both tokenizers, the buffered and the unbuffered, are token streams
(`IsTokenStream`), also beyond Eof and when the parser stops calling. The texts are four
families over small alphabets, one for each loop whose end is not obvious: a number's six
kinds of character in all orders of four behind its first digit, comments nested twice with
their brackets torn apart, a NUL in a comment, and words, strings and symbols of three. A
loop looks at two characters, so a longer text repeats pairs that these contain. Three
calls take a token ahead, take it, and go beyond it.

`parsing`: until one of them refuses, the two parsers accept the same tokens and build the
same nodes from them (`SameLanguage`, `SameTree`), except at the five places `SameLanguage`
names, where the grammar and the hand-written parser disagree: ARRAY OF without a length,
a ";" before the END of a RECORD and an empty CONST, TYPE or VAR are read by the hand-written
one only, RETURN after a RETURN without value and a qualified name as the upper end of a label by bison's
only. `EveryTokenDecided`: the parser takes or refuses every token it is given, without
turning in a loop. There is no bound on the length of programs: what is left of a call
depends on the place in its function only, so that long lists lead back to states already
seen. Eight calls hold a statement in a procedure in a module with an
expression in it down to its factor, or a parenthesis in that expression cut off at its
term; each function is called from each place that calls it.

`names`: Sema refuses exactly the programs in which a scope declares a name twice or a
function has no RETURN, and finds a name exactly when it is visible (`SemaExact`, which
also says what it does with a qualified name: only the qualifier is looked up). The direct
generator and IRBuilder find what Oberon means under the conditions `DirectFinds` and
`IRFinds` spell out; both are equivalences, so that each condition is a program compiled
into something else: a variable of a procedure around this one, a name of another imported
module that stands in front, a field with the name of something in scope, a FOR over a VAR
parameter, and for IRBuilder a constant of the same name anywhere before. A call reaches
its procedure if no other one of the module has its name (`CallsReach`). `FunctionAtHand`:
a body is generated into its own function and returns through its own epilogue; `curFunc_`
dangles at most in a procedure that contains another. Three modules are a main one that
imports two, one of which imports the other; three declarations are a procedure with a
parameter or a local declaration beside a global one of the same or another name, or
procedures in each other. The same properties hold with two modules and four
declarations (1 879 037 states), and are proved for any number of both.

`names_field` is a disagreement with `README.md:1037`, which promises access to fields:
when anything named `x` is in scope, `r.x` is that and not the field.

`layouts`: components of a variable share no byte, lie inside the variable or what NEW
allocated for it, and are aligned (`DirectApart`); through the IR the same is true of
less (`IRApart`). The limits in both properties are again exact: a second length, a pointer
declared before its record, NEW of a component, and for the IR records inside arrays, array types
with names and extensions are given addresses that overlap or lie outside. Four parts are an array of records
that hold an array or a pointer, with an extension or a second type to point to.

Each property of a passing run has a mutant in `PROJECT.json`: a slip in one definition
(they stand in front of the definition they change, marked "Slip") that the run detects.

### Fairness

`IRBuilder`, `Passes`, `RegisterUse`, `FrameLayout`, `Names` and `Layout` have none: their
properties are safety, and the history of a body may stop anywhere. `ModuleLoader` assumes
weak fairness of its next-state relation: the compiler is a single thread that runs until
it exits, and reading a file ends. `HandTokenizer` assumes it of the steps of a call under
way and of the buffer's constructor (`Step \/ Fill`), but not of the parser, which need not
call again; `HandParser` of the work on a token (`Work`), but not of `peek`: a token need
not come. Both are stretches of sequential code that waits for nothing.

## Proofs

The proofs hold for all values of the constants: trees of any size; any set of modules
(finite or not), any imports, lists of any length; any literals, operators and inputs;
functions of any length, with variables of any size; programs of any number of modules and
declarations, nested to any depth; types of any depth with arrays of any length.

`IRBuilder_proofs`. None of the properties is inductive: that a block about to be entered
is not finished depends on who holds it. The invariant `IInv` says that the blocks are
partitioned into open ones, which contain no terminator, and sealed ones, which end in their
only one; the open ones are exactly the current block and those the frames on the stack
still hold; frames hold disjoint sets, and where a visitor stands fixes which blocks it
holds. Lemmas first state what each helper does to such a partition (`CreatePartition`,
`JumpPartition`, ...) and what each way of changing the stack does to it (`PushOK`,
`ReplaceOK`, `PopOK`); each action is then a composition of these. It follows that
curBlock_ always names a block (`TypeCorrect`), and `TerminatorsComeLast` and
`NothingRunsOn`.

Its second part is about the edges. They agree with the terminators after every step, not only at
the end (`EdgesMatch`): an open block has no edges, and it gets them in the visit that gives
it its terminator. For the loops that record their edges at the header the invariant adds
that the block a test is evaluated in is the header (`TestInHeader`), which holds until ABS
splits the test, and that a visitor with a test to evaluate is the innermost
(`TestsInnermost`), so that nothing between its two halves can move `curBlock_`. The lemmas
are again one for each helper (`CreateGood`, `EmitGood`, `JumpGood`, `BranchGood`).

It then shows the refinement of `BlockLedger` (`LoweringImplementsLedger`). By `IInv` the
sealed blocks are those that are not open; hence a step that leaves `curBlock_` alone and
only adds open blocks is `Extend`, one after which nothing is open but what visitors held
and what is new has sealed the current block and is `Switch`, and the end of the body is
`Close`.

The last part proves `ReachableIffLive` (`ControlGoesWhereTheSourceSays`). `Reachable` is a
recursive function, so the lemmas first show that there is such a function (`Iterates`) and
that it arrives at the least set that holds the entry and all its targets
(`ReachableIsReached`: a round that adds nothing is the last, and every one before it adds a
block). For each helper a lemma then states what becomes of that set (`JumpReaches`,
`BranchReaches`, ...): a terminator adds its targets if the block it is put in was reached,
and nothing behind them, since a target is open itself or was reached before. The
invariant `FlowInv` says of every frame which of its blocks are in the set (`FlowOK`): the
header of a loop if control entered it, the block behind an IF or CASE if a part reached its
end, bodies not yet begun never. A step inside a loop touches the header of an outer one
only if control is there, and then it had come through the outer one (`Nested`).

`ModuleLoader_proofs`. The invariant adds to the properties that every loop but the
outermost goes through the imports of a loaded module, that what it has behind it is
loaded or built in, and that a loaded module is either in an active loop, or its imports
are loaded, or one of them cannot be. `StepsOfSearch` is the safety half of the
refinement. Assumed: the main module's name is one of the names, and no builtin is.

`Passes_proofs`. That folding cannot be seen (`FoldingIsInvisible`) has two halves. The
first is about any valid body (`FoldedBehaves`): the processor does the same with an
instruction and with its folded form, reads a temporary that is not written in both or
neither, and so steps alike from any state; the two bodies have one size, and their runs
are one. The second is that the body `ConstantFolding` is given is valid: the invariant
`IInv` says that while a body is lowered its blocks are a sequence of well-formed
instructions over the temporaries allocated so far, the values that visitors keep are
such operands, the blocks that frames and `curBlock_` name exist; afterwards the body
stays valid, since a folded instruction is a copy of one operand, `CopyPropagation`
replaces operands by operands of the same body, and what `DeadCodeElim` leaves of a
block are instructions of it. `WellTyped` draws `TypeOK` from it, in every phase.

The other theorems need to know how control and values get through a body, which the second
half of the invariant, `Promise`, says phase by phase. While a body is lowered (`Shape`,
`Sound`) there are for its blocks a set `av` of the temporaries written on every path to
them and a rank: an instruction reads what is in `av` of its block or written before it
there; a jump leads to a block of higher rank, or one that is still pending, that counts on
no more than what is there; all blocks but the current and the pending ones end with their
terminator. The pending blocks are those the active IFs have yet to begin, and no two of
them wait for the same one (`Distinct`). The rank is given when a block is begun, since the
numbers of blocks are no order of control: the merge block of an IF has a lower number than
the blocks of the IFs in its ELSE. For each helper there is a lemma on what it does to all
of this (`AddSound`, `MoveSound`, `EmitSound`, `FinishSound`, `GrowSound`), and each action
of lowering, ABS included, is put together from them.

*No body gets stuck* (`NothingGetsStuck`). At the end of a body no block is pending, so it
is one in which everything read has been written (`Flow`). A run then stays ready, and each
step leaves fewer places ahead of it, in the order of the ranks and then in the block
(`AheadShrinks`): it returns within as many steps as the body has instructions
(`FlowReturns`). Folding changes no destination and no jump. `CopyPropagation` makes an
instruction read something else, which has to be there too: a copy notes what it copies
from in `need` of its destination, and wherever a temporary is available what it `need`s is
as well (`Sourced`). For the result of ABS both of its blocks' sources are noted: both were
computed before the branch.

*Propagation cannot be seen without ABS* (`PropagationIsInvisible`). What lowering copies
are the operands of ABS, and what folding copies are numbers. A temporary is written at one
place, or by the two copies of ABS (`Once`), and a copy of a temporary has another one
beside it (`Paired`); so if none is copied into twice, every copy is of a number and nothing
else writes where it does (`Plain`). From the moment it is made the temporary is that
number (`Holds`), and the two runs are the same step by step.

*Elimination cannot be seen* (`EliminationIsInvisible`). A run of the reduced body is
compared with one of the body it was made from (`Shadows`): both are in the same block, the
reduced one at the place that as many kept instructions are before, and they agree on the
variables, the output and the temporaries that some instruction reads. An instruction that
is dropped is a stutter, one that is kept a step of both; every block keeps its terminator,
so that neither a jump misses its block nor `Eliminated` finds an empty one to erase. Both
have returned after as many steps as they have instructions. Assumed: the inputs and the
literals are integers.

`FrameLayout_proofs`. The invariant puts below `nextSlot_` everything that has been handed
out (`SlotsBelow`, `AreasBelow`), so that what comes next is apart from it; it needs that
no two instructions have the same result (`Fresh`), or a variable's area would be counted
twice. `Position` says what the loops have behind them: from the end of pass 1 on, all
that an instruction names has a slot (`MetAll`). Hence a slot given out later is that
of the result of a system call nobody reads (`OnlyUnreadAreLate`), and since the frame is
`nextSlot_` and eight bytes, rounded up (`RoundedFrame`), everything else lies below the
saved registers.

`RegisterUse_proofs`. What a visitor wants back from the stack lies below whatever its
children have pushed, so the invariant has to describe the whole stack: there is a function
`base` from the waiting visitors to the positions where their words begin (`Laid`), each
visitor has as many words as the values it keeps at that point (`Count`), and those are
its values (`Word`). A visitor takes the last ones, and by `base` those are its own. For
registers, `Held` says that what a visitor relies on is there unless one of its spoilers is
in `inside`; it is kept up since whatever is visited is noted in all that waits (`Nested`),
and the code of a construct writes no other registers than `Writes` lists. `Ordered` says
that only FOR and CASE bodies are around a statement; hence between two statements all
visitors are in bodies and the stack is empty (`AllInBodies`). Four lemmas state what the
ways of a step do to the invariant (`Enters`, `Waits`, `Agains`, `Leaves`), each action is
one of them. It holds for expressions of any depth, any number of argument registers up to
eight, and up to one argument more than that; with two more it would be false.

`HandTokenizer_proofs`. That `line` and `col` are those of `pos` is an invariant
(`PlaceIn`) only because nothing is taken unseen that is a newline: `Take` counts columns
and no lines. `Clear` is that fact, and it is what each action owes; the ones whose loop
condition does not give it (an operator or an unknown character) rest on `Phase`, by which
a token never starts at a blank. Each token found has been given the place `start` noted,
hence `PlacesAreTrue`. `Given` says that a full buffer holds a token, so that `tokens[bpos]`
and the last one exist, which `TypeOK` needs of the answers (`TypeCorrect`). Texts are of
any length, calls come in any order, with and without the buffer.

That the parser sees a stream of tokens (`ParserSeesStream`, the refinement of
`TokenStream`) rests on `TInv`: every token found ends at or before `start` of the one being
read and `pos` (`Sorted`, `Started`); once Eof has been found, `pos` stays where it is and
whatever is read again is that same Eof (`AtEnd`), though `readOne` runs from the start each
time; a token read ahead is the last one found (`Ahead`), so that `peek` followed by `next`
gives it twice and a `next` moves on; and the buffer holds what has been found, in order, but
for the token about to be put into it (`Filled`). The step of `TokenStream` is `Find` where
`readOne` ends with a token that is not the repeated Eof, `Peek` or `Next1` where a call
answers the parser, and a stutter everywhere else, the filling of the buffer included.

That the two tokenizers cut a text alike (`SameTokensAsFlex`, the property `AgreesWithFlex`)
has two halves. The first is about the text alone. `skip` is a recursive function, so the
lemmas first show that there is one such function (`SkipExists`, by induction from the end
of the text) and that it is one turn of itself (`SkipIs`). Each rule of `oberon.l` gets a
lemma that says what it matches (`RangeIs` to `StringIs`), the first character tells which
of them to ask (`Matched`), and for each way a token can end a lemma decides whether the
longest match ends there as well (`WordCut`, `HexCut`, `IntegerCut`, `PlainCut`,
`ExponentCut`, `StringClosed`, `StringOpen`, `SymbolCut`): it does when it beats every other
match (`Agrees`), and where `Departs` holds no rule has a match of that type and end
(`Disagrees`). The second half is the invariant `FInv`: unless a NUL has been met, what
`skip` finds from the end of the last token on is what it finds at `pos`, at the depth of
the comment the code is in, or `start` once a token is begun, and the characters since then
are those the loop lets pass (`Within`). Every step keeps it (`SkipRight`, `ContinueRight`),
and where a token ends it gives those lemmas their hypotheses (`EmitRight`).

`Names_proofs`. The six properties compare what a lookup finds with what a use means, so the
invariant has to say of every entry of every table which declaration it stands for: the
latest one of its name in one scope. For Sema that scope is a visit under way, or the module
at hand (`SemaDescribes`). For the generators the bottom table is shared by all modules
visited before the main one, the next is the main module's, and those above belong to the
visits (`IsAt`, `Describes`); IRBuilder marks in its entries what is global (`Marks`) and
keeps constants apart (`ConstantsOK`). `LooksUp` draws from it that the topmost table with a
name has the declaration nothing taken stands in front of, and `DirectFindsHolds`,
`BuilderFindsHolds` and `CallsReachHolds` follow by comparing that declaration with the one
meant. To stay so the tables need the rest of the invariant: as many of them as bodies
(`Lengths`), visits each of a procedure declared in the one before (`VisitsOK`), the owner,
module and `taken` of a declaration agreeing with those of its scope (`DeclsOK`), and what a
visit has put aside being what the one around it was at (`AtHand`, `GlobalOK`, `ReturnsOK`),
since `EndProc` puts it back. Sema's verdict needs in addition that nothing is declared twice,
and no function closed without a RETURN, while it has refused nothing. Assumed: no module is
visited twice, the names of modules are not those of declarations, and the empty text is
neither.

`Layout_proofs`. What a designator is worked off with, the types and the tables the
generators make of them, is data of any depth, over which the prover cannot do induction. So
the invariants carry a set along in which every type is put as it is built: for the direct
generator pairs of a type and its `TypeInfo` (`DirectInv`), for IRBuilder triples of a type,
the name and the size it has there (`IRInv`). The set is closed (`Closed`, `AllSized`): what
a member says of its elements, fields and pointees only mentions members, fields lie one
behind the other and inside their record (`FieldsGood`, `LaidBy`), and an array is as large
as its elements. A declaration adds a member or two and takes nothing from the others
(`GoodStays`, `SizedStays`); a pointer may be declared before what it points to, which
`owed` makes good before there is a variable. These sets are quantified over, so that TLC
cannot check the two invariants themselves; it checks what they are for.

The components of a variable are then a family of intervals (`Family`): each but the first
is a part of another, lies inside it, and beside that one's other parts. By induction on the
length of paths two members are the same, one is reached from the other by more selectors,
or they are apart and at different paths (`FamilyRelated`); so two that have no parts are
the same or share no byte. It remains to show that what the two `emitAddress` compute is a
member of the family at the path the designator means (`SymOK`, `IROK`), for no selector and
for one selector more (`ReachedInduction`): `IndexSymOK`, `RecordSymOK`, `DerefSymOK` and
`ThroughSymOK` (p.x), and the same four for the IR. Only the first selector can follow a
pointer, so that the family is either in the variable or in what NEW allocated for it, whose
size `RoomFor` compares with the type's. `ragged` enters by `Four`: unless an array of CHAR
fills no whole words every size is a multiple of four, and so is every offset. Assumed:
`Dimensions` are sequences of at least one length, each at least 1. An array type without a
length is legal only for a parameter, which is left out; lengths of 0 are too.

Checked by TLC only: all of `HandParser` (`Shift` is recursive); and everything about
liveness (`CallsReturn`, `EveryTokenDecided`, the fairness of `ImportSearch`), which the
prover does not handle. Every other property of a passing run is proved.

## Not modelled

- What loops mean: WHILE ignores its ELSIF parts in both generators, FOR with a negative
  step tests with `>`; both are hazards without a property, since nothing here runs code
  with loops against the meaning of the source.
- In Sema: names of types, tables of built-in procedures, aliases of imports (`IMPORT a := b`),
  the name behind END; a module that is imported but never visited; orders of `loaded()`
  in which a module stands behind one it imports (the main module imports B, B imports A:
  B is analysed before A).
- In `Names`: two parameters of one name (each is a declaration of its own in the code), a
  call written without parentheses as a statement (IRBuilder emits a load), RETURN in the
  body of a module (the direct generator jumps to an empty label).
- In `Layout`: several indices in one selector, names for types that are not records,
  arrays or pointers, types of parameters.
- Widths of numbers: the passes fold in 64 bits and the processor computes in 32; the
  operations on REAL; more parameters than registers through the IR.
- The flex and bison engines (generated code), the printers `IRPrinter` and `IRDotExporter`
  (pure output), the runtime tables (fixed text), the options and messages of the driver (a
  straight line), the syntax tree (data without operations).
