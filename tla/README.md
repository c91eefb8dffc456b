# mslang in TLA+

A verification development for mslang, an interpreter in C for a small scripting
language (`src/` of the repository; source paths below are relative to the
repository's root). It models the parts of the interpreter that keep state and can
go wrong in ways a unit test hardly reaches, model-checks them with TLC on small
instances, and proves the central results with TLAPS for every instance.

- [The system](#the-system): inventory of the components
- [The models](#the-models): modules, and how they correspond to the code
- [The runs](#the-runs): what each checks, bounds, fairness
- [The proofs](#the-proofs): theorems, assumptions, the argument
- [Disagreements found](#disagreements-found)
- [What is left out](#what-is-left-out), and [the plan](#the-plan)

## The system

A script goes through a pipeline that the caller runs on one thread:

    main / host --> msEvalFile --> parser (pulls tokens from the lexer) --> syntax tree
                        |                                                      |
                        |      prototype <-- builder <-- compiler <------------+
                        v
                    msCallProto --> msVmRun --> operators, containers, builtins
                                       ^                                 |
                                       +------ native functions <--------+
                    heap: objects list, intern table, small integers

Nothing runs concurrently at this commit: `src/gc`, `src/sched` and
`src/platform` are empty. What makes the code hard is re-entrancy (native
functions call back into the machine), arrays that move while something points
into them, refused allocations at any point (the repository's tests inject
them), errors that have to unwind several layers, and jumps that are emitted
first and patched later.

| Component | State | Operations | Hard behaviour | What makes it correct |
|---|---|---|---|---|
| Virtual machine, `vm/ms_vm.c` | frames and value stack of a coroutine, globals, error slot | push a frame, one step per opcode, `msCallProto`, native calls | nested runs, errors that unwind to the right caller, growth that moves the stack under `argv`, limits | stays in its arrays, reads no slot nobody wrote, a failed call leaves its callers as they were, ends |
| Compiler, `compiler/` | function contexts, scopes, loops with patch lists, expected stack depth, sticky error | a visit per kind of node | slots reused by temporaries, forward jumps, nested loops, early returns on every refused allocation | code means what the tree means; declared sizes suffice; control stays in the code; everything opened is closed |
| Prototype builder, `vm/ms_proto.c` | four growing arrays, pending line, sticky error | emit, patch, add constant / child / exception entry, build, destroy; look up a line | partial failure between two arrays, stale capacities, sharing of equal constants, ownership of children | no write past a block; every instruction has its line; one owner per child |
| Strings and heap, `object/ms_string.c`, `ms_object.c` | objects list, intern table | create, look up, delete, grow, tear down | deletion by backward shift, wrap around, growth refused half way | equal short strings are one object; probes end; nothing leaks |
| State and evaluation, `vm/ms_state.c`, `ms_eval.c` | error slot, globals, main coroutine, resources of an evaluation | create, close, evaluate, read the error | four resources and an exit at each step; an error while making an error | everything is given back; the error told is the one that happened |
| Command line, `cli/main.c` | - | check arguments, evaluate, report | the script vanishes between check and use | every failure is told, everything opened is closed |
| Operators, numbers, `object/ms_operator.c`, `ms_object.c:164-350` | - | equality, order, hash, arithmetic | integers and floats that round to each other | equality, order and hash agree |
| Containers, `object/ms_list.c`, `ms_dict.c` | items, capacity | append, set, iterate | growth refused half way; keys equal across types | one entry per key, order of insertion |
| Builtins, `vm/ms_builtin.c` | - | twelve native functions | lengths of ranges of extreme integers | no overflow, the right length |
| Lexer, `lexer/ms_lexer.c` | cursor, mode, stack of open f-strings, brace counts, whether a newline would end a statement, one token read ahead | next token, peek, decode a literal | f-strings inside the interpolations of f-strings; newlines that end a statement; errors in the middle of a string; the list of diagnostics shared with the parser | every byte is in a token or in trivia; braces pair with what opened them; one report per mistake; a literal that was accepted can be decoded; EOF comes |
| Parser and tree, `parser/` | current token, panic mode, loop, function and class context, arena | one function per production | recovery by a flag that silences, loops that rely on progress, context saved and restored by hand, refused allocations | ends; a tree only without errors; an error silences one statement; precedence is that of the documents |
| Diagnostics, `core/ms_diag.c` | bounded list | report | the list is full | fails closed |
| Memory, `core/ms_memory.c` | counters, the allocation to refuse | allocate, free | - | counts balance |

## The models

The order in which they were written is the order of importance.

**MsBytecode** has the opcodes with their operands as data, and for well-formed
code the notions *pops*, *pushes* and *successors* (`vm/ms_opcode.h`, `ms_vm.c`).

**MsVm** is the machine. `co` is `struct MsCoroutine`: `frames`, `stack`,
`stackTop` and the capacities of both arrays; growing an array leaves `Junk` in
the new slots, as `realloc` does. The C stack of the process is a variable of
its own, `acts`: a sequence of running `msVmRun` loops and native functions, so
a native function that calls back is an activation above a run above another
run, to any depth. There is one action per opcode (or group of opcodes that
differ only in what they compute), one for each way out of a native function,
and the host's calls. A refused allocation is an outcome of every growth. What
an operator computes is any value of `Results`, or an error: the properties of
the machine do not depend on it. Code is *data*: `Proto` maps ids to arbitrary
instruction sequences, so the safety of the machine does not rest on the
compiler. `ms_function.c` is part of the calling convention.

**MsScope**, **MsEmit**, **MsCompiler** are the compiler, bottom up: blocks and
slots (`ms_scope.c`); emission with the expected stack depth, jumps, patch
lists, loops, constants, errors (`ms_compiler.c:59-387` and the builder calls
it makes); and one operator per kind of node. Every operator maps the
compiler's state to the state the C function leaves behind, early returns
included. `fuel` counts allocations and refuses the one that finds it at 0;
`broken` records that an assertion of the C code did not hold.

**MsSemantics** says what a program means, on its syntax tree and without any
of the compiler's notions: scopes are nested maps from names to values, there
are no slots, no stack and no jumps. **MsCompiledRun** compiles a program, runs
the code on symbolic values with the outcomes of comparisons and tests chosen
freely, and compares what it does to the outside, step by step, with the
meaning of the program under the same outcomes.

**MsProtoBuilder** is `ms_proto.c` without the textual dump: an array is its
items, the capacity noted in the builder and the room of the block, which are
different things after a failed build. Two history variables record the line
each instruction was emitted for. **MsLineAt** adds the loop of `msProtoLineAt`,
one iteration per step, on every table the builder can have made.

**MsIntern** is the string table and the life of a heap around it: buckets,
capacity, length and blocks held; creation with each allocation refused or not,
deletion with its backward shift, initialisation with its roll-back.
**MsStringPool** is the abstract specification, the promise of `ms_string.h`:
a set of live strings in which equal short contents are one object.

**MsEval** is `msNewState`, `msCloseState`, `msEvalFile` and `msErrorGet`, step
by step with every exit; the registration of builtins one by one; the machine
and the parser are single steps with all their outcomes. **MsCli** is `main`,
on top of it.

**MsNumber** has words of `WordBits` bits and floats of `Precision` bits, each
held exactly as a count of the smallest float, with both zeros, infinities and
NaN: their equality, hash and order, translated case by case. **MsArith** adds
the arithmetic of the machine on words with its overflow checks, the general
operators it falls back on, and the folding of constants in the compiler, which
checks for overflow in its own way. What does not fit in a word wraps, so that a
check that relied on it would show. **MsOperations** carries out one operation
after another: an operator, a comparison, `range`, `min` and `max` at once or
item by item, the literals of lists and dictionaries, and unpacking, with every
allocation refused or not. Containers cannot be changed once they are made at
this commit, so making them is all there is.

**MsLexer** works on texts that are sequences of characters, a byte of a UTF-8
sequence being one. The scanning functions are operators from the cursor to
what they find: a token, where it reports, and what it does to the stack of
f-strings (`Scan*`); the steps apply that to the state, with the list of
diagnostics full or not (`Step`, which is `msLexerNext`, and `msLexerPeek`). A
history variable has the tokens handed out. Of bytes that the code treats
alike one stands for all. **MsTokenStream** is the abstract specification, what
`ms_lexer.h` lets the parser rely on: tokens in the order of the text, boundedly
many empty ones in a row, and then EOF.

**MsParser** makes the recursive descent a machine. `stack` has a frame for
every C call under way, whose `at` names the point it resumes at; a routine is
an action per stretch between two calls, and `ret` is what the last call
returned. Only what a later check of the parser reads is kept of a node: its
kind, its level of precedence, the name of a `self` or `static`. The text is not
fixed in advance: each advance chooses among the tokens that the lexer could
give there (`Fits`: closing braces and the parts of f-strings in order), `;` and
EOF included, so the state space has every text over a small alphabet, the
`Dialects`. Tokens, reports and panic mode are those of `parserAdvance`,
`parserErrorAtV` and `parserConsume` (`Read`).

What is abstracted throughout: contents of strings and messages; line numbers in
the compiler (they are the subject of MsProtoBuilder) and in the parser; what operators
compute (outside MsNumber, MsArith and MsOperations); and operators of one
shape, of which one is kept. Allocation failure is one-shot in the compiler (one call refused, the
next granted) and free in all other models.

## The runs

Every bound is a named constant of a `.cfg` file.

| Run | Shows | Bounds, and why they are enough |
|---|---|---|
| `vm_any` | For every sequence of `CodeLen` = 3 instructions over 21 letters, in two frame layouts: `InBounds` (top and windows inside the arrays); `LiveInitialised` (no slot nobody wrote is live); `CallStackConsistent` (what an activation will cut back to is still there); `CallBracket` (a call brackets the stack, on every error path) | `FramesMax` = 3 and `StackMaxCap` = 9 leave room for a wild frame, a recursive one, a native function and a call nested in it, and are reached; arrays start smaller than one frame, so they move. `Reuse` = FALSE: one host call for each coroutine |
| `vm_code` | Well-formed code (recursion, calls inside expressions, comparison chain, unpacking, call-backs): `NeverFaults` no structural check of the loop fails in code that was called; `SlotsFrozen` no callee changes a local or operand of a caller; `HostRegainsControl`: code without backward jumps hands control back | Four prototypes, each with the depths that witness its well-formedness as an ASSUME. The host also pushes frames and starts loops itself (`DirectApi`), with `argv` inside the stack that is about to move, while `HostTopMax` = 2 or fewer values are on it, which suffices for three frames and for the move. `FramesMax` = 3 and `StackMaxCap` = 8 are small enough that recursion always meets one of them. No prototype has a loop, which `HostRegainsControl` would not hold of; the code of loops is run in `compiled` |
| `compiled` | Some 670 programs, every outcome of every test: `Faithful` (code means what the tree means), `Fits` (declared sizes suffice), `NeverRunsOff`. Sources with errors and one source with every construct, with each of 120 allocations refused: `CleanEnd` | Expressions of two levels over every pair of short-circuiting constructs; every loop body of up to two statements in four kinds of loops; `MaxDecisions`, `MaxTrace` and `LoopFuel` end the runs of programs that loop. `MaxLocals`, `MaxBlocks`, `MaxConsts`, `MaxDiags`, `MaxNodes`, `MaxItems`, `MaxInt` stand for 256, 255, 2^16, 64, 255 and 2^63 - 1 and are small enough to be exceeded |
| `open_body` | expected to fail, see below | |
| `proto` | `WritesFit`, `PoolExact`, `OwnedOnce` under refused growths, failed and repeated builds; `LineAtExact` (the answer of the search is the line the instruction was emitted for) | Arrays start at one place and double to four. The constraint has three parts that share only the sticky error: up to `MaxCode` = 3 instructions with patches and `MaxTries` = 1 entries; up to `MaxEntries` = 3 constants and children with one instruction; and the line tables of up to `MaxLines` = 6 instructions on two lines, asked for -1 to 6 |
| `intern` | `Findable`, `Balanced`, and `IsPool`: the table implements MsStringPool | 81 hash functions that collide and wrap in tables of 2, 4 and 8 buckets; `MaxObjects` = 5 with five short contents and a long one: the table grows twice, and every order of deletions from chains of up to five is tried |
| `hosts` | A host that evaluates again and again, and the command line: `NothingKept` (every exit gives back what was taken), `ResultTold` (the error slot is about the call that just failed, and has its message unless memory ran out), `FailureTold` | `Builtins` = 12 as in the code; `StackMax` bounds how often a script succeeds on a state |
| `eval_discard` | expected to fail, see below | |
| `operations` | `ArithmeticExact` (the exact result or the right error, on all pairs of words, against arithmetic on unbounded integers), `FoldAgrees` (a folded constant is what the machine would compute), `OrderExact` and `EqualHashAlike` (comparison, key equality and hash are one notion, without rounding; `min` and `max` follow it), `RangeExact`, `DictExact` (one entry per key, in order, last value, also after a refusal), `UnpackExact` | Words of 4 bits and floats of 2, so that 5 has no float and 7 rounds to 8, which is no word: the cases of 2^53 + 1 and 2^63 - 1. Every range of words; `MaxPairs` = 5 pairs over eight keys equal across types, with containers that double from `FirstCapacity` = 1 to the limits `MaxCapacity` and `MaxSlots` |
| `lexer` | `FramesPaired` (mode and open f-strings fit: a brace that closes has one to close), `PositionExact` (line and column of every token), `BytesAccounted` (no byte lost or read twice), `SemicolonExact` (inserted where the documents say and nowhere else), `Decodable` (what the decoder of a literal asserts), `DiagnosedOnce`, and `StreamPromise`: the lexer implements MsTokenStream, EOF included | Texts are drawn from one small set of pieces at a time (f-strings, brackets, escapes, comments and newlines, raw strings, UTF-8, numbers, operators, keywords), up to `Size` = 4 pieces after each beginning. `MaxFrames` = 2 and `MaxDiags` = 4 stand for 8 and 20 and are exceeded. The parser's own reports, which compete for the list, are tried on texts of up to `SharedLength` = 2 |
| `parser` | `ContextExact` (the counters and flags that break, return, await, self and `++` are checked against are those of the open constructs), `AcceptedWhole` (MS_OK means no placeholder in the tree, and brackets that pair), `FollowsTable` (operands bind as the table of `docs/language/03-syntax.md` wants), `SilenceEnds` (an error silences no more than the statement that began it), `EndsOrStalls` | Thirty alphabets of up to eight tokens, each after a beginning that puts them where they matter, with up to `Size` = 5 tokens to follow; one of them with lexical errors and refused allocations anywhere. `MaxDiags` = 3 stands for 20 and is reached. Five tokens are a construct with a mistake and what comes after it; the nesting beyond that comes from the beginnings |
| `parser_ends` | expected to fail, see below | The one alphabet of a broken condition before a block |

**Fairness.** Only where a loop of the code is what makes progress. `vm_code`
assumes weak fairness of `VmStep`: `msVmRun` is a loop with nothing to wait
for. It assumes strong fairness of the two ways out of a native function,
`NativeReturn \/ NativeFail`: a native function may call back any number of
times but not for ever; weak fairness would not do, since these steps are not
enabled during the call-backs. `lexer` assumes weak fairness of `Step`: the loop
of `msParserParse` asks for tokens until it is given EOF. `parser` and
`parser_ends` assume weak fairness of `Next`: the parser is sequential code that
waits for nothing, so that it stays for ever only where it goes round in a loop.
No fairness of the host is assumed anywhere.

**Deadlock** is checked except in `compiled` and `open_body`, where a program
that has returned, raised or been refused has nothing more to do, and in
`lexer`, where nothing is asked after EOF.

## The proofs

TLC decides small instances; the theorems hold for all values of the constants
that satisfy the named assumptions of the modules (array limits and initial
capacities are positive and ordered, prototypes and constants are of their
types; the assumptions are evaluated by TLC in the runs).

**MsVmProofs**: for any bytecode whatsoever, any limits, any native functions
and any nesting of calls,

- `TypeCorrect`: `Spec => []TypeOK`
- `MemorySafe`: `Spec => []InBounds`
- `AllInitialised`: `Spec => []LiveInitialised`
- `CallStackAgrees`: `Spec => []CallStackConsistent`
- `CallsBracketed`: `Spec => CallBracket`

None of the first four is inductive alone. `InBounds` needs that the top an
activation will cut back to is in range, which is `CallStackConsistent`; that needs the
frame an activation started with to be there still, and the slots below the
remembered top to be initialised; and `LiveInitialised` needs that a local
window is initialised even where bytecode has popped below its own locals, which
is why it has a second conjunct, `LocalsLive`. So the inductive invariant is
`IInv`, the conjunction of all four. The proof has a lemma for what
`msVmPushFrameAt` guarantees, one for each kind of action (those that only write
the stack, calls, returns, unwinding, the host's calls), and one step per action
in the invariance theorem.

`CallBracket` is an action property and follows from `IInv` before the step. An
activation only ends by an error of its own or by a return (`EndsBy`, action by
action); an error cuts the top back to where the call found it, and by
`CallStackConsistent` the frame whose return ends the call is the one the call
pushed, so that `RETURN` puts its value exactly where the callee was
(`ReturnBrackets`).

Two more theorems assume that the code is well formed: every prototype of
`Proto` satisfies `WellFormed` of MsBytecode, that is, some assignment of an
operand depth to every instruction fits what the instructions take and leave,
and jumps, constants and locals are in range. The machine does not check that;
arbitrary bytecode may pop below its window, and then both properties fail.

- `WellFormedNeverFaults`: `Spec => []NeverFaults`
- `WellFormedFreezesCallers`: `Spec => SlotsFrozen`

Their invariant is `DeepNow`. The depth at the instruction of a frame says how
many values its code counts on. The frame in control finds at least those
between its locals and the top; a frame that waits for a call finds them below
the callee slot of the frame or native function it called; and frames the host
has pushed find them below where the host went on. In a frame that was called
(`Called`) they are exact, which `NeverFaults` needs: a frame the host pushed
itself may be run with values of the host on its stack. The proof has one lemma
for each way the frames and activations change, on sequences alone (`DeepTop`,
`DeepPush`, `DeepCut`, `DeepReturn`, `DeepNative`, `DeepResume`, `DeepStart`,
`DeepHostPush`, `DeepHostRun`), and one per action that the action is one of them.
`SlotsFrozen` then follows per action from where each instruction writes (`Kept`):
at or above the locals of its own frame, or into its own callee slot; only for
`CALL` is the invariant needed, since the base of the new frame is above the
caller's only if the caller had the arguments it calls with. That the assumption
can be met is shown by `CodeAssumption` of MCVmCode, whose prototypes have every
kind of call, a comparison chain and an unpacking with a star.

**MsProtoProofs**: for any number of instructions, lines, constants and children
and any refusals,

- `BuilderTypeCorrect`: `Spec => []TypeOK`
- `WritesAlwaysFit`: `Spec => []WritesFit`
- `LinesAlwaysExact`: `Spec => []LineTableExact`
- `AnswersExact`: `LineAtSpec => []LineAtExact`
- `SearchStaysInside`: `LineAtSpec => []SearchInside`

The inductive invariant `BuilderInv` adds to the three properties of the builder
that every run of the line table begins inside the code (`InRange`), without
which an instruction emitted without a pending line could be ascribed to a run
that has not begun. Two lemmas carry the argument: one more instruction of the
last run (`DescribesMore`) and the first of a new run (`DescribesNew`) keep
"the table describes the code". The search adds that the first entry begins at
or before the instruction asked for (`LineAtInv`); `RangeOfOne` says that when
the range has shrunk to one entry, that entry has the answer.

The pool and the children are the other half of the module, with an invariant of
their own:

- `PoolAlwaysExact`: `Spec => []PoolExact`
- `ChildrenOwnedOnce`: `Spec => []OwnedOnce`

`PoolInv` says that the pool of the builder, and that of the prototype built,
hold no constant twice and exactly the children they own. The two properties
need each other: that a child is appended once follows from its still being the
caller's, which is what its absence from the pool means. `EqualFacts` shows that
the comparison of the code, which goes by tag, sign and value, is the identity of
constants except for NaN, from the assumption on `Constants` alone.

**MsEvalProofs**, for any number of builtins and whatever fails,

- `NothingIsKept`: `Spec => []NothingKept`
- `ResultIsTold`: `Spec => []ResultTold`
- `FailureIsTold`: `CliSpec => []FailureTold`

`KeptInv` bounds what may be held at each step of an evaluation (`OfEval`), and
`ToldInv` says that the error slot stays clear until the step that ends the
evaluation writes it; both are inductive. The command line is shown to be one
host of MsEval (`CliImplementsEval`), so that it inherits `ToldInv`, from which
the message that `main` prints follows.

**MsLexerProofs**: for every text in which no character is the mark of its end,
and any nesting limit, length of the list of diagnostics and interleaving of
reading ahead and reporting,

- `LexerFramesPaired`: `Spec => []FramesPaired`
- `LexerPositionExact`: `Spec => []PositionExact`
- `LexerBytesAccounted`: `Spec => []BytesAccounted`
- `LexerSemicolonExact`: `Spec => []SemicolonExact`
- `LexerDiagnosedOnce`: `Spec => []DiagnosedOnce`
- `LexerKeepsStream`: `Spec => Stream!Safe`, the safety half of `StreamPromise`
- `LexerDecodable`: `Spec => []Decodable`

The first goes by what each scanning function may ask of the stack of f-strings
in each mode (`TextOrder`, `NormalOrder`): a text segment opens, ends or leaves;
an expression pushes only below the limit, and closes only what is open.

The others rest on what each scanning function finds. Its loops are recursive
functions on positions; that each goes on to a place further on, so that it has
a value, comes from `LoopExists` of MsInduction, and what it passes over from
induction on the distance to the end (`TriviaSkipped` for spaces and comments).
A cursor is `Right` when its line and column are those of its position and it
does not stand between the two halves of a CRLF, which would be taken for a
newline of its own; every scan leads from one right cursor to another, because
it walks byte by byte (`WalkArrives`) or passes over `Clear` text without a
newline (`AlongStands`). `Told` is what a token so found has in common with all
others: where it begins and ends, one report for every bare carriage return it
passes and one if it is INVALID, and which kinds may be empty. `Passed` adds the
trivia before it, and a step of the lexer is then one of three (`Inline` in the
text of an f-string, `Newlined` for a newline that is a semicolon, `Direct`).
The inductive invariant is `Reading`, the cursor is right and the list has its
bound, with `Following`: the cursor stands where the newest token ends, or, when that is an
inserted semicolon, behind the trivia in which it stands, and the flag for the
next newline is what that token says.

That the lexer implements MsTokenStream needs two more. `Ordered`: no token
begins before the one in front of it ends. `Patient`: with how many tokens
without bytes the text so far ends, the f-strings now open and one for a
statement whose semicolon is still due, there are at most `MaxFrames + 1`. It is
inductive because a token without bytes uses up what it counts (`Costs`: the
empty end of an unclosed f-string closes it, an inserted semicolon ends the
statement). The exception is the empty format of `{x:}`, which may be one more;
behind it stands the brace that closes the interpolation (`Bracing`), and the
next token is that brace (`BraceScanned`).

`LexerDecodable` compares two readings of the same bytes. The scan of a string
or of a text segment and the decoder (`UnescapeImpl`) take the same steps: where
the scan passes an escape without a mistake, `DecodeEscape` is as long as the
escape (the scan compares hex digits to keep surrogates and what is beyond
10FFFF out, the decoder computes the value, `Hex4`), and so a literal that is
scanned whole is decoded whole (`StringDecoded`, `TextDecoded`). A number is
read again from the bytes the compiler keeps of it: they are a bijective,
ordered image of the places without an underscore (`Listed`), so that what the
scan found about the places, decimal digits, digits of a base, or a mantissa
with at most one point and an exponent that is not empty (`Numeral`), holds of
the clean number too (`DecimalParses`, `PrefixedParses`, `FloatingParses`).

Trying to prove them showed that two properties were not true of all texts, only
of those that were checked. `BytesAccounted` told trivia by looking for a comment that was
open at each byte and took the `/*` of `/**/*` for such a one; it now asks for a
division of the gap into blanks and whole comments. `DiagnosedOnce` counted an
unclosed comment by where the cursor stood at the end, and found one in the
text of `f"/*`; it now counts the tokens before which the trivia does not end.
The code is right in both cases, and the alphabet of the run has these texts.

**MsParserProofs**: for every alphabet, nesting and limit of diagnostics,

- `SilenceAlwaysEnds`: `Spec => []SilenceEnds`
- `ContextAlwaysExact`: `Spec => []ContextExact`
- `OperatorsFollowTable`: `Spec => []FollowsTable`
- `AcceptedIsWhole`: `Spec => []AcceptedWhole`

For the first, the inductive invariant `Outermost` is about the statement at the
bottom of the stack alone: it was entered without panic, so it is the one that
synchronises. Everything above it changes only the top of the stack (`Moves`,
one lemma for each routine), whatever it does to `panic`.

For the second, the counters and flags that the checks read are saved in local
variables of the routines and put back by hand, on every way out. `View` is the
context that the first frames of a stack call for, by what each frame opens; the
invariant `Good` says that every frame that will put a context back remembers
the view of the frames below it, and `Settled` that the context is the view of
the whole stack. Most steps only exchange frames that open nothing (`Mild`);
functions, lambdas, classes and loops have a lemma each.

For the third, the operand that waits on the left of an operator was chosen long
before the step that combines it. `TableInv` therefore says of every frame of the
stack (`Tidy`) that a waiting operator has a left operand that binds tightly
enough for it (`LeftBinds`), and that each frame which waits for an operand has
above it a call of `parsePrecedence` at the level the operator wants. Of the top
it says what its loop has established: that the node read last has the level
asked for (`Got`), and that behind it no operator stands which that node should
have taken (`Rests`, `Quiet`), which is where `not`, `not in` and the token read
ahead of them have to be told apart. Each infix rule then hands on a node of its
own level; the proof uses `ContextInv` for the shape of the stack.

For the fourth, the parser never compares brackets: that a text accepted has them
in pairs follows from each routine closing what it opened before it returns.
`Opened` says of a frame which bracket it holds, and `WholeInv` that, as long as
nothing was reported, what is open in the text that was scanned is what the frames
of the stack have opened one on top of the other (`Layered`), then the current
token and the one read ahead (`Nested`); that no node is a placeholder; and that a
routine that takes its first token unseen stands at that token (`Led`). Each
routine has a lemma that it turns (`Turned`): it reports an error, or leaves the
brackets alone, or takes the one bracket that is due (`Turns`). A report can only
lengthen the list (`Counting`), so a text with none at the end had none before. The
theorem needs `MaxDiags > 1`, which 20 is: a list of one place would be filled by the
report of a byte order mark alone, and the rest of the text accepted unread.

**MsInternProofs**: for any contents, any hash function, any initial capacity,
and any sequence of creations, deletions and refusals,

- `TableFindable`: `Spec => []Findable`
- `BlocksBalanced`: `Spec => []Balanced`
- `TableIsPool`: `Spec => IsPool`, the refinement of the abstract pool

The invariant `IInv` is about distances round the table: of the buckets between
the home of an entry and the entry none is empty (`Unbroken`), no entry is there
twice and none is missing (`Holding`), and a quarter of the table is empty, so
that a probe ends (`SomeEmpty`). The backward shift is the hard operation: while
it goes round, the invariant of the loop (`Closing`) is that the table would be
sound but for the one hole it is about to fill, and that every entry it has
passed does not need it. The rehash is shown to insert each entry once.

**MsOperationsProofs**: for words of any width and floats of any precision up to
that of a word, any range of exponents, and any limits of lists and
dictionaries,

- `ArithmeticIsExact`: `Spec => []ArithmeticExact`
- `FoldsAgree`: `Spec => []FoldAgrees`
- `OrderIsExact`: `Spec => []OrderExact`
- `EqualsHashAlike`: `Spec => []EqualHashAlike`
- `RangeIsExact`: `Spec => []RangeExact`
- `UnpackIsExact`: `Spec => []UnpackExact`
- `DictIsExact`: `Spec => []DictExact`

The first four are about single operations: `AnswerInv` says that a finished
operation has the answer of the operator, and the lemmas are about the operators.
The overflow checks are exact because C division truncates and products are
compared through quotients; `**` needs that every round of squaring keeps
`res * base^exponent`, and that a square that does not fit in a word leads to a
power that does not either. Between a word and a float the order is exact
because a conversion that rounds cannot cross a float: all floats below 2^p are
the multiples of their quantum. The other three have an invariant each of the
loop under way: the list of `range` holds the first numbers and the next is at
hand (`RangeInv`); each target already served has its part (`UnpackInv`); the
entries of the dictionary are in bijection with the keys that differ from all
before, in order (`DictInv`). The one assumption on the constants beyond the
bounds, `Precision <= WordBits`, holds of 53 and 64.

**MsInduction** has what these proofs share: least elements, induction with the
property given as a set of numbers, the values of a loop of so many rounds, and
remainders. What a recursive function of the model computes (`PowerOf`, `Power`,
`Moved`, `Shift`, `Flat`) is proved by unfolding it up to the argument at hand.

Only model-checked: everything about the compiler, because MsSemantics and MsCompiler walk
trees with RECURSIVE operators, of which the prover makes nothing (`Faithful`,
`Fits`, `NeverRunsOff` and `CleanEnd` of the run `compiled`); and liveness
(`HostRegainsControl`, `EndsOrStalls`, EOF), which is out of the prover's reach.

## Disagreements found

Three runs check a sentence of the repository that the code does not keep; TLC
returns the counterexample.

- `open_body` (`compiler/ms_compiler.c:1640`): the implicit `return nil` is
  added unless the *last instruction* is a RETURN. The body `if y { return y }`
  ends in one, so the jump over the block is patched to the end of the code, and
  a call with a false `y` stops with "instruction pointer out of bounds" instead
  of giving nil as `docs/tasks/13-functions-calls.md:215` says. At this
  commit the machine does not implement MAKE_FUNCTION, so that only a host that
  runs the prototype itself meets it; a script will as soon as the machine makes
  functions. `Faithful` and `NeverRunsOff` are therefore checked in
  `compiled` on all function bodies of the family except that one.
- `eval_discard` (`vm/ms_eval.c:137`): the value of a script that succeeds stays
  on the stack of the main coroutine, one slot for each evaluation, although the
  design of the evaluator says it is discarded.
- `parser_ends` (`parser/ms_parser.c:1204`): `if a. { ) }` makes the parser loop
  without taking a token or reporting anything. Each round allocates nodes of the
  tree, so that in practice the loop ends when memory does. The block is entered in panic mode, so the statement at `)` reports
  nothing, synchronises nothing (the panic is not its own) and takes nothing;
  the list of diagnostics, which `ms_parser.c:2116-2119` counts on to end such
  loops, does not fill. `EndsOrStalls`, in `parser`, says that this is the only
  way not to end: in every other text the parse does.

Further observations, which no run checks:

- `msErrorGet` returns NULL for a pending out-of-memory error, although
  `error.h:16-17` says NULL means that there was none (`vm/ms_state.c:154`).
- `x = {a b}` and a stray `case` are reported again for every token until the list
  is full, although the tests name the suppression of such cascades
  (`tests/c/test_parser.c`, `cascadeSuppression`): panic ends with the statement,
  and the next statement begins at the same token.
- A text that begins with a byte order mark is parsed with MS_OK: the lexer
  reports E101 before the parser counts (`atEntry`), while
  `docs/language/01-lexical.md:8` calls such a file illegal. `msEvalFile` passes
  it on.
- In the lexer, the FSTRING_FORMAT mode never outlives the scan that sets it, so
  that its case in the dispatch is never taken.
- Assignments to several targets store from the last target to the first, which
  `a, a = 1, 2` makes visible (`docs/tasks/11-variables-scope.md:39`).
- `msEvalFile` with a NULL path returns the runtime error also when making its
  message ran out of memory; `ResultTold` does not speak of that call.

## What is left out

- The arena and the textual dump of the syntax tree (`parser/ms_ast.c`): the
  parser model keeps of a node what later checks read. The depth of nesting that
  the C stack allows: the parser has no limit of its own. Positions in the
  parser. The composition of the lexer with the parser: MsParser chooses its
  tokens by an order that MsLexer is checked for (`FramesPaired`,
  `SemicolonExact`), and only that order.
- The results of arithmetic on floats, the bitwise operators, strings, `print`, `str`, conversions of strings, equality
  of lists and the iteration over a dictionary (only its printing does). The compiler's input is every tree of the families
  in MCCompiled, which the parser can produce.
- Opcodes the compiler emits and the machine does not implement at this commit
  (closures, indexing, echo of an interactive line): the machine answers them
  with an error, which is modelled; what they will do is not.
- In the compiler: literals of floats and strings (their handling is that of
  integers), operators beyond one of each shape, echo of an interactive line,
  parameters with defaults, and limits of 2^16 constants and 2^24 instructions.
- Exception entries are opaque: nothing reads them yet.
- The textual dump of prototypes, the version string, wording of messages.

## The plan

What a continuation would take up, in order.

1. MsVm on compiled prototypes: `NeverFaults` for what the compiler really emits.
2. Equality of nested lists, iteration over dictionaries.
3. The composition of MsLexer and MsParser on short texts.
