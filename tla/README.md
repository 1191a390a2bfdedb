# Verification of bs-c

TLA+ models of bs-c, an interpreter for a small scripting language in C: what
each part is, how it is modelled, what TLC checks about it and what TLAPS proves.
`PROJECT.json` lists the parts, the runs, the source lines behind every
definition, the hazards of the code and the disagreements found.

To repeat a run: `tlc -config <cfg> <module>`; to repeat the proofs: `tlapm <module>`
for each of `ParserProofs`, `ParserStackProofs`, `LexerProofs`, `Preliminaries`,
`ReplProofs`, `BytecodeProofs`, `TextProofs` and `TestRunnerProofs`.

## The system

Text goes through four stages, each called by the next outer one:

    bsc.c repl()  ->  bs.c bs_interpret()  ->  parser.c parse()  ->  lexer.c lexer_tok()
                                           ->  code-gen.c generate_bytecode()  ->  bytecode.c

`repl()` reads a line into its buffer and hands the whole buffer to
`bs_interpret()`. That calls `parse()`, which pulls tokens from the lexer and
builds an AST (`ast.c`); then `generate_bytecode()`, which fills a chunk
(`bytecode.c`, `value.c`) whose memory is counted by `memory.c`; and disassembles
the chunk. There is no virtual machine yet. The status goes back to the REPL:
*Ok* and *Error* clear the buffer, *Incomplete* keeps it and asks for another
line. All of it is one thread. The test runner (`test.c`) is the one concurrent
program: it forks a process per unit test and talks to them through pipes.

| Component | State | Operations | What is hard | What makes it correct |
|---|---|---|---|---|
| Lexer (`lexer.c`) | source, `start_offset`, `current_offset`, `line_num` | `lexer_tok()` | lookahead at the end, nested loops, escapes, offsets left over from the last token | tokens tile the source, each is the longest possible, its line is right, the end is reached |
| Parser (`parser.c`) | `previous`, `current`, `had_error`, `panic_mode`, `incomplete_input`, `inside_block`, and the C stack | `parse()` and some 40 mutually recursive functions | panic-mode recovery in the middle of anything, error against incomplete input, flags saved on the C stack | terminates; a partial tree is never returned; incomplete only at the end of the source; the block flag matches the open blocks |
| AST (`ast.c`) | heap of nodes, vectors moved into nodes | create, clone, free, vector push | ownership: shared vectors, clones, desugared loops | every node and vector has one owner and is freed once |
| Code generator (`code-gen.c`) | chunk under construction | `emit()` by node type | operand order, constants by index width | running the code leaves the value of the tree |
| Chunk (`bytecode.c`, `value.c`) | growable code and constants | push byte, word, dword, value; disassemble | little-endian indices, index boundaries, growth | the disassembler decodes exactly what was encoded |
| Memory (`memory.c`) | `mem_used` | alloc, realloc, free | sizes reported by callers, zero-size frees | what is counted is what is held; nothing remains after a chunk is freed |
| Strings (`string.c`) | growable byte strings, slices | init, validate UTF-8, formatted append | continuation masks, surrogates, rounding capacities | validation accepts exactly UTF-8 |
| Interpreter (`bs.c`) | memory tracker | `bs_interpret()` | status from two flags | status agrees with what `parse()` reported |
| REPL (`bsc.c`) | line buffer, prompt | read a line, interpret | end of input, long lines, NUL bytes | what is interpreted is what was typed since the last complete input |
| Test runner (`test.c`) | tests, processes, pipes, counters | `run_all_tests()`, `debug_this_test()` | interleaving of processes, full pipes, descriptors inherited by forks, signals | every test is judged once and by its own exit status; nothing blocks for ever |
| Writers, logging | a FILE | print | - | not modelled: output only |

Hazards are listed with their lines in `PROJECT.json`, each with the properties
that would catch it going wrong. Some have none. Four do go wrong and are left out of
what the runs look at, because the property concerned does not hold with them: a last
token that is not valid UTF-8 (`lexer.c:332`), the clone of a dictionary (`ast.c:124`), and
a test that nobody continues (`test.c:236`, `test.c:247`). What the REPL does at the end
of its input (`bsc.c:41`) contradicts no statement of the repository, and NUL characters
(`bsc.c:51`) are outside the models.

How the modules are composed:

    Parser <- MCParser                          Parser <- ParserProofs <- ParserStackProofs
    Lexer <- MCLexer                            Lexer <- LexerProofs
    Trees <= TreeBuilder <- MCTreeBuilder       (TreeBuilder EXTENDS Ast)
    ReadEval <= Repl <- MCRepl                  (Repl EXTENDS CodeGen, Source;
                                                 CodeGen EXTENDS Chunk EXTENDS Memory)
    Repl <- ReplProofs                          ReplProofs, Preliminaries <- BytecodeProofs
    StringBuffer, IntegerConversion, Expressions <- MCText
                            (StringBuffer EXTENDS Utf8, Expressions EXTENDS Grammar)
    StringBuffer, IntegerConversion, Preliminaries <- TextProofs
    TestRunner <- DebugTest <- MCTestRunner     TestRunner <- TestRunnerProofs

where `<-` is EXTENDS from the right and `<=` says that the module on the right is
shown to implement the one on the left.

## Modules

### Parser

`Parser.tla` is `parser.c` as a pushdown machine. `parser` is `struct Parser`;
`stack` is the C call stack, innermost call first. An entry is a call about to
start (`Call("expression")`, `Consume("Colon")`, `Declaration(TRUE)`), or what is
left of a function from a loop head or a decision on (`expressions_loop`,
`statement_end`, `leave_block`). An action takes the entry on top, runs its
function to its next call or decision, and replaces the entry by the calls it
makes. So the order of calls, each early return and what is restored behind a
call (`inside_block`) are those of the code, and actions carry the names of the
functions. Functions that only differ in operators (`term` to `disjunction`) are
one action, `binary`, with a level.

Tokens are their types. A source of the model is an opening, an alphabet and a
length: the constant `Sources` is a set of such records, and `Advances`, which is
`advance()`, picks the next token of the opening, then any of the alphabet while
the length allows, or `EOF`. That stands for every source that starts so and has at
most so many tokens, cut off anywhere. `"Error"` is an error of the lexer, which
`advance()` reports and skips; that the lexer itself delivers an end is the
business of `Lexer`. Of the trees only `null_ast` is kept: whether a function
returned NULL where its caller expects a tree. Whether a number converts is a free
choice. `nesting` is an auxiliary field, the closing brackets owed so far, used in
`AcceptedIsBalanced` only. Behind the verdict the machine stutters (`Returned`).

| Run | Sources | Properties |
|---|---|---|
| `parser_safety` | `PlainSources`: 9 of the 5 tokens that nest blocks; 7 of the 9 of if, while, break, return and blocks, and 5 of them inside two blocks; 6 of the 11 of every kind of operator, call and index; 6 of the 12 of dictionaries, sets, numbers and assignments; 6 of the 12 of functions, structs, let and pub, and 5 of them behind the head of a method | `TypeOK`, `BlockDiscipline`, `NullNeverAccepted`, `AcceptedIsBalanced`, `BlockReturnFlag`, `EofIsNotAnError` |
| `parser_recovery` | `RecoverySources`: 7 of 10 tokens, one of them a lexer error, and 5 of them inside two functions; 7 of the 10 of parameter lists, and 5 of them behind the head of a method | `BlockDiscipline`, `IncompleteOnlyAtEOF`, `ParseTerminates` |
| `parser_variadic_eof` | `VariadicSources`: 6 tokens of parameter lists | `EofIsNotAnError`: violated |

The bounds admit the shortest complete instance of each construct of the
alphabet, that instance cut off at each of its tokens, and one wrong token
followed by recovery into another statement. `parser_variadic_eof` shows the one
place that takes the end of the source for an error: behind `...` in a parameter
list (`parser.c:170`). `PlainSources` leaves `...` out for that reason.

What the properties say:

* `BlockDiscipline`: `inside_block` is set exactly while some `block_statement()`
  is still to return, whatever errors, recoveries and early returns came between.
* `NullNeverAccepted`: a function returned NULL for a tree, so `parse()` will.
* `IncompleteOnlyAtEOF`, `EofIsNotAnError`: the two halves of what a REPL relies
  on, that only the end of the source is called incomplete, and that it is never
  called an error.
* `AcceptedIsBalanced`: an accepted source was read to its end, with each bracket
  closed by its partner.
* `BlockReturnFlag`: the flag of `ast_block_create()` that tells a block with a
  value from one without agrees with the token in front of the brace.
* `ParseTerminates`: `parse()` returns.

Fairness (`FairSpec`) is weak fairness of the whole next-state relation: one
thread runs `parse()`, and nothing in it waits.

### Lexer

`Lexer.tla` is `lexer.c` character by character, with the loop in `advance()` of
the parser that asks for the next token behind an error. Every iteration of a
loop is a step, so that a loop that consumes nothing is a loop of the model.
`pc` is the loop the lexer is in; `tokens` is the history of what was returned.
Characters are one-character strings and four names (`lead` and `cont` are the
bytes of a two-byte non-ASCII character). `Operator` and `keyword_or_identifier`
follow the two switches; the properties compare with tables of spellings taken
from `token_type_to_string()`.

| Run | Sources | Properties |
|---|---|---|
| `lexer_tokens` | `AllSources`, see below | `TypeOK`, `TokensTile`, `TokensAreLongest`, `KeywordsRecognised`, `LinesAreExact`, `LexingEnds` |
| `lexer_point` | `PointSources`: up to 3 of digit, point, letter | `LexingEnds`: violated |

`AllSources` has all sources of up to 5 of `< > = /` and newline, up to 4 of
points, some operators and a blank, and each pair of operator characters; up to 7
of digit, letter, blank and point, each point with a digit behind it; up to 6 of
quote, backslash, letter and blank; strings of up to 4 backslashes and non-ASCII
bytes; up to 6 of quote, newline, slash, letter and a character that starts
nothing; and every keyword with its prefixes, extensions and one-letter changes.
No operator is longer than three characters and the lexer looks two ahead, so five
show each operator behind and in front of another. A string needs three
characters between its quotes to hold an escaped escape.

Four kinds of source are left out, because the lexer does not do on them what the
properties say. Each was seen in a counterexample; the first is kept as a run.

* A point behind a number without a digit after it (`lexer.c:214`): the loop of
  `number()` neither takes the point nor ends (`lexer_point`).
* A last token whose bytes are not valid UTF-8 (`lexer.c:331-334`): the end is made
  of the offsets of that token, fails validation, and is an error each time the
  parser asks. `LexingEnds` does not hold.
* A newline behind a backslash in a string (`lexer.c:188`): it is skipped and not
  counted, so `LinesAreExact` does not hold from there on.
* `nil` and `nii` (`lexer.c:277`): the code looks for the second spelling, so
  `KeywordsRecognised` does not hold for either.

Fairness is again weak fairness of the one thread.

### Ast, Trees, TreeBuilder

`Ast.tla` is `ast.c` on a C heap: nodes, and the buffers of the vectors inside
them. A heap is the sequence of all blocks ever allocated; a freed one is replaced
by `Freed` and its address is not used again, so a use after free or a double free
shows. The 30 node types have four functions each, which differ in the fields
only; `Layout` gives the fields of each type in the order in which they are cloned,
printed and freed, and `ast_clone`, `Released` and `Printed` walk it. What `Ast`
does not do is check one of the hand-written functions against another: a layout
*is* the four functions of its type, read from all four, and a field forgotten in one of
them would show nowhere. Printing goes through `writef()`, and what that makes of a
value is the value itself except for floats: `Decimals` has the floats of the model with
what `"%lf"` makes of them.

`TreeBuilder.tla` drives it the way `parser.c` does. `locals` are the C variables
that hold trees or vectors, each action one `ast_..._create()` with what the parser
does around it: push into a vector, move the vector into the node, keep the vector
of arguments for the next call of the chain, clone the left side of a compound
assignment, rewrite a `for` loop. A syntax error leaves NULLs and goes on
(`no_tree`). At the end `parse()` keeps the program or frees it, and
`bs_interpret()` frees what was kept. Which action may follow which is the grammar,
reduced to the kinds of the items on the stack; `Parser` has it in full, and the two
are not composed.

`Trees.tla` is what this should amount to: a stack of *values*, from which a step
takes the topmost trees, each once, and puts one tree over them. `TreesAreValues`
says that `TreeBuilder` implements it when each pointer is replaced by the tree
behind it, so pointers, moves and clones never show, and a `for` loop is what the
comment at `parser.c:670` says.

| Run | Instance | Properties |
|---|---|---|
| `ast_trees` | `SafeMenus`, first capacity of a vector 2 | `TypeOK`, `NoFault`, `OneOwner`, `NothingElseLost`, `PrintsTellTreesApart`, `TreesAreValues` |
| `ast_call_chain` | `ChainMenus`, the same | `NoFault`: violated |

A menu is a set of actions that occur together, with a bound on the blocks and on
the variables in use before an action: 3 to 7 blocks and 2 to 4 variables. Each of
the twelve menus holds one group of constructs (chains of calls and members,
collections, operators, blocks and branches, loops, functions, structs) and admits
each construct inside itself or inside its neighbours; with a first capacity of 2 a
vector grows at the third element. `Holes` and `BrokenChains` have missing trees.

What the properties say: `NoFault`, that no block is used after it was freed, freed
twice or overrun; `OneOwner`, that every block has at most one owner, and what is
owned is live; `NothingElseLost`, that what has no owner was freed, except two
identifiers of each `for` loop, which the code does lose (`parser.c:701`);
`PrintsTellTreesApart`, that different trees of a program print differently but for
leaves that are printed alike. Of those there are two kinds, and both occur in the run:
floats that agree in six decimals (`ast.c:830`), and names that look like a value, `nil`,
which the lexer takes for a name (`lexer.c:277`), and `inf`, as a float beyond the range
of a double is printed. So the property compares the trees with such a leaf replaced by its
word: whatever is nested in what still shows.

Left out of `SafeMenus`: a call behind a call with arguments (`f(a)(b)`), where the
second node gets the vector the first already owns (`parser.c:308`; kept as the run
`ast_call_chain`); and a compound assignment whose left side holds a dictionary
with more than half of its capacity in use, whose clone is too small
(`ast.c:124` allocates pointers for pairs; a menu with "compound any" shows it, and no run
here has one).

### Memory, Chunk, CodeGen, Source, Repl, ReadEval

`Repl.tla` is the interpreter from `repl()` down, except for how a source is
parsed. `Memory` is the tracker: it is told sizes and knows no blocks. `Chunk` has
the two growable vectors, the encoding of numbers, and the disassembler with its
assertions. `CodeGen` is `emit()` with its call stack `todo`: trees still to emit,
opcodes and bytes still to push. `Source` is `parse()` as the REPL sees it: a source
is a sequence of characters, some of which stand for a whole statement, brackets
for anything that is opened and closed, and `!` for anything refused; its verdict is
a program, an error or *incomplete*. `Repl` adds the line buffer with `fgets()`, the
prompt, and `bs_interpret()`.

`CodeGen` says what it expects of its caller in `TreesAssumption`: `Trees` is the set
of all trees `emit()` may meet, but for a whole program, with their parts: a binary
operation has an operator of its kind and two parts, a unary one and one, booleans are
true or false, `nil` has no data, and leaves have no parts. Each of these is what the
C types say (`enum BinaryOp`, `enum UnaryOp`, the fields of the structs in `ast.h`). `Repl` has the statements of a source among them
(`StatementsAssumption`), and every file of `Inputs` holds a character
(`InputsAssumption`).

A byte has `Byte` values instead of 256, `Rooms` bounds the tracked memory so that
`realloc()` can fail, and `UNIMPLEMENTED()` ends the process as in the code.

`ReadEval.tla` is the promise: a line is read whole and evaluated together with the
lines before it as long as those are incomplete; an answer decides nothing but the
prompt. `IsReadEval` shows that `Repl` implements it, however a line is cut into
pieces by the buffer. What happens at the end of the input is not promised anywhere;
`LastAgain` writes down what the code does there, which is to evaluate the last
source again and again.

| Run | Instance | Properties |
|---|---|---|
| `repl` | `MCInputs`; byte of 2 values, first capacity 2, line buffer of 3 with 1 kept free, 100 or 1000 bytes of memory | `TypeOK`, `MemoryIsCounted`, `ChecksHold`, `ListingIsTheProgram`, `IsReadEval`, `LinesAreRead` |

`MCInputs` has every terminal input of up to 5 characters of a number, brackets, a
refused character and newlines; every file of up to 4; lines of up to 3 nested and
unimplemented programs; each operator; and lines of 9 and 17 constants. With two
values to a byte the index takes one byte up to 2 constants, two up to 4, four up
to 16, and none beyond, so 17 pass every boundary and the end. With a line buffer
of 3 a line of 5 is read in three pieces and grows the buffer twice; 100 bytes are
too few for the long lines and enough for the short ones.

What the properties say: `MemoryIsCounted`, that the tracker has what the vectors
hold at every step and nothing between two inputs; `ChecksHold`, that no assertion
of the disassembler fails on generated code; `ListingIsTheProgram`, that the listed
instructions, run on a stack machine built from what `bytecode.h` says of each
(`Executed`, `Meaning`), leave the trees of the program; `LinesAreRead`, that every line is read unless the process
ends.

Fairness is weak fairness of `Next`: one process, which runs whenever it does not
wait for its terminal.

Left out: NUL characters in the input, and an input that ends before its first
character, on both of which `bsc.c` reads what is in front of or in unset parts of
its buffer; read errors and failures of untracked `malloc()` calls, which end the
process; and buffers of 2 GiB and more, whose room `bsc.c:41` narrows to the `int` that
`fgets()` takes.

### Utf8, StringBuffer, IntegerConversion, Expressions, Grammar

Pure conversions, composed in `MCText` as behaviours side by side.
`Utf8` translates the validator of `string.c`, with bytes as numbers and masks as
ranges and remainders, next to the definition of UTF-8 in two halves: `WellFormed`
(first bytes with as many continuation bytes as they announce) and `Scalars`
(shortest form, no surrogates). `StringBuffer` has `struct String`, slices, and the writer that
prints twice when the buffer is too small. Capacities are rounded in `SizeBits`
bits, for which a size is the set of its bits (`Word`, `Size`, `OrShifted`). What is free
in the buffer is cast to an int of `IntBits` bits before each of the two prints
(`string.c:133` and `139`; `AsInt`, `Remaining`): the first is compared with the length of
the text, and may make the assertion of `string.c:58` fail (`Dies`); the second is not. A
`vsnprintf()` that is given a negative int takes it for a huge size (`Room`), as the C
library of Linux does. A text that was cut is looked at beyond what was printed, where memory
that was never written to may hold anything (`Seen`, with `Unset` for the bytes it may
hold). A text itself is shorter than the largest int, since `vsnprintf()` returns its length.
`IntegerConversion` is `integer()`, digit by digit in a word that wraps.

`Expressions` is the part of the parser that reads expressions, this time with the
trees it makes: the ten functions from `disjunction()` to `term()` as one operator
`level` over a table of their operators, `inversion`, `unary` and `primary`, and the
two ways in, `expression()` and, for a statement that begins with an identifier,
`primary()` followed by `expression_prime()`, which hands the first operand down
through all levels. `Grammar` is the grammar of expressions in `doc/bs.md`, as the
set of derivations of a sequence of tokens. A syntax error is a `Hole`; what happens
behind one is the business of `Parser`. Calls, collections and blocks are left out:
what brackets hold is shown by grouping and indexing.

| Run | Instance | Properties |
|---|---|---|
| `text` | all texts of up to 3 of 15 bytes, and of 4 behind a first byte of four; 8 texts to write, strings up to 10 long before a write, sizes of 6 bits, ints of 4, memory that reads as `A` or as a continuation byte; literals of up to 4 digits in a word of 10 bits; expressions of up to 4 of 13 tokens, and longer ones with operators between, before and around operands | `StringTypeOK`, `AcceptsWellFormed`, `IntegersAreRight`, `TreesFollowTheGrammar`, `WritesAppend`, `GrowsToPowersOfTwo` |
| `text_surrogates` | the same | `AcceptsUtf8`: violated |

The 15 bytes stand on either side of every limit the code compares with. Sizes of 6
bits have room for every text written and let a buffer grow three times, with
rounding below, at and above a power of two. Ints of 4 bits end at 7, so that in a buffer of
16 or 32 what is free may be negative as an int, and become small again: writes for
which the assertion fails and writes that are cut both occur. Words of 10 bits are passed
by literals of four digits, beyond twice the limit as well.

`StringTypeOK` says that no buffer is overrun, and that the assertion of `string.c:58`
fails only where what is free does not fit an int. `WritesAppend` says that a write that
fails leaves the string as it was, and that one that succeeds appends all of its text, if
what is free behind it is not beyond all the numbers of an int (`NotCut`).
`AcceptsWellFormed` says that a text which was not cut is accepted exactly if it is
well-formed, where a slice may end inside a character that the text behind it completes.
`text_surrogates` shows that it does not look at the second half: the mask 0xdf of
`string.c:46` keeps the top bit of each continuation byte, so the test for
surrogates never applies, and overlong forms are not looked for.
`TreesFollowTheGrammar` says that an expression is read to its end without error
exactly if the grammar derives it, in one way only, and with that tree, whether it
is read as an expression or as a statement. All pairs of the 18 infix operators, all
triples of one operator per level, and all pairs of levels with prefix operators, in
parentheses and in an index show each level inside and beside each other. It also
confirms what `Parser` relies on when it joins the loops of the levels in one action.
`IntegersAreRight` is limited to numbers below twice the range. Beyond that the test
`new_value < value` misses some overflows: `21000000000000000000` becomes
`2553255926290448384`. Signed overflow is undefined in C; wrapping is what an
unoptimised build does.

### TestRunner, DebugTest

`TestRunner.tla` is `run_all_tests()` as processes: the runner and one process
per test, with the pipe of each. `readers` and `writers` say which processes hold
each end of each pipe, as `pipe()`, `fork()`, `close()` and exit leave them; a
`read` blocks while the pipe is empty and somebody could write, a write blocks
while it is full and somebody could read, and kills the writer when nobody could.
What a test writes and with which status it ends are free. `fork()` and `read()`
fail at will where `Failures` allows it, and the runner then gives up; that `pipe()`
fails follows from the descriptors that are open and the limit on them.

`DebugTest.tla` extends it to the whole executable: `main()` either runs all tests
or, with `-d` and a name, `debug_this_test()`: the test stops itself, the debugger
is a process that may fail to start, continue the test and quit whenever it likes,
and the parent waits for both. A SIGCONT to a test that has not stopped yet is lost.

| Run | Bounds | Properties |
|---|---|---|
| `runner_all` | 3 tests with names, output up to 3, pipes of 2, reads of 1, 3 or 4 descriptors, failing forks and reads; debugging each test, or one that does not exist | `TypeOK`, `SummaryIsRight`, `FailuresAreShown`, `DescriptorsSuffice`, `RunnerEndsIfPipesSuffice`, `OrphansEnd`, `DebuggingEnds` |
| `runner_full_pipe` | 1 test, output up to 2, pipe of 1 | `RunnerEnds`: violated |

Three tests let one block while others before and behind it run. Four descriptors
are exactly what three tests need (two open read ends and the pipe being made),
and with three `pipe()` fails. With output larger than its pipe a test and the
runner wait for each other (`test.c:110` against `test.c:120`). `runner_full_pipe`
shows that; in `runner_all` it makes `RunnerEnds` conditional on pipes that
suffice, and is the reason why the runs do not check for deadlock. `OrphansEnd`
says that tests left behind by a runner that gave up end too, even those blocked
on a full pipe: nobody else keeps the read end open for ever. `DebuggingEnds` says
that all processes end once the debugger is over and the test was continued. It
has to assume the second: when the debugger cannot be started (`test.c:247`), quits
early, or the parent's SIGCONT overtakes the SIGSTOP (`test.c:235-237` against
`test.c:225`), nobody continues the test and the parent waits for ever.

Fairness is weak fairness for the runner, for each test process, and when debugging
for the parent, the test and the start of the debugger: the kernel schedules them
all. What the debugger then does is not fair, and calls that fail are not among
the fair steps, so no property relies on a failure. That test functions return is
assumed.

## What is proved

`ParserProofs.tla` proves, for every opening, alphabet and length of a
source (`Sources` is any set of them):

* `TypeCorrect`: `Spec => []TypeOK`. `TypeOK` is inductive as it stands. The work
  is in the stack: `Entries` and `EntryLists` say which entries exist, `GotoType`
  that replacing the top entry by entries keeps a stack, `AdvancesType`,
  `MatchType` and `UntilType` what the shared helpers return; `StepType` goes
  through the actions.
* `RejectionCorrect`: `Spec => [](NullNeverAccepted /\ IncompleteOnlyAtEOF)`. The
  two are not inductive. `RejectionInv` adds that the parser state is *sound* (a
  panic was preceded by a recorded error, incomplete input means the current token
  is the end, and behind the end no token is left), that a missing tree goes with
  one of the two flags, and that a verdict is given with the stack empty.
  `AdvancesSound` shows that advancing keeps a state sound and never clears a
  flag; `StepRejection` goes through the actions.

Both rest on `SourcesAssumption` alone.

`ParserStackProofs.tla` goes on from there. The C stack is at every moment a derivation
of what is still to be read: `Spans` says of every entry what it makes of the *place*
it starts at (the brackets open, whether in a block, whether behind a semicolon), and
`Leads` that the entries of a stack lead one after the other from one place to another.

* `BlocksAreDisciplined`, `BlocksTellTheirSemicolon`, `AcceptedSourcesAreBalanced`:
  `BlockDiscipline`, `BlockReturnFlag` and `AcceptedIsBalanced` for every source.
  None but the first is inductive. `StackInv` adds `OnTrack`, that as long as there is
  no error the pending calls lead from where the parser is to a place where no bracket
  is open, and `Announced`, that a function which relies on its caller having looked at
  the current token is on top of the stack and that token is there. A lemma per
  function (`...Moves`) shows that the calls it makes lead where it led itself.
* `EndIsNoError`: for every source, no step at the end of it turns a clean parse into a
  failed one unless `...` is the token in front. So the divergence that
  `parser_variadic_eof` shows is the only one.
  `EndIsNoErrorWithoutEllipsis`: hence `EofIsNotAnError` for all sources without `...`.
  This hypothesis is what the run has as `PlainSources`.

`LexerProofs.tla` proves for every set of sources (`SourcesAssumption`), from lemmas
about the spellings of operators and keywords that it begins with:

* `TypeCorrect`: `TypeOK`, from `TypeInv`: what is looked at is in front of the NUL at
  the end, inside a token something has been read.
* `TokensTileTheSource`: `TokensTile`. `TileInv` says it of the tokens so far, and that
  between the last one and where the lexer is, or the token it is in, there are only
  blanks and comments.
* `LongestTokens`: `TokensAreLongest`. `LongestInv` says of the token that is being read
  that it is a piece of its kind so far; that a closing quote is not escaped needs the
  number of backslashes in front of it (`EvenRun`). `NoLongerOperator` shows that the
  lookahead of two characters finds the longest operator, for all pairs and triples.
* `LinesAreCounted`: `LinesAreExact`, for sources without a newline behind a backslash
  (`NoEscapedNewline`), on which the code does not count.
* `KeywordsAreRecognised`: `KeywordsRecognised` or one of the tokens is `nil` or `nii`,
  and `NilIsMisspelt`: the code takes `nii` for the keyword and `nil` for a name, in
  every source. `KeywordArms` evaluates the switch of `lexer.c:239-312` for a text of
  any length, `NoArm` shows that nothing else is a keyword.

`ReplProofs.tla` proves, for every input, byte width, capacity and amount of memory:

* `MemoryCorrect`: `Spec => []MemoryIsCounted`. Not inductive: it does not say why
  nothing is held between two inputs, nor that the sizes reported are numbers.
  `MemoryInv` adds the shape of a chunk, that its vectors are empty wherever no
  chunk exists, and that a process whose tracker found a fault has exited, so that
  whatever steps has a count that is right. `ReallocCounts` is the heart: a caller
  that reports the size it really had keeps the count. `PushByteCounts`,
  `PushValueCounts`, `InitCounts` and `FiniCounts` show that each caller does,
  `EmitCounts` and `StepMemory` go through the actions. It rests on
  `FirstCapacityAssumption` and `RoomsAssumption`.
* `WordsAreReadBack`: `read_u16()` of the disassembler reads what
  `chunk_push_word()` wrote, for every byte width (`ByteAssumption`).

The same module proves about the line buffer and the conversation, for every input
and all sizes of the buffer (`LineBufferAssumption`, `InputsAssumption`):

* `BufferNeverOverflows`: `LineInv` is an invariant. What was read fits with its NUL;
  the buffer is kept behind the prompt `...` and while a line is being read; what may be
  thrown away was not incomplete; the status is that of the source in the buffer.
* `ReplImplementsReadEval`: `Spec => IsReadEval`. A read that takes a whole line, or its
  first piece, is the step of `ReadEval` that reads that line; the reads behind a first
  piece are stutters, because `RestOfLine` takes from `stdin` beforehand what they will
  put into `buffer` (`WhileReading`, `LineIsRead`, `PieceBeginsLine`); and an answer is
  the step that decides on the prompt. `LineInv` is needed to know that there is room
  for a character before each read (`ThereIsRoom`) and that the buffer is empty exactly
  when the promise has forgotten the source.

`BytecodeProofs.tla` follows the code from the generator to the disassembler, for every
program and byte width:

* `DoubleWordsAreReadBack`: `read_u32()` reads what `chunk_push_dword()` wrote.
* `ChecksAlwaysHold`: `ChecksHold`, that no assertion of the disassembler fails. It is
  far from inductive, since the disassembler runs when the generator is gone.
  `CodeInv` says that the code is `Readable`: it is cut into instructions, each of which
  passes the checks, begins where the one before ends, and is printed as a certain line.
  While the generator runs this holds of the code and the bytes that are still to be
  pushed for one instruction (`Generating`), behind which only whole calls of `emit()`
  are pending. `SameInstruction` shows that more code and more constants do not change
  how an instruction is read, `ConstantInstruction` that the index is read back whatever
  its width, and `ProgramsAreTrees` that every source is made of `Trees`.
* `ListingMeansTheProgram`: `ListingIsTheProgram`, the correctness of the code generator.
  `Generating` also says that what is written so far, on the stack machine, leaves a
  stack from which the pending calls make the program (`Yields`). Each step of `emit()`
  keeps this: a call for an operation is worth as much as the calls for its operands and
  the one that pushes its opcode (`YieldsAll`, `OperationExecuted`), a call for a leaf as
  much as its instruction (`LiteralExecuted`, `NumberExecuted`). At the end no call is
  pending, so the code means the program; and `Printing` says that the disassembler has
  printed the first of the lines of that code, all of them when it stops.
* `TypeCorrect`: `TypeOK`, from `MemoryInv`, `LineInv` and `CodeInv` together.

They rest on `ByteAssumption`, `FirstCapacityAssumption`, `TreesAssumption`,
`StatementsAssumption` and those above. `Program` and `Meaning` are recursive functions:
`ProgramsAreTrees` is proved by a least counterexample (`WFMin`), `StacksExist` and
`MeaningOfMore` with the induction of `Preliminaries`.

`Preliminaries.tla` has what several proofs need: induction on the natural numbers and
the existence of recursive functions, stated of sets and functions, because the
theorems of the library about predicates cannot be instantiated here; powers of two;
and the parts of sequences put together.

`TextProofs.tla` proves of the conversions, for every text and every width:

* `IntegersCorrect`: `IntegersAreRight`, for all literals and `WordBits`
  (`LiteralsAssumption`). `IntegerInv` says of a literal below twice the limit that the
  value is the number its digits so far stand for. `DigitRead`: one more digit keeps it
  so, or the product wraps to something smaller, which the code finds, and then the
  literal does not fit.
* `StringsAreSound`, `WritesAppendAll`: `StringTypeOK` and `WritesAppend`, for all
  contents and writes and all widths of a size and an int (`StringAssumption`).
  `AsIntIs` and `RoomIs` say what is left of what is free behind the cast: as long as it is
  below twice the largest int, either itself or something huge, and then nothing is cut.
  `FilledIsSound` and `SeenIsSound` follow the buffer through both prints.
* `BuffersGrowToPowersOfTwo`: `GrowsToPowersOfTwo`, for sizes of up to 64 bits. The six
  shifts of `string.c:61-68` fill all bits below the highest: an or with a shift by
  `m` adds `m` to those that are known to be set (`ShiftSmears`).
* `AcceptsExactlyWellFormed`: `AcceptsWellFormed`, for strings, slices and writes that
  are not cut. The validator goes from one first byte
  to the next, and a text is well-formed exactly if these are as far apart as they
  announce.

`TestRunnerProofs.tla` proves, for any number of tests and any sizes of outputs, pipes
and reads, of `run_all_tests()` (the `Spec` of `TestRunner`, without `-d`):

* `TypeCorrect`, `SummaryCorrect`, `FailuresShownCorrect`, `DescriptorsCorrect`:
  `TypeOK`, `SummaryIsRight`, `FailuresAreShown` and `DescriptorsSuffice`. All four
  follow from one invariant, `RunnerInv`. `Counting` and `Showing` are the counters
  and what was printed, as far as the loop has come. They are not inductive: that a
  failed test is shown in full needs that it wrote all of its output before it ended
  (`NotKilled`), so that no test is killed by SIGPIPE while the runner is there; that
  needs that the runner keeps the read end of every pipe until it has judged the test
  (`Holding`); and that the last read empties the pipe needs that what was written
  is in the pipe or was shown (`Accounted`). Each step of the runner has a lemma of its
  own; those of the tests share `TestKeeps`, since none disturbs what was judged.
  It rests on `SizesAssumption`.

Only model-checked: debugging a test (`DebugTest`), and that the properties of the
runner hold beside it; the trees (`TypeOK`, `NoFault`, `OneOwner`,
`NothingElseLost`, `PrintsTellTreesApart` and that `TreeBuilder` implements `Trees`),
because `Ast` has RECURSIVE operators, in the presence of which the prover loses its
SMT backend; and `TreesFollowTheGrammar`, for the same reason: `Expressions` is mutual
recursion.
Liveness (`ParseTerminates`, `LexingEnds`, `LinesAreRead`, `RunnerEndsIfPipesSuffice`,
`OrphansEnd`, `DebuggingEnds`) is beyond the prover and stays with TLC.

## What was found

Five runs end in a violation that a comment or document of the repository says
should not happen: `parser_variadic_eof`, `lexer_point`, `runner_full_pipe`,
`ast_call_chain` and `text_surrogates`. Met on the way, and stated where the
models leave the case out or here:

* `parser.h:10-11` promises NULL for an empty source; an empty program is returned.
* `doc/bs.md` has `else if`, which `if_statement_suffix()` refuses
  (`parser.c:261-263`); and it restricts assignment targets, while the code takes
  `f() = 1` and `self = 1`.
* `continue` in a `for` loop skips the update at the end of the rewritten body
  (`parser.c:670-684`).
* `code-gen.h:10-11` says that `generate_bytecode()` returns `false` on failure; what
  is not implemented ends the process instead.
* `bytecode.c:93` prints `OP_Const2B` as `OP_Const3B`; `ast.c:49` prints `BitNot` as `!`.
* A string with 2 GiB free in its buffer takes a write that fits for one that does not, and the
  assertion of `string.c:58` ends the process; one that has grown to have 4 GiB free may get
  a part of its text, and counts all of it (`string.c:133`, `139`, "I know, I know...").
* Two different programs may be printed alike: `0.0000001` and `0.0000002`, or, since `nil`
  is a name, `nil` and the value that `nii` stands for.
* At the end of its input the REPL never stops, and a NUL at the start of a line
  makes it look in front of its buffer (`bsc.c:51`).

## Plan

Done: the modules above, which cover every component with logic of its own. Left:

1. `ParseContract`: `Source` as an abstract specification of `Parser`, so that the
   REPL is composed with the parser itself and not with its contract.
2. Proofs: the ownership of trees, once the walks of `Ast` are recursive functions.

## Not modelled

Formatted output (`writer.c`, texts of errors, `value_print`), which changes no
state; the logging macros beyond the exits they cause; the build; the unit tests,
read for what they expect; `mem_alloc()` and `value_is_falsey()`, which nobody calls;
`str_equal()` and `str_print()`; failures of untracked allocations, which end the
process at once; line numbers and names as text.
