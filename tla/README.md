# RBML: specifications and proofs

RBML is a small machine and its tool chain: `rbml` (src/rbml.c) emulates a
processor with 16 registers, an accumulator, a jump register, a call stack and a
main memory of 32-bit words; `rbmlc` (src/rbmlc.c with a flex scanner and a bison
grammar) assembles its programs; `rbmlc-mpc` is a second front end, unfinished,
on a parser-combinator library. `langspec.tex` and `quickref.tex` describe the
instructions. This directory holds the TLA+ specifications of these programs, the
TLC configurations that check them and the TLAPS proofs about them. File names
below are relative to the repository (`src/`, `langspec.tex`, `tests/`).

## 1. The system

| component | state | operations | what makes it correct |
|---|---|---|---|
| machine word (`rbml.h`) | none | build and take apart an instruction; C arithmetic on `int32_t` | fields do not disturb each other, flags are exact |
| emulator (`rbml.c`) | memory, registers, accumulator, jump, flags, call stack and its counter, instruction counter, 16 disk streams | load a program; one handler per opcode; stop | fetches stay in memory, memory changes only where told, streams are not lost |
| calls (`rbml.c:409-432`) | jump register, call stack | CALL and its conditional forms, END | END returns to the caller, at any depth and after any history |
| scanner and parser (`rbml_lex.l`, `rbml_parser.y`, `parser.c`) | parser stack, recovery status, line number, error count | scan a token, shift, reduce, report, recover | errors exactly for files that are not programs, an error costs one line, the parser ends |
| code and symbols (`code.c`, `symbol.c`) | text, its allocation, symbol table, forward references | emit, add, look up, reference, define, check | every reference ends up with the one address of its label |
| symbol table tree (`tree.h`) | red-black tree | find, insert with rebalancing, walk, walk while freeing | a set to its callers; stays balanced; a walk sees every symbol once |
| driver (`rbmlc.c`, `code_write`, `code_free`) | options, output file, exit status | compile, write, free | exit status 0 means the file holds the program; a bad source costs nothing |
| mpc front end (`rbml_parser_mpc.c`) | line buffer, line number, counts of errors and warnings, code | read a line, parse it, emit what its tree says | each line counts for itself, no line that the grammar derives is rejected, the loop ends |
| mpc: parsing machine (`mpc/mpc.c:286-1220`) | a stack of parsers and one of results in growing arrays; input with marks; the error so far | one turn of `mpc_parse_input` for each state of each type of parser | accepts and returns what the parser means; marks in pairs; nothing lost, nothing freed twice; the farthest error is told |
| mpc: languages (`mpc/mpc.c:1226-1365, 1855-3240`) | the list of parsers given, the parts each is made of | compile a grammar, find a parser by name, define, clean up | names resolved in any order, no freed parser looked at, nothing left |
| `queue.h` | | | list macros; the one list in use is a set in `Assembler` |

The programs are sequential and share nothing at run time; the emulator reads the
file the assembler wrote. What is hard about them is not concurrency. It is

* *history*: the jump register and the call stack carry stale words from call to
  call; a stream is leaked by one OPEN and missed many OPENs later; references
  wait for labels; a syntax error silences the next three tokens;
* *nesting*: a parser may fail at any depth, with marks, results and errors piled up
  under it, each of which must be given back exactly once;
* *edges*: addresses past main memory, a counter that wraps, words at both ends
  of their range, a stack and a text buffer that fill up;
* *undefined behaviour*: uninitialised words, memory read after it was freed,
  divisions that trap. Each is a choice between the outcomes a build can show;
* *failure*: a file that cannot be opened, written or closed when the process is
  half done with it.

`PROJECT.json` lists the hazards one by one with the line where each bites and the
properties that watch it.

## 2. Modules

| module | what it is |
|---|---|
| `RBMLWord` | words, fields, C arithmetic, overflow tests |
| `RBMLMachine` | the emulator: one step is one turn of the loop of `main` |
| `CallStack` | abstract: nested calls |
| `RBMLCalls` | the emulator with a history of its calls, and its refinement of `CallStack` |
| `Assembly` | tokens and lines of the language and, as a reference, the program a file stands for, defined in two passes |
| `Assembler` | the one-pass parser with its recovery, the code and the symbols it builds |
| `Rbmlc` | the command: options, files, exit status around `Assembler`, which it extends |
| `SymbolTable` | abstract: a set of names, looked up and added to |
| `SymbolTree` | the red-black tree of `tree.h` as `code.c` uses it, and its refinement of `SymbolTable` |
| `MpcStack` | abstract: a stack in an array that grows and shrinks |
| `MpcInput` | the three kinds of input of mpc, as records and operators on them |
| `MpcTerms`, `MpcNames` | parsers, the values they return, errors; parsers that refer to each other by name |
| `MpcPeg` | reference: what a parser means, as a recursive definition |
| `MpcParse` | the parsing machine, which uses its stack as `MpcStack` says |
| `MpcParseIsPeg` | what the machine has to do with `MpcPeg` |
| `MpcGrammar` | what the forms of a grammar and of a regular expression are compiled to; syntax trees |
| `RbmlGrammar` | the grammar of the assembly language in those terms |
| `MpcLang` | the parsers of a language from `mpca_lang` to `mpc_cleanup` |
| `Counting` | places in a file, counted |
| `RbmlLine` | one line of the assembly language: what `mpc_parse` makes of it, and what it means |
| `MpcFrontEnd` | the second assembler: reader and emitter, for any parser of lines |
| `RBMLWord_proofs`, `RBMLMachine_proofs` (calls too), `Assembler_proofs` (the command too), `SymbolTree_proofs`, `MpcParse_proofs` (its stack too), `MpcLang_proofs`, `MpcFrontEnd_proofs` | theorems |
| `Recursion_proofs` | lemmas: induction on numbers, functions defined by it, counting |
| `MCMachine`, `MCCalls`, `MCAssembler`, `MCSymbolTree`, `MCRbmlc`, `MCMpcParse`, `MCMpcLang`, `MCMpcFrontEnd` | small instances; a `.cfg` of the same name runs each, the `Doc*.cfg` run one property of one of them |

Every module also holds a few operators introduced by "Slip": the definition that
follows with a plausible programming error in it. No specification uses them. They
are there to see each property fail when the code is wrong.

### 2.1 Words

A word has an 8-bit opcode, two register fields and an address field. The layout
is that of `rbml.h`; the widths `NREGS` (16) and `NADDR` (65536) and hence `BITS`
(32) are constants, tied by `WordAssumption`. TLC runs use 4, 16 and 16: every
boundary of a 32-bit word (least, largest, -1, a field full) exists in a 16-bit
one, and opcodes keep their 8 bits. Arithmetic wraps at the width, as gcc compiles
it; `int` and `rbml_word` have the same width, and a shift by a negative or too
large a count is a shift by some count.

### 2.2 The emulator

| in `RBMLMachine` | in `rbml.c` |
|---|---|
| `memory`, `callStack`, `callStackCounter`, `instructionCounter`, `reg`, `accumulator`, `jump`, `disk` | globals of the same names |
| `flags` | `less`, `equal`, `greater`, `overflow`, `ioerr`, `divzero` |
| `status` | where the process is: before the loop, in it, past it, or how it ended |
| `openStreams` | streams the C library has open, whether `disk[]` still names them or not |
| `heap` | "damaged" once a store has missed main memory or a push the call stack |
| `console` | the latest output |

`Execute(op)` is the dispatch, `Continue(ic)` the end of a turn (increment, then
the region test), so each instruction's action is its handler and the rest of the
turn in one step, as in the loop. Families such as ADD, ADDA, ADDJ are one action
over a `Variants` index. `Typed` contains `Garbage` because `cread` returns a
variable that nothing has written when stdin ends. A store past main memory
leaves memory alone and damages the heap; after that, stdio and `free` may end
the process (`UsesDamagedHeap`). A push past the call stack survives for
`HEAP_SLACK` words, and may hit main memory, which lies next to it. `Fault` is
every way in which undefined behaviour ends the process.

Bounds: `SIZE_OF_MMEM` (option `-m`) is at least one word, as `main` fetches
before its first test, `MAX_STREAMS` is what the C library lets a process open.
Not modelled: the `-d` trace, usage messages, and the order of input on stdin
(any word can be typed at any time).

### 2.3 Calls

The machine has no frames, so `RBMLCalls` adds two history variables: `frames`, the
CALLs not yet ended, and `breaches`, the ways in which the program left the calling
convention: it wrote the jump register, ENDed without a call, nested deeper than
the call stack, or CALLed from address zero (zero means "no caller" to `call`).
`CallStack` is what CALL and END promise; `ImplementsCallStack` maps `pc`,
`frames` and `broken` to the counter, the history and `breaches # {}`.

Nothing else that a program does is a breach: it may branch out of a subroutine,
store over its own code, or run past its end.

### 2.4 The assembler

One step of `Assembler` is one token. The generated parser is deterministic and its
stack, between tokens, is one of a few shapes: at the start of a line, after an
identifier, after a label, within an instruction (`partial` has its tokens), after
a complete line, or recovering (`mode`). Reductions that need no lookahead are made
at once (a bison state with a single reduction does not read a token), which is
when the actions of the grammar run. Recovery is that of bison's skeleton:
`errstatus` is `yyerrstatus`, an error is reported only when it is zero, it is set
to three and counts down as tokens are shifted; in mode "error" tokens are dropped
up to a newline. `line_num` is `yylineno` when the token has been matched, so a
newline has already counted itself.

A symbol with line 0 is referenced and not defined; its `refs` are the words to
patch. `symbol_define` frees each reference before reading the link to the next:
`ReferencedLabel` either patches all (the freed bytes were left alone) or crashes.
`RunOutOfMemory` is `die` in the allocators. The scanner's `strdup` is the one
allocation whose result nobody looks at (`rbml_lex.l:96`): `LostName` is the crash of
the rule that looks up a name that is NULL. `code_check_refs` comes last. The
symbol table is the function its tree implements.

### 2.5 The symbol table's tree

`SymbolTree` has the macros of `tree.h` that `code.c` instantiates: `RB_FIND`,
`RB_INSERT` with `RB_INSERT_COLOR` and the rotations, `RB_FOREACH` (in
`code_check_refs`) and `RB_FOREACH_SAFE` (in `code_free`). A node is named by its
key; left, right, parent and colour are functions over the nodes. A step is one turn
of a loop of the macros, so that a recolouring that climbs, and a rotation after it,
are separate steps. Searches and insertions come in any order, as the parser's
names do; then come the two walks. `code_free` frees a node and then asks for the
next one, which may go by way of nodes freed before: the step either reads what was
there or ends the process. Removal, `NFIND`, `PREV` and the splay trees of the same
header are never called and are left out.

`ImplementsSymbolTable` maps the tree to the set of the names in it; a lookup or an
insertion takes effect at its last step.

### 2.6 The command

`Rbmlc` extends `Assembler` and runs it as one of its stages:

| stage | in the code |
|---|---|
| options | `main`, up to the name of the output file |
| opening | `code_alloc`, `parser_alloc` |
| assembling | `parser_parse`, `code_check_refs`; then, if there are no errors, the `fopen` of `code_write` |
| writing, closing | `fwrite` with the test of `ferror`; `fclose` |
| freeing | `code_free`, and the exit status `main` gives |

The output file is a set of at most one text: empty when there is no file. `fopen`
empties it; `fwrite` passes on any prefix, and can only be told of a failure if the
text fills the stdio buffer (`BUFFER` words); the rest is written by `fclose`, whose
result nobody looks at (`lost`). `output_file` is "wild" when `-o` is not given and the
uninitialised pointer is not NULL: the program then goes to some other file or to
none. A read error is the end of the file to the scanner, so `source` is what can be
read of the file, and `Sources` are the texts that may be.

### 2.7 The parsing machine of mpc

A parser is a term (`MpcTerms`): its type, the characters or the message it was made
with, and the parsers it is made of. Parsers that refer to each other do so by name
(`Named`, resolved in the constant `Grammar` of `MpcNames`), where C has pointers. Values are not
computed: what a fold or an application returns is a node with the function's name
and its arguments, so that any difference in what was parsed, or in which order, is a
difference in the value.

| in `MpcParse` | in `mpc_parse_input` |
|---|---|
| `parsers`, `results` | the stacks `parsers` with `states`, `results` with `returns` |
| `slots` | `parsers_slots`, `results_slots`; `More` and `Less` of `MpcStack` are `reserve_more` and `reserve_less`, the power 1.5 compared by squares |
| `err` | `stk->err` |
| `live` | how many values and errors are allocated: a count that the code does not keep |
| `Continue`, `Return` | `MPC_CONTINUE`; the pops of results and parser and the push of `MPC_SUCCESS` and `MPC_FAILURE` |
| an action such as `AndFails` | a turn of the loop in one state of one type of parser |

`MpcInput` has the string, the file and the pipe. For a file or a pipe, `off` and
`eof` are the stream's own position and indicator; `peekc`, `failure` and `rewind`
change them as `ungetc` and `fseek` do, so that the model can tell where the text and
the stream disagree. A pipe's buffer exists from the first mark to the last.

The reference, `Peg`, has no stacks and no marks: a recursive definition of the result
at a position, together with the errors met on the way. The machine is compared with it
(`ResultIsPeg`, `ErrorIsFarthest`, in `MpcParseIsPeg`) where the library promises a result: for strings
and files always, for a pipe when the whole parser is predictive
(`mpc.c:304-306`). The other properties hold for pipes as well.

Left out: row and column, which follow from the position; the wording of errors;
`mpc_parse_contents`, which opens a file and parses it.

### 2.8 Grammars and languages

`MpcGrammar` names what `mpca_lang` builds when it has read a form: `grammar_and`,
`grammar_id`, `grammar_regex` and so on, each the function `mpcaf_grammar_...` of
`mpc.c`, with the regular expressions of `mpcf_re_...`. How the text of the two
notations is read is left out: it is itself a parser of the kind `MpcParse` runs, and
the only text it is given here is the fixed one in `rbml_parser_mpc.c`, which
`RbmlGrammar` states form by form. `Tree` computes the syntax tree from a value.

`MpcLang` follows the parsers of a language through their lives. References in the
rules make `mpca_grammar_find_parser` pull arguments off a variable argument list, as
many as it needs to find a name (or all, and the NULL that ends them); the rules
are then assigned to their left sides by `mpc_define`, which frees the shell it
copied; `mpc_cleanup` undefines all its arguments and then deletes them. `bodies` is
what a rule's right side refers to, `roots` and `inner` are the parts of it not yet
freed, `retained` the parsers still allocated. A language that is cleaned up in several
calls is assumed to give up no parser after one it refers to (`CleanedFirst`), as
`parser_destroy` does: taking a parser apart looks at those it refers to.

### 2.9 The mpc front end

`MpcFrontEnd` reads lines as `fgets` and its caller do: `Chunk` is what one call
returns, `HitEnd` whether it met the end of the file. A line that does not fit is
skipped one character at a time (`Skip`), which is where the loop may read the end of
the file for ever. The children of a line's tree are looked at one by one:
a label is defined or reported, a WORD is converted as `strtol` does (a number beyond a `long` becomes the last one of its sign,
of which a word keeps the low bits) and emitted, and
every other instruction gives nothing but a debugging print, as in the code.

The loop knows a line only by what `mpc_parse` returns for it. So the module has
the parser as a parameter, and two more for the reference of its properties: whether a
line is of the language (`Derived`) and what it says (`Meaning`: its label, its word).
`RbmlLine` gives all three. `Parse` is the tree of what `Peg` returns (which `MpcParse`
is shown to implement) on the terms of `RbmlGrammar`. `Derives` takes the same grammar
as a context-free one, in which every alternative counts. `LineMeaning` reads label and
word off the characters of the line, with no grammar at all.

A mnemonic is one character of the alphabet, and one that may also stand in a name:
where it meets a name, a digit or a blank is what the parser has to decide.

## 3. Runs

| run | instance | question |
|---|---|---|
| `machine` | every opcode, 5 x 5 operands (least, -1, 0, 3, largest), address inside and past a memory of 12; 19 longer programs; a stack of 1, slack 1, 3 streams, inputs chosen at every read | does each instruction keep types, memory, flags, and the fetch inside memory, over long runs as well? are streams lost, do programs that run into zeros end (liveness)? |
| `calls` | all programs of five words over 7 calls/ENDs and 4 first words that branch or write jump, and a three-deep nesting; stack of 3 | do END and CALL implement nesting? |
| `assembler` | all files of one to three of 16 line shapes, all sequences of up to 4 of 9 tokens; text grows by 2 | does the parser accept exactly the programs, and produce them? |
| `symbols` | eight names, looked up and added in any order, then both walks | is the tree a set, balanced, and walked completely? |
| `driver` | eleven sources, with and without `-o`, an older program in the output file, a buffer of two words; every file operation may fail | what do the exit status and the output file say? |
| `mpc_engine` | 296 parsers: every type, all pairs of nine simple ones in sequence and as alternatives, larger ones with recursion, alternatives and pairs also under `mpc_predictive`; all texts of up to four of two characters; string, file and pipe | does the machine implement the recursive definition, with its stacks, marks, values and errors in order? |
| `mpc_front_end` | 3963 files: all lines of up to four characters, files of up to three of eight lines, lines of 8 to 12 characters against a buffer of 11, NULs, numbers beyond a `long` of 15 bits (words have 13), read errors | is every line of the language parsed as what it means? do a file's program and errors follow from its lines, and does reading end? |
| `mpc_lang` | the assembler's language as it is given and destroyed; all languages of up to two rules, of up to two references each, over three parsers, some of them not given, cleaned up in one call or one by one | are names resolved and all parsers freed, once? |
| `doc_mult_trap`, `doc_end`, `doc_forward_ref`, `doc_output_file` | the instances above | a sentence of the documentation that the code does not keep |

Properties, and why they could fail:

* `FetchInRegion`: the loop tests the counter once, after the increment, with an
  unsigned comparison; a branch to zero sets it to -1 first, END sets it to any
  word at all.
* `OnlyStoresChangeMemory`: a running program's words change only under a store or
  a console read that names them, as long as the stack has not been outgrown.
* `AdditionIsExact`: flag and accumulator agree with the mathematical sum. The same
  is false of SUB and MULT.
* `LeakOnlyByReopening`: every other sequence of OPEN, failed OPEN and CLOS keeps
  each open stream named by a disk.
* `ZeroTailEnds`: the zeros behind a program are executed as stores to address 0;
  the machine still gets to the end of memory.
* `CallsInv`, `CallStackHolds`, `ReturnsToCaller`, `ImplementsCallStack`: after the
  outermost END the jump register keeps the popped word or zero; the next CALL may
  push it. The stack then sits one word higher than the nesting needs. These
  properties say that this never returns to the wrong place and never costs a
  program of legal depth its last word.
* `ErrorsIffIllFormed`, `TextIsProgram`: the one-pass parser with silent errors,
  recovery and patching agrees with a definition by lines and two passes.
* `RecoversAtNextLine`, `ReportedIsInError`: an error costs its own line, and does
  not cascade.
* `RefsInText`: a reference that waits for its label is to a word already emitted,
  and patching it writes within the text.
* `EveryStepProgresses`: each step of the parser that goes on takes a token, or
  begins the recovery from one, so that no token is looked at for ever.
* `SearchTree`, `RedBlack`: the links stay consistent in both directions and in
  order at every step; between operations no path is more than twice as long as
  another. `ImplementsSymbolTable`: whatever the order of the names, each lookup
  finds exactly what was added.
* `ChecksEverySymbol`, `FreesEverySymbol`, `LoopsEnd`: `RB_NEXT` climbs out of a
  subtree by parent links; it must not skip a symbol (its unresolved references
  would go unreported), visit one twice, or climb for ever.
* `SuccessHoldsProgram`: exit status 0 means that the source is a program and that
  the output file holds all of it, unless `fclose` failed or the name was never set.
  The two exceptions are the code's own faults and the property names them.
* `BadSourceKeepsOutput`: a source in error, of whatever kind and found however
  late, never touches the output file. `Exits`: the command always comes to an end.
* `StacksAgree`: the number of results is what the states of the parsers waiting for
  them add up to; a parser that took one too many would take another's.
* `MarksBalanced`: marks are the sequences, counts and negations being tried outside
  a predictive parser, no more and no less, at every step and on every way out.
* `NothingLeaks`: every value and every error is on the stack of results, or has been
  handed on, freed or merged.
* `ResultIsPeg`, `ErrorIsFarthest`: acceptance, value, place and error agree with the
  recursive definition, though alternatives, repetition and negation recover from
  failures at every depth and merge their errors on the way.
* `UsesStack`: the machine moves its stack of parsers by the steps of `MpcStack`,
  whose array is proved large enough.
* `ResolvesByName`, `ReadsNoFreedParser`, `FreesTheLanguage`: section 2.8; the search
  is lazy and stateful, and clean-up walks parts that refer to each other in cycles.
* `LinesParsed`: the ordered choices of the grammar (a label or none, a mnemonic or the
  start of a name, 0x or the number 0) reject no line that some other choice would have
  accepted, and the tree has the label before the word, each as it is in the line.
* `ProgramOfLines`, `ErrorsOfLines`: errors, long lines and duplicate labels in the
  middle of a file change neither the words nor the addresses of the rest, and are
  counted once each, however the lines lie across calls of `fgets`.
* `EndsWhenLastLineFits`: the one way not to end is a last line that is too long
  and has no newline (and a NUL, which can hide one).

Are the bounds enough? Eight names are the fewest with which a recolouring moves the
conflict up to a place where a rotation settles it. A line's effect on the parser
depends on the mode it starts in, on `errstatus` (at most three tokens of memory)
and on the two sets of names; three lines over two names give every order of
reference, definition and redefinition, with and without a preceding error. Call
programs of five words reach depth four against a stack of three. The instruction
run is not a sequence test but a table: each opcode meets each pair of boundary
operands once. The driver looks at the text only for its length against the buffer
(shorter and longer both occur) and at the errors only for their number.

Parsers nested two deep meet every state of every type with success and failure under
it, and the texts are long enough for each of the pairs to succeed, to fail at once and
to fail after two characters; the arrays of the stacks grow and shrink several times.
No parser in the instances repeats one that accepts the empty text: that goes on for
ever, in the code too. Two rules with two references each give cycles, references
forward and back, and the same parser defined twice.

Fairness: all programs are single processes that wait for nobody except a user at
the console. The emulator has weak fairness, once a program is loaded, on every step
except console reads; the second front end goes on as long as a step changes
something (weak fairness, written out in `FairSpec`); the assembler and the command on every step, the tree on the turns of its loops (but
not on starting another operation).

Deadlock is checked in every run: a process that has ended stutters in an action of
its own (`Ended`, `Finished`, `Exited`), so any other state without a successor is reported.

### Disagreements with the documentation

Shown by a run: MULT traps when its first operand is
-1 (`rbml.c:327`); a CALL at address zero is forgotten by a nested call
(`rbml.c:410`); defining a referenced label reads freed memory (`symbol.c:124-129`,
so `tests/forward_ref.asm` crashes the assembler with current glibc); without `-o`
the output file's name is an uninitialised pointer (`rbmlc.c:61`, `87`).

Modelled as the code does it and not given a run: BRLE branches on greater or less,
not on less or equal (`rbml.c:407`, `langspec.tex:2271-2273`); SUB takes its overflow
flag from ADD's test (`rbml.c:311`); SUB subtracts the second register
from the first, the reverse of `langspec.tex:1570-1572`; DIVA, DIVJ, MODA, MODJ and
the shifts LSFA to RSFJ take their operands in the reverse of the documented order
(`langspec.tex:1674-1676`); MULT's overflow flag is wrong for a negative first
operand; OPEN sets the I/O error flag; BRER, BROF, BRIO, BRDZ and the CA* forms of
them are documented and not implemented (unknown opcodes); a syntax error found at
a newline is reported one line late; DIV and MOD trap at their extreme operands.

In mpc: `mpc_count` accepts n repetitions only if no further one follows, where
"exactly `n` times" of its README might be taken to stop after n; a number in a
grammar refers to the last parser pulled off the argument list rather than to the one
of that number; a pipe loses what it has buffered when its last mark is taken back, so
that a sequence that fails there cannot be tried again; the end of the file, once
looked at, stays set on a pipe; repetition of a parser that accepts the empty text does
not end; `mpc_boundary` takes the ends of the text for part of a word
(`strchr` finds the terminating '\0'). In the front end: instructions other than WORD
emit nothing and are not reported; a NUL in a line makes it a line too long and swallows
the next one; addresses count words emitted, so that labels after other instructions
are off.

## 4. Proofs

TLAPS checks these for every value of the constants that satisfies the modules'
assumptions. Those say no more than that the constants are what the code is given:

| assumption | what it says |
|---|---|
| `WordAssumption` | the fields of a word make up its width |
| `MachineAssumption` | main memory and call stack have a word at least; files hold words, the console and uninitialised memory give words |
| `AssemblerAssumption` | the text grows by at least one word; source files are sequences of what the scanner can return |
| `RbmlcAssumption` | there is at most one old output file; the stdio buffer holds a word at least |
| `KeysAssumption` | names are finitely many and ordered (numbers stand for them) |
| `UsesAssumption` | `mpca_lang` is given parsers that were made, and each is cleaned up once, in no later call than those its rules refer to |
| `TextsAssumption`, `ParsersAssumption` | texts are sequences; the parts of a parser are parsers, one for the types of one part; named parsers are parsers |
| `FilesAssumption` | files hold sequences of characters; the line buffer has room for one and the end of the string |

### Words and the emulator

* `AdditionExact`: the overflow test is exact. By cases on the sign of the first
  operand; `WrapWord` and `WrapIsWord` say what wrapping does. `FromBitsIsWord` says
  that a set of bits makes a word: the sum is a function on the numbers of bits, and
  the proof goes by induction on those.
* `FetchesInRegion`: `Spec => []FetchInRegion`. The invariant is `ControlInv`, which
  adds that the counter is zero before the loop. Every turn ends in `Continue` or
  ends the process (`ComputeRuns`, `ComputeControl`), and `Continue` keeps a process
  running only at an address of main memory. Types of other variables are not
  needed, so the theorem holds whatever the arithmetic does.
* `MachineTypes`: `Spec => []TypeOK`. `TypeOK` alone is not inductive: CLOS takes one
  off the number of open streams, which stays a number only because an open disk
  accounts for one of them. `MachineInv` adds `LostStreams >= 0`. The proof goes
  through the families of instructions by what they may change (store, call stack,
  registers and flags, streams, console), so that each is looked at once.
* `MemoryChangesByStores`, `AdditionsAreExact`, `StreamsLostByReopening`: the three
  action properties, from the same invariant. The second is `AdditionExact` with
  what the machine adds: that the operands are words (hence the invariant), and that
  flag and accumulator are assigned in the same turn.

### Calls

* `FramesAreOnStack`: `CallsSpec => []CallsInv`. While nothing has been breached:
  the jump register is the latest frame, the call stack holds the others in order,
  and its counter is the number of those, or one more: the stale word an outermost
  END left. No frame is zero, which is why `call`'s test is right, and which is what
  CALL at address zero breaks. The step splits into a taken CALL (`CallTurn`,
  `CallKeeps`), an END (`EndTurn`, `EndKeeps`) and every other turn (`QuietTurn`,
  `QuietKeeps`); `NoBreach` turns "nothing breached now" into the hypotheses of
  each.
* `EveryEndReturnsToItsCaller`, `NestingFits`, `MachineImplementsCallStack`: the two
  action properties and the refinement, each from `CallsInv` and the same three
  lemmas about a turn.

### The assembler

* `Progresses`, `TextAlwaysFits`, `RefsAlwaysInText` say that the parser ends and
  writes within its memory. The first needs no invariant: each action is looked at.
  The other two rest on `Inv`: the text is a sequence no longer than its allocation
  (`Room`), and every reference kept is below its length (`RefsBelow`).
* `ErrorsTellIllFormed`, `OnePassIsTwo`, `ErrorsCostTheirLine`, `ReportsAreOfErrors`,
  `TypesStay` compare one pass over tokens with a definition over lines, for files of
  any length. The invariant is `Assembled`. Its parts:
  - `Place`: the position in the token sequence is a line (`Here`) and a number of
    tokens taken from it (`Taken`); the mode says which tokens those are. In mode
    "error" the line is not good, whatever follows in it.
  - `CodeIs`: the text and the symbols are those of the lines done with and of the
    labels met: a word that refers to a label not met yet is noted in its symbol, and any
    other holds the label's address (`WordIs`, `SymbolsAre`).
  - `ErrorsAre`: while no errors are counted every line so far is good and nothing is
    being recovered from; once there are, some line of the file is not good. This is where an error kept quiet by `errstatus`
    must not be lost: `errstatus` is zero as long as the count is.
  - `Answer`, which `AtFilesEnd` and the two above give at the last step.

  Lines are sets of positions, their numbers are cardinalities (`Before`), so that a
  step is a fact about adding one element and no definition is recursive.

### The command

* `SuccessTells`, `BadSourcesKeepOutput`: from `Commanded`, which adds to `Assembled`
  (the command extends the assembler, so that its invariant carries over) that
  nothing is written unless no errors were counted, and that exit status 0 is given
  only when the text is in the file. The theorems then need `Answer`: no errors means
  that the source is a program and that the text is that program.

### The symbol table's tree

* `TypesHold`, `StaysSearchTree`, `StaysRedBlack`, `WalkSeesAll`, `FreesAll`,
  `TreeIsTable`, for every finite set of names. `SearchTree` and `RedBlack` are about
  whole paths; neither is inductive in that form. `IInv` has instead:
  - an interval of names for every node (`Bounded`): the children divide that of
    their parent. A rotation changes two of them, an insertion halves the gap it fills
    into two, and a search stays in the interval of the node it is at (`Searching`). The
    intervals shrink on the way down, so paths end (`Width` is what the induction is
    on);
  - a number for every node that counts the black nodes below (`Balanced`): the same on
    both sides, at every step, also while a red node has a red parent (`Colors` says
    where the one such node may be);
  - what the walks have seen (`Phases`): the names before the one they are at.
    `RB_NEXT` goes to the next name because the node it climbs to is the end of an
    interval.

### The parsing machine

* `StackFits` (about `MpcStack`): a stack whose array grows by `ceil((s + 1) * 1.5)` when it is outgrown
  and shrinks to `floor((s - 1) / 1.5)` when it has more than `(n + 1)^1.5` slots has
  a slot for every entry, for ever. `ManySlots` carries it: from
  `s^2 > (n + 1)^3` follows `2s >= 3n + 2`, since otherwise `4s^2` would be below a
  square of `3n + 1` that `4(n + 1)^3` exceeds.
* `ParserTypes`, `ParsersTakeTheirOwn`, `MarksPair`, `NothingIsLost`: for every
  set of parsers that refer to each other in any way, every text and every kind of
  input. The invariant is `ParsingInv`:
  - `Sound`: the input is at a place in its text, and so are its marks; a file's stream
    is where the machine is; a pipe's buffer holds what was read since the first mark;
  - `Waiting`: a parser under another is in a state in which it waits for it;
  - `Collected`: of the results a parser has collected all are good, or, if it wants one
    of several, all are bad. `NothingLeaks` is not inductive without this: a
    sequence that fails frees st - 1 values and no error, alternatives that fail
    merge st errors and no value, and that these are numbers of what is really there
    follows from nothing else in the state;
  - `Stopped`, `Room`, the bounds of errors, and the three properties themselves.

  A turn either asks for a parser (`ContinueKeeps`) or returns a result
  (`ReturnKeeps`); each of the 26 kinds of turn has a lemma that says what it does to
  input, errors and memory, and cites one of these two. The runs of `TakeString`, of
  merging errors and of counting slots are functions on numbers, and induction on
  those gives what they return.
* `ParserArrayIsStack`: the machine moves its stack of parsers by the steps of
  `MpcStack`, so that `StackFits` is about the machine.

### Languages

* `NamesAreResolved`, `NoFreedParserIsRead`, `LanguageIsFreed`: for any rules, any
  arguments and any calls of `mpc_cleanup` that `UsesAssumption` allows. The invariant is
  `LangInv`, one part for each stage:
  - what was pulled are the arguments in their order, up to the NULL at most
    (`InArgumentOrder`). `NameIsFound` derives that a search ends at the argument of the
    name, or at the NULL if there is none, whatever was pulled for earlier searches;
    numbers keep it only as long as what they return is not a NULL (`NumberIsFound`),
    which is where the process crashes;
  - the bodies are what their rules' names stand for, as far as they were read
    (`BodiesFound`);
  - `roots` and `inner` are those of the rules read and not defined (`Reading`,
    `Defining`), and a parser's body is the last of its rules so far (`DefinedTo`);
  - while parsers are cleaned up, those undefined have no body, those kept are the ones
    no finished call deleted, and a body that is left is that of the parser whose only
    rule it came from (`CleaningUp`).

  That nothing freed is looked at (`ToCleanIsKept`, `TouchedAreKept`) is where the order
  of the calls is needed: a parser freed earlier that is looked at now was given to an
  earlier call than one referring to it. That nothing is left needs that as many
  left sides as rules are no two rules' (`LeftsApart`).

### The front end

* `FilesAreTranslated`, `ErrorsAreCounted`: `Spec /\ []LinesParsed => []ProgramOfLines`,
  and likewise `ErrorsOfLines`, for every file, every length of the line buffer and every
  language: `mpc_parse`, `Derived` and `Meaning` are parameters, of which only
  `LinesParsed` is used. That hypothesis is about single lines and says nothing of the
  loop; for `RbmlLine` it is what the run `mpc_front_end` checks. What is proved is
  what the loop adds: buffer, chunks, long lines, numbers of lines, addresses,
  duplicates, counts. `[]` is on the hypothesis because only a line that is parsed needs
  it. The invariant is `FrontInv`, whose parts for a file without NULs are:
  - `Reads`: between lines, the position is just after a newline, or at the end of the
    file, and `line_num` is the number of lines before it; while a line too long is
    skipped, it is within that line; otherwise the buffer holds the code of line
    `line_num`, or is empty for one too long. `NextStart` and `LastStart` say that
    the next newline ends the line with the next number, and that there is none
    after the last; `CutPiece` that what `fgets` returns, cut at the newline and at
    the comment, is the line's code.
  - `Gives`: symbols, text and errors are those of the lines done with (`Produced`), and
    of the line at hand what its remaining children do not have still to give
    (`Remaining`). That a label is defined in the table exactly if an earlier line has
    it (`DefinedIsDuplicate`) rests on this, and that the label is met before the word
    on `InOrder`.

  One lemma per action (`...Keeps`) says what it does to each; `FrontStep` puts them
  together. With a NUL in the file the properties say nothing, and do not hold: a NUL
  hides the newline after it.

### How recursion is reasoned about

The provers cannot instantiate the library's induction theorems, which take an operator
as a parameter. `Recursion_proofs` does without them: `LeastNatural` says that a set of
numbers that is not empty has a least member, since < is well-founded on them;
`Induction` is about a set of numbers, and `RecursiveFunction` and `RecursiveUpto` say that
a function defined by recursion on them exists and has its equation. Numbers of lines
are numbers of places (`Before`, `Nth` of `Counting`); the lemmas there say how they
change when the next place is added, so that proofs about files need no recursion
over them.

### Only model-checked

* Liveness (`ZeroTailEnds`, `LoopsEnd`, `Exits`, `EndsWhenLastLineFits`): beyond TLAPS.
* `ResultIsPeg`, `ErrorIsFarthest`: the reference `MpcPeg` is a `RECURSIVE` operator over
  terms; relating the machine to it needs induction on the run of a parser within a run.
* `LinesParsed`: the parser of `RbmlLine` is `MpcPeg`, and what it is compared with is
  recursive as well. The theorems about the front end have it as their hypothesis.

## 5. Plan

1. *Done:* words, emulator, calls, assembler, symbol tree, command, the parsing machine,
   languages, and proofs of their safety properties.
2. *Done:* grammars and the mpc front end, model-checked; the front end's reader and
   emitter proved for every parser of lines that meets `LinesParsed`.
3. *Not done:* `Toolchain`, a file assembled, written, loaded and run: `Rbmlc` and
   `RBMLMachine` meet in the output file, which each describes for itself.

### Not modelled

* The text of grammars and regular expressions and their syntax errors
  (`mpca_lang_st`, `mpc_re`, and the escapes, literals and numbers only they read):
  fixed text in this program, and parsed by the machine that is modelled.
* Functions of mpc without state that RBML does not call or calls for its messages
  only: escaping, trimming, arithmetic folds, printing of parsers, trees and errors.
* Removal and the splay trees of `tree.h`, and the lists of `queue.h` apart from the
  one that is a set in `Assembler`: macros that are not instantiated.
* Usage texts, the trace of the emulator, the characters of derived file names.
