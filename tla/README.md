# A verification development of the jane compiler

`jane` compiles one source file and the files it uses into an object file, an
executable or a shared library. It is a sequential C++ program that starts one
other process, the linker. This directory models its parts in TLA+, checks the
models with TLC and proves their invariants and refinements with TLAPS.

## The system

```
main.cpp           arguments -> Build -> codegen_create, setters
codegen.cpp        codegen_add_root_code
                     codegen_add_code        read, tokenize, ast_parse; recursion over "use"
                     semantic_analyze        analyze.cpp
                     do_code_gen             LLVM IR
                   codegen_link              object file, fork of ld, header
```

| Component | State | Operations | What is hard | What makes it correct |
|---|---|---|---|---|
| hash map (`hash_map.hpp`) | slots, capacity, size, search bound, modification count | put with rehash, get, maybe_get, clear, remove, iterators | probing, growth in the middle of a put, stale iterators, order of calls | it is a finite map; iterators are complete or refuse; put returns |
| tokenizer (`tokenizer.cpp`) | position, state, tokens, open token, line and column, comment depth | one step per character | characters put back, tokens cancelled, texts that end anywhere | ordered spans that tile the text, true places, right identifiers |
| import loader (`codegen.cpp:607-665`) | import table, call stack | load a file, loop over its uses | recursion, cycles, failure in the middle | each path once; exactly what the root needs; it ends |
| semantic analysis (`analyze.cpp`) | function table, definitions, errors, output type | preview and analysis of every declaration | two passes, order of imports, reused nodes | the verdict is right; the tables fit code generation |
| command line, linking (`main.cpp`, `codegen.cpp:692-863`, `os.cpp`) | options, files, child process | arguments, emit, fork, header | a child that is not waited for, failure between writes | options as given; ld reads a complete object; an honest status |
| parser (`parser.cpp`) | token index, directive list, the recursion | one function per rule | lookahead, who steps over what, null results, mandatory nodes, aborts | the tree is the text in its order; null means nothing was read; it ends |
| code generation (`codegen.cpp:58-606`) | LLVM's module and builder, debug scopes, `str_table` | `gen_*` | pairing of tables, control flow inside expressions, blocks without end | the code computes its source in its order; what LLVM rejects is known |
| buffers and lists (`list.hpp`, `buffer.hpp`, `buffer.cpp`, `os.cpp:54-182`) | items, capacity, length | every method, file contents, paths | terminators, growth, appending to itself, C strings against lengths | byte strings and stacks behind the memory |
| processes (`os.cpp:16-135`) | descriptors, pipes | spawn, `os_exec_process` | a child waited for before its output is read | it answers, gives back the output |
| LLVM wrappers, utilities, messages | none | | | not modelled |

The components meet by calls and by the shared `CodeGen`: the loader fills
`import_table`, the analysis iterates over it and fills `fn_table`, `fn_defs`,
`link_table` and the output's name and type, code generation and linking read
them. All tables are instances of the hash map; the modules of the other
components use finite functions and sets for them, and an arbitrary order for
an iterator, which is what `MapSpec` promises.

The repository's parts do not fit together as they stand: `tokenize` and
`semantic_analyze` differ from their declarations, `codegen_crate` from the name
its caller uses, and with assertions, which the build file forces, `ast_parse`
aborts (`parser.cpp:1117`). Every component is therefore modelled against its
own interface: `Parser` starts from the tokens that `tokenize` is written to
return, with and without assertions; `Imports` and `Analyze` from the
declarations that `ast_parse` is written to return, `Codegen` from the tables
the analysis leaves, `Build` from the verdict of `codegen_add_root_code`.

## Modules

`MapSpec` is the abstract map: put, get, clear and an iteration that visits each
pair once and panics after a modification. `HashMap` is the table; the loops of
`internal_put` and of the rehash take one step per iteration, with the locals in
`cur`, `oldEntries`, `oldIndex`; the read-only loops are one step. Its client
calls in any order. `Spec` has the calls the compiler makes and clear;
`FullSpec` adds `Remove`, which nothing in the repository calls. `Map` is the
refinement: half-way through a rehash the contents are those of both arrays and
of the pending put.

`Tokenizer` has one action per kind of loop iteration: `OpenToken`,
`SecondCharacter`, `EndAndPutBack`, `EndAndSwallow`, `OpenComment` and so on; the
character classes and the tables of one- and two-character tokens are sets of
tuples. `Continues`, `Ends`, `PutsBack` say which states do what. `GapsAreComments`
reads what lies between tokens with a scan of its own (`Scan`), in which comments nest.

`Parser` is `ast_parse`. The activations of its functions are the frames of a
stack (function, the call it waits for, `mandatory`, the node so far, where it
began); a step is what a function does between two calls. A node is the sequence
of its tokens in the order of its fields, so that the tree can be compared with
the text. The nine levels of binary operators share one set of actions with the
table `Binary`; their differences, defects included, are its entries. The input
is a sequence of token ids and whether assertions are compiled in. Functions that
no text reaches are named at the head of the module. `AcceptsLeading` compares the
end of the parser with a finite automaton over the ids (`Moves`, `Leading`), which
has no stack and knows nothing of lookahead and of null.

`Imports` has the activations of the recursive `codegen_add_code` as a stack of
records `[key, decl]`. A source tree, chosen at the start, says what file each
path leads to and what that file uses; a file may be missing or not parse.

`Types` and `Expressions` are the pure part of the analysis: type entries as
sequences and `analyze_expression` as a recursive operator. `Analyze` is
`semantic_analyze`: one action per declaration and pass. It takes the analysis
of a body as the constant `AnalyzeBody`, which keeps the recursive operators out
of the module; `MCAnalyze` supplies `Expressions`. Undefined behaviour is a choice:
the uninitialized export type takes any value, the misread union of a root
export crashes or looks empty.

`Codegen` is `do_code_gen`: functions are declared in any order (an iterator of
`fn_table`), then bodies are generated by frames of `gen_block` and `gen_expr`.
What LLVM keeps is modelled as the basic blocks of every function with their
instructions, the builder's block and its debug location; `Valid` is what
LLVM's verifier makes of them (external). `MCCodegen` has the source's meaning, an
evaluation order and a typing, written over the trees; `CodeIsSource` and
`OutcomeIsRight` compare the two.

`Text` says what bytes mean to a reader of C strings; `TextSpec` is the abstract
specification of buffers (byte strings) and lists (stacks), driven by the last
`call`. `Buffers` is the memory behind them: items up to a capacity, junk
where nobody wrote, a length, ints that end at `MaxInt`. Each method is one
action; `Contents` is the refinement. Appending a buffer to itself may read freed memory:
its bytes are then arbitrary, and `TextSpec` promises only the length. The client
calls anything in any order.

`Exec` is `os_exec_process` with its child. Descriptors are numbers that lead to
ends of pipes, so that dup2 and close do what they do in the code to numbers it
should not have. The third pipe is never made: `stderr_pipe` holds any two
numbers. The program the child becomes writes some bytes to its two outputs and
may read its input to the end; it and the pipes are external. A child that dies before that
("failed") may complain on its descriptor 2, which can be a pipe by then; the message
is taken to fit into a pipe. `ExecInit`, `ExecNext` and
`ExecSpec` are so named because `ProcessProofs` extends `Build`, too.

`Build` is one run of the compiler with its child. `main`'s loop reads one
argument per step; `codegen_add_root_code` is one step with the verdict and the
output's name and type; the object and the header are each opened (contents
"torn") and completed in two steps; `Spawn` forks, and `StartLd` and `EndLd`
interleave with the rest of the compiler. The header's text goes through `Text`,
as it is formatted into one buffer and printed from it. What ld itself does is
external.

Formatting is left out: message texts, verbose output, ld's argument list, the
header's text except for which pieces of which functions it has. So are release
and strip, which only configure LLVM.

## Runs

| Run | Instance | Shows |
|---|---|---|
| HashMap | 4 keys, 2 values, capacity 2, 4 modifications | map, lookup, counting, room, iterators, refinement, put returns |
| HashMapRemove | the same with remove | what survives remove |
| HashMapRemoveLoses | the same | finding: remove loses other keys |
| Tokenizer | all texts up to 3-7 characters over five alphabets | spans, places, identifiers, comments, termination |
| TokenizerLessOrEqual | operators | finding: `<=` writes through null |
| Parser | whole and broken declarations, all short bodies, with and without assertions | tree and text, what is accepted, null and mandatory, directives, termination |
| Imports | all trees of 3 files and 2 paths; 3 paths to 3 files | once each, exactly the needed, ends |
| Analyze | 1 or 2 imports, up to 3 declarations each | the verdict against a declarative one, tables |
| Codegen | one or two functions, operations nested up to two deep | outcome, code against source, scopes, callees, literals, termination |
| Buffers | 4 calls on 3 buffers and a list, capacities 2 to 8, ints up to 15 | refinement, terminators, hashes, and where readers see something else |
| Exec | pipes of 2 bytes, children that write 0 to 3 bytes to each output, all pairs of numbers in `stderr_pipe` | when it ends, when it hangs, what it returns |
| Build | all lines of up to 3 words and whole builds with each option | options, the linker's input, the status, both processes end |

Why the bounds are enough. HashMap: the initial capacity 2 grows to 4 and 8 with four puts;
two keys always collide, two others sit in the last slot so that probes wrap
around; an iterator is alive across each of these. Tokenizer: every state is entered and left by
every kind of character, and comments nest three deep within seven characters.
Parser: three texts with every kind of declaration are cut off, stripped of one
token or given another in its place, at every place; bodies are all those of up
to three tokens over thirteen ids and of five over five, with operators
of five of the nine levels, the two lenient ones and `^` among them; the others differ from
these in their operators only. Deeper nesting repeats the same frames.
Imports: cycles of length one to three, a path that two files share, two paths to one
file, missing and broken files at any depth. Analyze: two imports in both orders
show every effect of order; three declarations give a definition, its
redefinition and a call. Codegen: an operation's code depends on its operands
through the current block and their types only, so that operations over all leaves, and
once more over a sum, a branch and a call, show what deeper trees do. Buffers: a capacity of 2 doubles twice, and four calls allow two buffers to
be filled, shrunk or joined and read; the files lie below, at and above the
largest power of two that the ints hold, and the directories below, at and above the size of
the first `getcwd`. Exec: outputs of less than, just and
more than a pipe, read one byte at a time; the numbers include every end of every pipe,
the standard streams and one that is not open. Build: three words reach every branch of the
argument loop twice; each output type is built with each option, and whole builds have
`-Ipath` alone, before and behind the input, before the command and as a value.

`VerdictIsRight` compares the analysis with `Accepted`, which is written over the
declarations and not over the passes. It states the two effects of the
import order that the code has (a call sees the imports analyzed so far, and the
first import has to know the output), so that these are visible and nothing else
depends on the order.

`TokensConsistent`, `StackConsistent`, `TablesConsistent`, `CodeConsistent`,
`ReturnsInVain` and `FilesConsistent` are conjunctions of the named invariants in front
of them, the type invariant of the module among these. The type invariants of the
hash map and of the loader are proved and not checked again.

Each property of a passing run has a mutant: a definition ending in a plausible
bug, marked `mutant`, with which TLC finds the property violated.

Fairness. `HashMap`, `Tokenizer`, `Parser`, `Imports` and `Codegen` are sequential code: weak
fairness of a loop in progress (`Inside` of put, `Next` of the others) says only
that the program keeps running. The clients of the hash map and of the buffers are not
obliged to call. `Build` and `Exec` have weak fairness of each of the two
processes, which the operating system's scheduler gives; ld is assumed not to
run for ever, nor is the program in `Exec` unless it waits. `Analyze` and `Buffers` have no
liveness property: their loops are over finite tables.

## Findings

Two runs exhibit a disagreement with the repository's own words (see `findings`
in `PROJECT.json`): `remove` loses keys, and `<=` writes through null. The other
models contain the code's defects as they are, and their properties say exactly what
they do:

- parser: with assertions every text aborts at the first declaration
  (`parser.cpp:1117`); a directive's `)` is never read (367); what stands behind
  a function definition but another one is rejected (1032), and so is the end
  of the file; `^` has the wrong callee (787), a missing operand of `&&`
  is not reported (877); a statement's semicolon is expected and not stepped over
  (949); calls with arguments are rejected (469). `AcceptsLeading`, `TreeIsText`
  and `ReturnContract` are stated with these exceptions by name.
- tokenizer: `-` and `/` swallow the character behind them, and a token that the end of
  the text ends goes one character too far, so that a keyword there is a symbol
  (`tokenizer.cpp`; `TextFitsId` exempts both).
- imports: a root that is imported again is loaded a second time, under another
  key (`LoadedOnce` is about paths).
- analysis: an extern block is analyzed through the wrong member of a union;
  `void` resolves to the invalid entry; an argument of a call that does not
  return is not accepted (`analyze.cpp:245`, `270`). See `VerdictIsRight`.
- code generation: `&&` and `||` leave a block without a terminator and phi nodes
  with the wrong predecessors (`codegen.cpp:264-304`), so LLVM aborts; a nested
  block panics (400); a definition's import is null (490). See `OutcomeIsRight`.
- buffers: `buf_appendf` counts its NUL into the contents (`buffer.cpp:40`), so
  that a generated header shows only the first half of the first declaration
  (`StatusIsHonest`, in `FilesConsistent`); `os_get_cwd` leaves a length of 1024, which hides the names
  of imports from fopen (`CwdHidesName`); `os_fetch_file` lets through files whose size overflows
  the ints when doubled (`FetchOverflows`).
- processes: `os_exec_process` waits before it reads, so a child with much output
  hangs (`WaitsForEver`), and otherwise loses what it reads and returns by the chance of two
  descriptors it never made (`ReturnsInVain`). It has no caller.
- linking: the header is written while ld runs already, so an abort there leaves a library
  whose header is missing or empty; an exported type without a C name always ends
  so (`codegen.cpp:705`, `712`; `StatusIsHonest`).
- command line: the usage text (`main.cpp:8-24`) lists an option `-Ipath`, which `main`
  takes for the command or the file to compile because only two dashes make an option (95):
  `build -Ipath --name n` compiles a file called `-Ipath`, as `OptionsAsGiven` says. The
  command `link` and the option `--version` of that text are answered with the usage, and
  `--name`, which every build needs, is not in it; a build without `--name` crashes and `--name` without `--export`
  is ignored (`main.cpp:73-76`, in `Build`); a library's file name repeats the major
  version (`codegen.cpp:836`); a header's parameter list ends in a comma (741).

## Proofs

Eight modules prove, for every value of the constants that the named assumptions
allow, the invariants and action properties that the runs check, but for the three named
at the end of this section, and both refinements. In each, `IInv` is the inductive invariant, a
conjunction of named parts; there is a lemma for the initial states, one or more
for each action, and the theorems at the end follow from `InvariantHolds`. Where a
property needs more that is best kept apart, a second invariant stands beside `IInv` and
is shown to be kept where `IInv` holds: `GInv` of the tokenizer, `Covered` and
`Explained` of the parser.

`HashMapProofs`, for every hash function, key and value set, capacity and number
of modifications: `TypeOK`, `SizeCountsUsed`, `RoomToProbe`, `StoredIsFound`,
`IteratorComplete` and `ImplementsMap`. None of the first four is inductive
alone. `IInv` adds what the locals mean in the middle of a put: every entry has
distance 0 (so the swap never happens), every slot of its probe sequence before it
is used by other keys, the sequence is no longer than the search bound, and the
same of the probe in progress; the rehash has fewer entries to move than free
slots. `IndexInjective` and `IndexOnto` (one round of the probe visits each slot
once) and `UsedFinite` carry the counting: a probe that went around would have
seen as many used slots as there are slots. The part `CountInv` does not need a
key to be where its probe sequence leads. `remove` keeps it, because distances are
all 0 and its loop that shifts entries back stops at once, and with it what an
iterator has counted (`IteratorOK`): `RemoveKeepsCount` is about the interface with
remove, of which the run HashMapRemoveLoses shows that `StoredIsFound` is lost.
For the refinement `KeysApart` says that no key is in two of the new array,
the old one and the pending put, so that `Contents` is a function; each step of the
table is then shown to be a step of `MapSpec` or to leave its variables alone.

`TokenizerProofs`, for every text: `TokensConsistent`, `PlacesFaithful`,
`TextFitsId` and `GapsAreComments`. `ListOK` says where the tokens lie at the position reached, the last
of them being `OpenOK` (begun by the character that chose the state, with
only the characters that keep that state since) and the others `ClosedOK`; `TextsOK` that
their texts fit; `CursorOK` that line and column count what stands before the
position. Cancelled and put-back characters need both ends of this: a token that
ends one character early has to be shown to have ended where it began to differ. The
invariant has a form of its own for the end (`DoneOK`) and for the crash
behind `<` (`CrashOK`). For the gaps (`GInv`) the scan from the end of the last token is, at every position,
in the state that the tokenizer's own state and comment depth stand for; the scan is a
recursive function, so each character is one application of its equation, and the gaps
that are closed do not change.

`ParserProofs`, for every text and both builds: `StackConsistent`,
`ReturnContract`, `TreeIsText` and `AcceptsLeading`. The stack alone says nothing of what a callee returns, so the
invariant is a contract between activations: `Awaits` (which call an activation at
which place waits for, with which position and `mandatory`), `Promises` (what
a function says when it returns null), `TopOK` (the innermost activation reads
a token at the place that its caller told it, or was served what it waited for).
Every action is shown to keep `StepOK`: the invariant, and the promise of a
function that returns. `DirectivesOK` says who owns the directive list, which is the
reason why none is overwritten. `ast_expect_token` stays inside the text because
no expected id is the last token's; only one read can pass the end, that of
`ReadsBehindEnd`. `TreeInOrder` is inductive itself, given that the nodes of
a returned function follow those its caller has. For `TreeIsText`, `Covered` says that
either a body has a statement, so that an activation stands that will never return (`Stuck`), or the nodes
declared, listed, held and returned are together the tokens stepped over that say
something (`Clear`). For `AcceptsLeading` the invariant is `Explained`: `Tracked` says that the automaton is in the state
that the innermost activation's place stands for, with as many declarations (`Synced`),
or is dead and the parser stuck or ended (`Settled`); with assertions `AtHead` says that the
parser is among the directives. `Marked` says that a result which goes up the levels
of operands has an operand's last token before it, which is where reading behind the end
may happen. That a dead automaton stays dead to the end of the text is shown
from a least counterexample.

`ImportsProofs`, for every source tree: `TypeOK`,
`LoadedOnce` and `ExactlyTheUsed`. The invariant says that the activations belong to different
files of the table, each having seen to the uses before its index, that a file
without activation has all its uses in the table, and that everything loaded so
far is in the table. The last gives `LoadedOnce` (a file is loaded only if it is not in the table), the others, at the end,
closure. `CallOK` is the contract of a call of `codegen_add_code`, shared by the root and the recursive call.

`AnalyzeProofs`, for every program, settings and analysis of bodies:
`TablesConsistent` and `ReadyToGenerate`. Beside `DefinedOnce`, the invariant has
`Registered` (each entry of `fn_table` is of a definition in `fn_defs` or of an
extern block, and each definition in `fn_defs` has its name there), `NoExternBehind` (nothing is
analyzed behind an extern block, so that a program with such entries
never gets to code generation), `OutKnown` (an import without an error knew what is
exported) and `Ended` (a finished analysis has seen every import).

`CodegenProofs`, for every program that an analysis may leave: `CodeConsistent`.
`PlaceOK`, `BlocksOK` and `CodeOK` say where the builder stands and that every
instruction is in its function's scope with a declared callee; `StackOK` that the
frames are of the program's nodes, hold values that exist and, of a
short circuit, have both targets before the second operand is generated. Trees
are not walked by induction: the assumption on `Nodes` says that a program's nodes
are closed under `Children`, as those of a finite tree are.

`BuffersProofs`, for every first capacity, range of the ints, set of
texts, files and paths and number of buffers and lists: `TypeOK`, `TerminatorInPlace`,
`EqualKeysHashEqual`, `ImplementsText`, `CwdHidesName` and `FetchOverflows`. Type and
terminator together are
inductive: a call that appends writes from the old terminator on, whose place the
invariant gives. The lemmas go from the memory (`EnsureCapacityHolds`: a capacity
that is reached holds what was held) through the parts of a call
(`CopiedType`, `TerminatedType`, and `TextIs`, `CopiedBehind` for the contents) to one lemma per operation, and
to one named `...Implements` for its step in `TextSpec`. `HashesAgree` needs
the terminator because `buf_hash` reads the second byte of a key of one.
Doubling is a recursive function, whose values are compared with powers by taking the
least counterexample. `CwdOK` remembers that the call before was `os_get_cwd`; that a
path holds no NUL is assumed (`PathsAssumption`), as getcwd returns a C string.

`ProcessProofs` has two parts. For every command line and every source, of `Build`:
`OptionsAsGiven`, `FilesConsistent` and `LinkerReadsObject`. `LinkerOK`
ties the child to the compiler's place (it is started behind the object
file and only the header is written later) and to what is in the files; the three
file names differ by their endings. `ArgsOK` says what the options are of the
arguments read so far; `Starts` and `HBuf` are recursive functions, shown to be what
their equations say from a least counterexample; the assumption on `Option` says that `-Ipath`
is none. `FilesOK` says which files there
are at which place and with which status, `HeaderOK` what an abort beside ld leaves of the
header and that a complete one has only types with a C name. For every size of pipes and buffers,
every child and every content of the third pipe, of `Exec`: `ReturnsInVain` and
`WaitsForEver`. The descriptor tables are determined by the places of the two
processes (`TablesOK`), what was written is in the pipes or has been read unless the child
failed (`CountOK`), and
the first stream ends only when its pipe is empty and has no writer (`EndOK`).

The proofs assume the named assumptions of the modules on the constants only, which
TLC evaluates on every run.
Out of the prover's reach and only checked: liveness (`PutReturns`, the
`Terminates`, `BothEnd`, `Answers`, `ReadsEnd`), and what the recursive operators of
`Expressions` and the MC modules compute (`VerdictIsRight`, `OutcomeIsRight`,
`CodeIsSource`): these compare an outcome with a second definition that is recursive over
trees, which needs an induction over them.

## Not modelled

- `jane_llvm.cpp` and the LLVM library: wrappers without state of their own; what
  the verifier rejects is in `Codegen`.
- `util.cpp`, `error.cpp`: allocation that panics, and texts. Nothing frees memory but
  lists that grow.
- `init` of `codegen.cpp`: target, debug types, constants handed to LLVM.
- `ast_print`, `print_tokens`: output only.
- `os_write_file`: no caller, opens, writes and closes.
- the contents of string literals (`parser.cpp`, escapes) and numbers: they do not decide
  anything that the models tell apart.
- two builds at the same time or one after the other with the same output name, and two
  spellings of one path: `Build` has one run, `Imports` tells paths apart by name as the
  code does.

## Plan

1. Proofs: for each loop in place of its termination a measure that every step
   decreases, which is a statement about steps; and of the three comparisons that are recursive
   over trees the parts that hold step by step.
2. Two successive runs of `Build` on the same files, the first one's linker
   still running.
3. The type table of `resolve_type` as pointers, refining `Types`.
