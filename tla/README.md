# A verification project for C-Reduce

C-Reduce takes a program that has some property, decided by an
*interestingness test* (an executable that exits with 0), and searches for a
smaller program that still has it.  The search is a Perl driver
(`creduce/creduce.in`) that runs *passes* (`creduce/pass_*.pm`); a pass offers
one variant of a file after the other, the driver tests each in a temporary
directory, several at a time in child processes, and keeps what the test
accepts.  This directory holds TLA+ models of that program, their TLC
configurations, and TLAPS proofs.

Source locations below are `file:line` in the repository.

## 1. Inventory

| Part | Source | State it keeps | Operations | What is hard | What makes it correct |
|---|---|---|---|---|---|
| Parallel search of one pass | `creduce.in:401-759` (`delta_pass`, `killem`, `fork_helper`, `wait_helper`, `report_pass_bug`) | `@variants`, `$num_running`, `$state`, `$stopped`, `$skip`, `$since_success`, `%cache`, the files | build a variant, fork a test, wait, file a verdict, accept, reject, kill, give up | children end in any order, variants are built on a guess, verdicts arrive late, tests time out or are killed | the files on disk are always interesting; speculation never changes what is found; children are counted exactly; a pass ends |
| Schedule | `creduce.in:767-983, 1091-1125` | phase, list of passes left, total size | initial passes, main loop, cleanup passes | the loop ends on a size comparison; passes may enlarge files | it ends; order by priority; removed passes never run |
| Process handling | `creduce.in:299-324, 412-508, 1008-1020` | process groups, alarm, `@procs` | fork, setpgrp, alarm, TERM to a group, signal handler | kill before setpgrp, signal between fork and push, time-out against normal end | no test outlives its variant |
| Extra directories | `creduce.in:282-297` | directories on disk | create, move files | children race for names | at most 25000 of them, nothing is lost |
| Start-up and options | `creduce.in:60-254, 1022-1085` | options | parse, check prerequisites, `sanity_check` | - | the files start out interesting |
| Pass utilities | `creduce_utils.pm` | a replacement counter | `runit`, `run_clang_delta`, `replace_aux` | exit status against signal | codes map one to one |
| Counter passes | `pass_blank`, `pass_includes`, `pass_include_includes`, `pass_comments`, `pass_ints`, `pass_line_markers`, `pass_peep`, `pass_special`, `pass_ternary`, `pass_balanced` | an index or a position | `new`, `advance`, `transform` | off-by-one, double advance, early stop | every instance is tried; the pass ends |
| Chunk passes | `pass_lines`, `pass_ifs` | index, chunk | same | halving, empty chunks, shrinking files | every line is tried alone at the end |
| Program passes | `pass_clang`, `pass_clang_binsrch`, `pass_clex`, `pass_indent`, `pass_unifdef` | counter, chunk, number of instances | run a program, interpret its exit code | stale counts, exit codes | same |
| clex | `clex/driver.c`, `clex.l` | the token list | remove tokens, patterns, rename, exit codes | index past the end, pattern enumeration | one change per call, `STOP` exactly at the end |
| delta, multidelta, topformflat | `delta/` | markers, cache of tests, granularity | test, increase granularity, in-place update | stop file, cache, in-place candidates | one-minimal result, file stays interesting |
| clang_delta driver | `ClangDelta.cpp`, `TransformationManager.cpp`, `Transformation.cpp` | counter range, transformation name | parse options, run, query | ranges, counters out of bounds | change or error, never both |
| clang_delta transformations | 65 classes, `RewriteUtils.cpp` | a Clang AST | rewrite | C++ | - |
| unifdef | `unifdef/unifdef.c` | line state, stack of conditionals | one transition per `#if`-like line | nesting, `#elif` chains | output is well nested |
| Scripts, tests, build files | `scripts/`, `tests/`, `configure.ac`, `cmake/` | - | - | - | - |

How they interact: the schedule calls `delta_pass` with a pass; `delta_pass`
calls `new`, `transform` and `advance` of the pass **in the parent**, the test
in children; a pass edits a file in a temporary directory, alone or by running
`topformflat`, `clex`, `unifdef` or `clang_delta`; the files on disk, the
operating system's process table and `%cache` are the shared state.  `delta`
and `multidelta` are an older reducer that shares only `topformflat` with the
rest.

`PROJECT.json` lists the hazards of this code, each at its line, with the
properties that would catch it going wrong or the reason why none does yet.

## 2. Plan

1. **The search (done)**: `ReductionTask`, `DeltaPass`, `DeltaPassProperties`,
   with `SequentialPass` as the abstract specification.
2. **delta (done)**: `Delta`, with `Minimizer` as the abstract specification.
3. **The programs the passes run (done)**: `PassLoop`, one pass at work with a
   test that may answer anything; plugged into it `Clex`, `Unifdef` and
   `ClangDelta` with the passes that call them; for unifdef also the program
   alone, line by line, on files of any length (`UnifdefRun`).
4. **Theorems (done)** on all safety properties of 1 and 2, on those of clex
   that are not about expansion, on unifdef from its expressions to its state
   machine, and on the passes that run unifdef and clang_delta.
5. Next to prove: that `-D` values that name symbols are resolved
   (`ValuesResolved`), which is an argument about rounds over a table.
6. Next to model: the chunks of `pass_lines`; the schedule around `delta_pass`
   (it ends, and keeps the file interesting); multidelta with `Minimizer` in the
   place of delta; clang_delta's expression detector.

## 3. The modules

| Module | Content |
|---|---|
| `ReductionTask` | What a run is given, as CONSTANTS with their assumptions: files and base names, contents and sizes, the test, the passes as functions, the options. Operators on a directory of files (`CopyFilesHere`, `SortedBySize`). |
| `SequentialPass` | Abstract specification: a pass with one test at a time, no processes. |
| `DeltaPass` | `delta_pass` itself: parent and children as interleaved actions. |
| `DeltaPassProperties` | Type invariant, safety, action properties, liveness and the refinement mapping. |
| `MCDeltaPass` | Toy passes and tests for TLC. |
| `DeltaPassProofs` | Lemmas about the task operators, the inductive invariant and the safety theorems; `DeltaPass` implements `SequentialPass`; what the cache holds. |
| `Minimizer` | Abstract specification of delta: ever smaller inputs that pass, the last one 1-minimal. |
| `Delta` | `delta/delta`: markers, the loop over their complements, the cache of results, in-place mode, DELTA-STOP. |
| `MCDelta`, `DeltaProofs` | The tests TLC tries; the invariant of `Delta`, 1-minimality and the refinement of `Minimizer`. |
| `PassLoop` | One pass on one file, one test at a time, any verdict. The pass is a set of constants, so the same loop drives clex, unifdef and clang_delta. |
| `Clex` | `clex/driver.c` and `pass_clex.pm`: every command on token lists. |
| `PassClex` | `PassLoop` with `Clex`, and what the commands promise. |
| `MCClex`, `ClexProofs` | Small files; lemmas on Clex's operators and the theorems on `PassClex`. |
| `UnifdefMachine` | unifdef's transition table (`trans_table`), the functions in it, its stacks, and the printing of a line. |
| `UnifdefExpressions` | `ifeval` and its operators, numbers, `-D` values, three-valued evaluation. |
| `UnifdefLexer` | `parseline` and `skipcomment` on characters, and the translation phases of C beside them. |
| `Unifdef` | `parseline` on lines, the symbol table and the options, `process` over a whole file. |
| `PassUnifdef` | `pass_unifdef.pm` in `PassLoop`, for any unifdef: what it makes of a file is a constant. |
| `PassUnifdefProofs` | The pass tries every option and moves on; unifdef keeps the meaning of its files. |
| `UnifdefFiles` | What unifdef promises for the file of the pass. |
| `Preprocessor` | What a C preprocessor makes of a file (C11 6.10.1) in an environment, and which environments agree with the options: the meaning unifdef has to keep. |
| `MCUnifdef` | `PassUnifdef` with `Unifdef` on small files; lexer and symbol table on every small input. |
| `UnifdefLines` | The lines a file may have, for any set of conditions, options and environments, and the verdicts that are right for each. |
| `UnifdefRun`, `MCUnifdefRun` | `process` as a state machine, line by line, on a file of any length, with one preprocessor on what is read and one on what is written; conditions, options and environments for TLC. |
| `UnifdefLemmas` | The stacks, the steps, the table's functions one by one; that verdicts are right; whole files. |
| `UnifdefProofs` | The theorems on `UnifdefRun`. |
| `CProgram` | A C program as text with names and no links; what clang binds a name to; counting and editing places. |
| `ClangFunctions`, `ClangVariables`, `ClangStatements`, `ClangInlining` | The instances each transformation numbers and what it makes of one. |
| `CTypes` | Programs with arrays, pointers, records, enumerations and typedefs, and the type clang gives an expression. |
| `ClangArrays`, `ClangRecords`, `ClangPointers` | The transformations on arrays; on structs, unions and their fields, typedefs and enumerations; and on pointers. |
| `ClangTransformations` | The registered transformations and what they have in common: counters, ranges, what is an error. |
| `ClangCalls` | What the passes see of clang_delta: calls, exit codes, results. |
| `ClangDelta` | One call: arguments from left to right, verification, query mode, exit code. |
| `PassClang` | `pass_clang.pm`, `pass_clang_binsrch.pm` and `run_clang_delta` in `PassLoop`, for any clang_delta: the results of its calls are a constant. |
| `PassClangProofs` | The passes try every instance. |
| `MCTypes`, `MCClang` | Which programs compile, and the items the programs of the run are put together from. |
| `RecursionLemmas` | That a recursive function definition over numbers has a solution, and that a loop which ends has a result. |

### DeltaPass against the code

The parent is a control point `pc` and the Perl variables under their own names
(`variants`, `numRunning`, `state`, `stopped`, `skip`, `since` for
`$since_success`, `cache`, `toreduce`, `before` for `$file_before_pass`).
`proc` is what the operating system knows of the children.  `disk` is what is
in the files being reduced.  A pass is abstract: `New`, `Transform` and
`Advance` are arbitrary functions with the result codes of `creduce_utils.pm`
(no pass looks at the file in `new` or `advance`, so these take none).  The
branch for another result code (creduce.in:648-652) is left out: every
`transform` in `pass_*.pm` answers with one of the three.

| Code | Action |
|---|---|
| `delta_pass` entry, `check_for_nonzero_size`, sort (594-610) | `CallPass` |
| foreach head (611-623) | `SkipEmptyFile`, `TakeCached`, `StartFile`, `ReturnFromPass` |
| label AGAIN, key "s" (625-639) | `PollKey` |
| body of the creating loop (640-673) | `TransformStops`, `TransformFails`, `ForkTest` |
| wait and file the verdict (675-698) | `WaitForChild`, `NothingToWaitFor` |
| peeling loop (702-738) | `PeelAccept`, `PeelReject`, `PeelDone` |
| give-up, termination, goto (740-757) | `GiveUp`, `EndFile`, `GotoAgain` |
| the child (468-483, 299-324), its handler of TERM (1008-1018) | `TestEnds`, `TestTimesOut` with `StatusAfterTerm`, `ChildIsKilled` |

`killem` and `report_pass_bug` are operators that the actions apply as part of
the step.  Parent code between two interactions with children is sequential, so
one iteration of an inner loop is one action.  `stopAt` and the field `from` of
a variant are auxiliary: they record the state a variant was built from and are
never read by an action's guard.  `since` is saturated one above the give-up
limit, because the code only compares it with that limit.  The definitions
marked *Faulty* stand before the definitions they vary; they are plausible
mistakes in the code, used to confirm that each property can fail.

Left out of `DeltaPass`: Windows branches, printing, statistics, the removal of
temporary directories, `--save-temps`, `--no-kill` (same result, later), signals
sent to the parent, and a test that edits its own directory.

### Delta against the code

A candidate is a set of chunk numbers, the key of the cache is that set (the
signature that `mark` builds is the list of its maximal intervals), and the test
is the set `oracle` of candidates it accepts, chosen once: like the code, the
model takes the test for deterministic.  `@markers` is in the order of the file
at all times and is kept as a set of intervals; `todo` is what the `foreach`
still has to visit.  `kept` is the content of `$last_successful_tmpinput`, and
`output` the file the user gets: the start-file with `-in_place`, otherwise the
file of `-cp_minimal`.

| Code | Action |
|---|---|
| `check_initial_input` (347-354) | `NoChunks`, `CheckInitialInput` |
| `test` (103-163) | `Stop`, `TryCached`, `RunTest` in `TryComplement`, `TestIsSignalled` |
| `complement_loop` (487-512) | `TryComplement`, `TryCached`, `RedoComplementLoop` |
| `increase_granularity` (364-385), `done` (432-444) | `IncreaseGranularity`, `Done` |

Left out: options, logging, the temporary directory's names, and how the input
is cut into chunks.

### The passes and their programs against the code

`PassLoop` is `SequentialPass` on one file, with the test left open: a variant
is accepted or rejected freely.  `Answers` is what `transform` may return,
`Accept`, `Reject` and `End` are the three things `delta_pass` does with it
(creduce.in:702-757).  What a program makes of a file is a constant of
`PassUnifdef` and `PassClang`: the MC modules put the models of unifdef and
clang_delta there, the proofs hold for every program.  `resumed` and `refused` are auxiliary: the state of the
last acceptance and the variants rejected since; "nothing is overlooked" is
said with them.

**clex.** A token is its kind and its text as a sequence of numbers, so that the
made-up names of `rename-toks` can be counted through as the code does
(`next_name`, `find_unused_name`, driver.c:81-114).  What `clex` writes is taken
to be read as the same tokens again: `rm-toks` can join two neighbours into one,
which the model does not have.  The lexer drops comments and line splices, so
they vanish with the first rewrite.  Where the code reads past its token list
(driver.c:411-415, 429-442) the model answers `ERROR`.  `define` puts a macro's
body for every use of its name (406-427), so a macro that is defined in terms of
itself makes the file longer at each acceptance, without an end; this is what
`EndsUnlessRecursive` excepts.

**pass_unifdef.** One call of `transform` has one `$tmpfile` (pass_unifdef.pm:74)
and may run unifdef onto it many times.  unifdef creates it the first time; an
output file that is there it replaces only when it came to its end and altered
something (unifdef.c:406-428).  So after `-k`, or after an option, that changed
nothing, a run that fails leaves `$tmpfile` as it is, and the option is passed
over without a test; as the first run of a call the same option would offer the
truncated output.  `RemoveIfs` has a parameter for that (`there`), and
`EveryOptionTried` says which options were passed over so.

**unifdef.** Two views of one program: on characters (`UnifdefLexer`, for what
is a directive), and on lines with expressions (`Unifdef`, for verdicts, options
and the machine).  An expression is the sequence of its operands and operators
in the order `eval_table` and `eval_unary` come to their values, so that its
value is found in one pass.  `process` is there as a function of a file
(`Process`) and as a state machine that reads one line after the other
(`UnifdefRun`).  Beside it stands the C preprocessor (`Preprocessor`): a
condition has a value in an environment, and a file with a condition that must
be evaluated and divides by zero, or shifts by less than no or by 64 places or
more, is one the preprocessor rejects.  What is no
expression of C as unifdef knows it, and the words behind a condition, have the
truth `odd` of the environment: nothing may depend on it.  The line swallowed
behind a directive that goes on over its line end is kept with it, as `tline`
does.

**clang_delta.** A program is a sequence of items, statements and expressions as
they are written; `Binding` works out anew for every program what clang makes of
a name.  For each transformation `Instances` is the order its visitor numbers
them in, `Rewrite` the edit of one.  45 transformations of 65 are there, on C
without classes and templates.

## 4. Runs

`delta_pass`: the instances use one or two files of at most two or three lines
over a two-letter alphabet, a test that looks for a "b" anywhere in the
directory (`SomeB`), and passes that behave like those of the repository: `nth`
removes one line, `half` removes half of the file, `lines` reformats the file
before it removes lines, `faulty` answers with every kind of pass bug.  Two or
three processes are enough for every order of two neighbours at the front of the
list and one behind them; three lines are enough for an acceptance with
speculation on both of the later states, and for a STOP seen while an earlier
variant is running.  The give-up limit 2 is below the number of variants, so it
is reached.  `MaxCrashDirs` is 1 and up to that many report directories
exist at the start, so both sides of the bound are met; in `files` pass bugs are
not reported (`--shaddap`).

| Run | Question | Bounds |
|---|---|---|
| `speculation` | Is the bookkeeping exact, the speculation fresh and the file interesting in every interleaving of three children, with time-outs, the key and the give-up limit? | one file of 3 lines, 3 processes |
| `refinement` | Is the parallel search the sequential one, with pass bugs, the cache and fatal bugs; is what the cache remembers what the pass would give; does the parent kill fewer than `$NPROCS` tests at a time (with `--n 1`, none: README.md:32-34)? | one file of 3 lines, 2 processes |
| `files` | With two files, is each variant tested with the other file as it is, and does a pass always come back? | two files of 2 lines, 3 processes |
| `signal`, `cache_files`, `same_name` | Three places where `delta_pass` and its documentation disagree; see *Findings*. | |
| `delta` | Does delta end, with a 1-minimal input, in place, with stops and signals? | every test on 3 chunks, many on 4 |
| `delta_stop` | Is DELTA-STOP a safe way to stop in place? | the same |
| `clex` | What do renaming, removal and macro replacement promise, where does clex read past its tokens, and does the pass end, but for macros defined in terms of themselves? | every file of 4 tokens (strings: 2), with up to two definitions; an alphabet of 2 letters, windows of 1 to 3 tokens; files with a macro defined in terms of itself are followed up to 24 tokens (`MCShortFile`), all others to their end |
| `unifdef` | Does the program stay what it was in every environment that agrees with the options; does the pass try every option, also over an output file that is there; are directives found; do `-D` values resolve? | one group with a nested one and up to two `#elif`, 2 symbols; texts of 4 pieces; tables of 3 symbols |
| `unifdef_lines` | Does unifdef keep the meaning of a file of any length, and fail only for a reason? | conditions that are known, unknown, known for one side of an `&&`, and a division that may be by zero; 2 command lines, 2 environments; nesting 3, 1 line of text that is read, 1 blank line in a row |
| `clang` | Do counts, ranges and exit codes hold together, do variants compile, keep their calls, bindings and bounds, and is every instance tried? | every program of up to 3 items from a pool per kind of transformation; for records, a group of definitions and up to 2 items that use them; 7 counters, of which no program has all |

Four chunks are enough for two rounds of halving and for a test whose verdicts
depend on the order in which chunks are removed: a chunk that could not be
removed first and can be removed later.  Two letters and four tokens make
`next_name` pass from one to two letters and meet names in use.  `unifdef_lines`
puts no bound on the length of a file, only on nesting and on the text that is
compared; nesting 3 fills the stack, so `MAXDEPTH` is met, and every pair of
states can be on it; what was written and what was read part at one line of text.  Three items are enough for a declaration, a definition
and a use in any order, one of them from an included file.  The pools of
`clang` have, for each kind of transformation, the items it stumbles over:
redeclarations, unnamed parameters, shadowing, branches without braces, calls
in calls, a record in a record, pointers to pointers, a union behind a typedef.

`CHECK_DEADLOCK FALSE` appears where the program may exit (every file empty, a
fatal pass bug, a child that was not forked by the parent; the end of delta;
the end of a pass or of a file).

**Fairness.** `FairSpec` of `DeltaPass`: weak fairness of the parent as a whole,
which is one process that is never blocked by anything but `wait`, and of every
child, whose test ends or is ended by the alarm (300 seconds).  Nothing is
assumed of the caller, of the key, or of which child ends first.  `FairSpec` of
`Delta` is weak fairness of delta's own steps: one process, and tests that end.
`FairSpec` of `PassLoop` is weak fairness of the loop's step, for the same
reason: `delta_pass` goes on by itself and every test ends.  `MCClang` states the
same fairness without ENABLED, which would have TLC compute every variant once
more for each state: while the pass is trying, steps are taken
(`StepsAreTaken`), and the only steps that change nothing are those of a pass
that refuses a variant and does not advance (`StandsStill`).

### Findings

* A child killed by a signal (out of memory, say) counts as interesting:
  `$? >> 8` is 0 (creduce.in:679).
* With several files a cache hit writes a combination that was never tested
  (creduce.in:613-617).
* Files with one base name overwrite each other in the test directory
  (creduce.in:328).
* delta stopped by DELTA-STOP in place leaves the last candidate in the file,
  which may fail; the last one that passed is in `<file>.ok` (delta:105).

### What else the models show

These are modelled as the code has them; the properties say where they except
them, and no run is spent on each.

*Driver.* `$since_success` is reset by every acceptance, so the give-up limit
does not catch what its comment names, a pass that reports success for ever
(creduce.in:740); a pass that goes round in a circle of interesting variants of
one size never returns.  `--die-on-pass-bug` exits with tests still running
(creduce.in:580), against the stated invariant at line 590, and does not exit at
all when ten report directories exist (line 547).  `--max-improvement n` refuses
an improvement of exactly n (line 707).  `pass_clang_binsrch` counts its
instances once, so its chunks are stale after an acceptance; with fewer than ten
it only tries all at once; exit code 255 moves the message over the file and
returns OK.  `pass_unifdef` passes over `-D` of the first symbol when `-k` had
something to remove and the test refused it; and over every option with which
unifdef fails, if another run came before it in the call: of `#ifdef A` and a
line of text without `#endif`, neither `-D A` nor `-U A` is tested.

*clex.* A nameless `#define` takes the line end for the name; a macro defined by
itself makes `define` grow the file as long as the test accepts; a use of a name
before its definition is replaced, too; a new name may
be a C keyword; `x-string` also replaces quotes within the string; a name is not
shortened when the shorter unused name sorts behind it; `remove_line` is never
called.

*unifdef.* A directive with a comment over several lines or a spliced end
swallows the next line, and a directive there is missed, against the comment at
unifdef.c:527-535: with an `#if` and an `#endif` swallowed, the output is wrong
although the exit code says that all went well.  After `/*`, a line end and `*/`
before an `#if`, the directive that follows is missed.  `-s` dies of a division
by zero on `#if 4 / X`.

*clang_delta, functions.* `TheParamPos` counts only the parameters that count, so
another one may be removed; `rename-fun` asserts on a use of a function first
declared in an included file and declared again in the main one; names that are
made up (`fn1`, `p1`, `a`) can capture what the transformation does not look at;
`rename-var` counts a global declared twice as two; a function declared twice
is merged with itself by `replace-undefined-function` and loses both
declarations; `move-function-body` and `unify-function-decl` number instances
in the order of addresses; a call without arguments makes `simplify-callexpr`
print nothing; `remove-unused-function` checks the wrong redeclaration for a
location in the main file.

*Variables.* Two locals of one name become one global in `local-to-global`, whose
initialiser leaves its scope; `move-global-var` counts too few instances with
several declarations of printf; combining two groups drops the specifiers of
the second; removing all variables of a group one by one, in one call, loses
the semicolon.

*Statements and calls.* `NeedParen` stays set within the blocks of a branch
without braces; a visitor that returns false skips the rest of its statement; a
variable of type void is made for a void operand of a comma; what is taken out
of a group of declarations may move in front of its own variable; a loop's
condition is taken out once (the source says so); `replace-callexpr` does not
reset the counter of its check for bad effects; `simple-inliner` takes
parameter names from the declaration the call refers to and compares names only
at one position, so that `f(a, b)` called as `f(b, a)` becomes
`int a = b; int b = a;`; the map of `copy-propagation` survives branches and
functions and takes `x += y` for a copy.

*Arrays.* `reduce-array-size` asserts on an array of pointers subscripted twice,
also in a query, and takes no notice of rows used as pointers; `reduce-array-dim`
multiplies by the last size but one, so that index and size disagree for sizes
that differ; `replace-array-access-with-index` drops the parentheses around an
index.

*Typedefs, pointers, records.* What the transformations do to the text is not
always what they mean (`Awkward` in `MCClang` has the list): a typedef that
several declarators share is replaced once, so the stars of its type reach only the
first; the only constant of an enumeration goes and leaves `{}`;
`simplify-struct` replaces a tag and keeps the word `struct`, also before the
tag of a union, and cuts an access off at the first `->`, which may belong to
another record; `remove-unused-field` takes the text up to the next comma with
the only element of a list; `simplify-struct-union-decl` and
`union-to-struct` do not count uses through a typedef; `aggregate-to-scalar`
declares `a_0` or `s_1` whatever else has that name, and nothing at all for an
aggregate of an included file; `reduce-pointer-pairs` asserts, also in a query,
when a pointer of a pair is assigned the address of an array element.
`reduce-pointer-level` has an assertion for the initialiser of
`int *p = a + 1;`, which is not a pointer it knows, and one for
`*(c + 1) = p + 1`; a string becomes the letter it begins with; and since the operand
of `*` is wrapped in a cast, the member remembered as visited is the null
pointer, so that only the first `*s.f` loses its star (ReducePointerLevel.cpp:294-297).

## 5. Proofs

The theorems hold for every finite set of files, every pass, test, option and
number of processes that meets the named assumptions of `ReductionTask` and
`DeltaPass`; for every length of delta's input, every test and every option; for
every token list the lexer can make, every command and alphabet; for files with
conditionals of any length, every set of conditions and every `MAXDEPTH`; and the passes that run unifdef
and clang_delta, whatever these programs make of a file.

| Theorem | States | Hypotheses |
|---|---|---|
| `TypeCorrect`, `ChildrenAreAccounted` | `TypeOK`, `ChildrenAccounted` | - |
| `ParallelismContained` | `NoEscape` | pass bugs are not fatal |
| `SpeculationStaysIntact`, `NoSpeculativeStop` | `SpeculationIntact`, `StopIsGenuine` | - |
| `FewAreKilled` | `FewerThanProcsAreKilled` | - |
| `NoFileIsHidden` | `EveryFileIsTested` | `DistinctNames` |
| `VerdictsAreHonest` | `VerdictsHonest` | no signals from outside |
| `DiskStaysInteresting`, `CacheStaysInteresting` | `DiskInteresting`, `CacheInteresting` | `Reliable` |
| `ParallelIsSequential` | `RefinesSequential` | no signals from outside |
| `CacheIsComplete` | `CacheComplete` | `Undisturbed` |
| `DeltaTypeCorrect`, `DeltaKeepsWhatItSearches`, `DeltaCacheOnlyRejects`, `DeltaIsOneMinimal`, `DeltaRefinesMinimizer` | all of `Delta` but `Terminates` | - |
| `RenamingIsApart`, `RemovalIsExhaustive`, `CrashesAreAtTheEnd` | `RenamesApart`, `WindowsOffered`, `CrashesOnlyAtTheEnd` | - |
| `VerdictIsRight` | a verdict of `ifeval` is the one of C, or none | no `-s`; the environment agrees with the options |
| `MeaningIsKept`, `FailuresAreJustified` | `MeaningKept`, `FailsForAReason` | no `-s`, no `-c`; the same |
| `UnifdefKeepsFiles` | `UnifdefPreserves` | no `-s`, no `-c`; a line behind a directive that goes on over its line end is text |
| `EveryOptionIsTried` | `EveryOptionTried` | - |
| `UnifdefMovesOn` | `NumberMovesOn` | - |
| `EveryInstanceIsTried` | `EveryInstanceTried` | - |

`DistinctNames`: no two files have one base name.  `Reliable`: that, no child is
killed from outside, and the cache is off or there is one file.  These are
exactly the findings that break `DiskInteresting`; each is needed, as the
violation runs show.  `Undisturbed`: one file, and no test times out, dies of a
signal or is skipped with the key - each of them makes a pass end where another
run of it would not.

### delta_pass

The safety argument needs more than the properties themselves.  `TypeOK` bounds
`$num_running` by `$NPROCS`, which follows from the accounting and not from the
guard alone, so the inductive invariant is

    Inv == Types /\ ChildrenInv /\ SpeculationInv

* `ChildrenInv`: `$num_running` is the cardinality of the set of live children,
  that set is finite and is the set of pids in the list, no pid is listed twice;
  the list is empty wherever the parent is alone.
* `SpeculationInv`: the list is a chain (`IsChain`), each variant made from the
  present file and each from the state after its predecessor; the end of the
  chain is where the pass state is, or where the pass stopped.
* `HonestInv` (without outside signals): an exit status is the verdict on the
  directory of that child's variant, for running, ended and filed children.
* `DiskInv` (`Reliable`): the files on disk and the remembered results are
  interesting.  The step that needs all of the above is `PeelAccept`
  (`AcceptedIsTested`): the directory that was tested is, after the copy, the
  directory of the files on disk.

`FewAreKilled` needs `BelowLimit`: after a wait, and until the next fork, one
child less than `$NPROCS` is running; the parent kills only then.

For the refinement `Judged` is added (a variant without a child has a verdict):
each step is a step of `SequentialPass` or a stutter, with the
sequential pass state read off the front of the list.

For the cache, `CacheComplete` compares with what the pass makes of a text when
its variants are tried one after the other (`RunToEnd`, a recursive function that
may have no value where the pass does not end).  The invariant `CacheRunInv`
says that the search on this text is on its way (`OnTheWay`): the sequential
search goes through the front of the list, whatever is running behind it.  At
the end of the pass the way is at its end, and that is what is stored.

### delta

`DeltaProofs` proves of `Delta` that it is 1-minimal when done.  The property says
nothing of the states on the way, so the invariant adds (`SearchInv`): the
markers are intervals that do not overlap; what is kept is what they cover
without the excluded ones, and passes; and as long as nothing was excluded in
this round, no visited marker can be left out.  At the end of such a round, with
markers of one chunk (`SmallestMarker`), leaving out a chunk is leaving out a
marker (`CoverMinus`).  `CacheInv` says that whatever is remembered to pass
includes what is kept, and a candidate never does: the cache only rejects.

### clex

    ClexInv == LexInv /\ LoopInv /\ EndInv

The tokens are such as the lexer makes (`LexInv`); every index from the last
acceptance on has had its variant refused (`LoopInv`); when the pass is over,
the command has said why for the present index (`EndInv`).  What an index stands
for is then a matter of the operators, and of the lemmas: the n-th of a set of
positions and its rank; the binary digits of a pattern, which give every choice
among n neighbours once; and for `rename-toks` that the name counted up to is
none of the file.  Names are counted from "a"; `next_name` is injective, so that
among n + 1 of them one is not used by n tokens, the search ends, and a
recursive function for it exists (`LoopExists`).

Assumptions: `CmdsAssumption` is what `main` asserts of the numbers (driver.c;
eight bits hold every pattern of up to eight tokens, which is what the schedule
uses); `StartFilesAssumption` says that the file is one the lexer makes: a text
has one kind, "#" is no identifier and "define" is one.

### unifdef

There are three stacks: the `#if` states, the groups open in the file, and the
groups open in what was written.  A group that was dropped, because its
condition is known, is not among the last, so they differ in height.
`Corresponds` says level by level how far each group is: which branch is
being read, which branches were printed, and that a branch the machine prints
is read by the compiler in the output exactly if it is in the input.
`UnifdefInv` is that, with the texts so far being equal, or a reason to have
failed.

The proof goes bottom-up: pushing and popping a level keep the correspondence
(`PushCorresponds`, `PopCorresponds`); each family of functions of the table
opens, turns or closes a group on both sides; and each entry of the table is
one of them that fits its state and verdict, or an error that is justified
(`LineKeeps`: every line, every right verdict, every state).  A line of text is
printed only where every level prints, and read there on both sides or on none.

Verdicts are right by `VerdictIsRight`, node by node along the expression
(`NodesRight`): a node is unknown, an error, or has the value C gives it, also
where `||` and `&&` are decided by one side whose other side is unknown, and
where a value of `-D` is no number.  Two cases need care.  A condition that the
preprocessor cannot evaluate, for a division by zero, has no truth that counts:
the file is rejected where it is evaluated, and no condition is evaluated in
what is written that is not evaluated in the file too (`SameReading`,
`BranchReading`).  And
unifdef itself may die of a division whose divisor it does not know, which
`Divide` lets happen and neither property forbids.

The state machine `UnifdefRun` forgets what it wrote for the last line; the
function `Process` of a whole file, which `UnifdefPreserves` is about, does not.
`ApplyBehind` says that it makes no difference: no step looks at what was written
before.  So `LineKeeps` holds for the line of a file as well
(`ProcessLineKeeps`), and `FileKept` follows by counting lines; `FailsForAReason` is
proved of the state machine only.  A file read or written to the end has a
recursive function of its lines (`CompilationIsSteps`, `ProcessIsSteps`).

Assumptions: the environment agrees with the `-D` and `-U` options; neither `-s`
nor `-c`; the line behind a directive that goes on over its line end is no
directive (unifdef misses it, see above); lines continued within a keyword, for
which `parseline` itself stops, are left to `UnifdefLexer`.

### pass_unifdef and pass_clang

Both are proved for any program behind them: `KillConstants` and `RemoveIfs` are
any sets of files, `ClangDelta` gives any results for any call.  The only
assumptions are that there is a number of symbols, and the least chunk and the
bound `MaxInstances` are numbers.

`PassInv` of `PassUnifdefProofs`: the options below the number of the pass have
been tried on the file as it is (`TriedBelow`), and once the pass has stopped
the others left the file as it was (`NoneLeft`).  The loop AGAIN moves the number
only over options that change nothing (`LoopPasses`), where `CopyThere` holds of
each but the first, and `advance` moves it behind the one that made the variant,
so that the first claim survives a refusal; an
acceptance empties it, because `resumed` is then the number.  The single option
it does not survive for, -D of the first symbol after -k, is the exception in
`EveryOptionTried`.  `UnifdefMovesOn` says that between two acceptances the number
grows with every refusal and is at most one more than there are options.

`PassInv` of `PassClangProofs`: `SinglesInv` is the same for the counters of
`pass_clang`, where the last call was refused by clang_delta when the pass stops.
`RangesInv`: the instances below the index have been tried in ranges of a chunk
at most, and when the chunk is halved, all of them have (`Covered`), so that
nothing is lost when the index goes back to 1.  It needs that clang_delta counts
what it accepts (`RangesWork`), which is a hypothesis within the property;
`QueryCountsInstances` checks it of every transformation in the run.

### Only model-checked

* Liveness: `PassReturns`, `Terminates`, `PassEnds`, `EndsUnlessRecursive`.
* `EveryStepProgresses` (the half that is about the number is `UnifdefMovesOn`; that an
  accepted file has fewer lines or conditions is not proved).
* `ValuesResolved`: the loop over the table ends because values move along the
  order of the `-D` options, an argument about rounds that is not made.
* `DirectivesFound` and the properties of `clang` but `EveryInstanceTried`: their
  modules reach recursive operators (characters, programs), which the proof
  system cannot work with.
* `DefineKeepsMeaning`: expansion is an induction over the text.

## 6. Not modelled

* **The schedule, process groups, extra directories, options**: see the notes
  in `PROJECT.json`.  `DeltaPass` begins with any files, so what it shows holds
  wherever in the schedule a pass is called.
* **Counter and chunk passes**: regular expressions on text.  `DeltaPass` takes
  `New`, `Transform` and `Advance` of a pass as arbitrary functions, so its
  theorems hold for them.
* **multidelta, topformflat**: a loop around delta, and a filter on text.
* **clang_delta on C++**: about half of its code handles classes, templates and
  namespaces (`RemoveNamespace`, the template transformations, `RenameClass`,
  the C++ side of `RewriteUtils` and of `Transformation`), which `CProgram` does
  not have; of the transformations on C, the expression detector is not there.
* In programs for `clang`: no subscript within the index of an array of several
  dimensions; an array declared again has the same sizes except a first `[]`;
  an index needs no parentheses; arrays of two dimensions hold scalars; no
  recursion for `simple-inliner` where a prototype precedes; no macros,
  qualifiers or designated initialisers; records are declared once, at the top,
  and not nested; aggregates have braces in initialisers and scalars none; casts name
  `int`, `char` or `void`, and what is accessed is not cast; subscripts are
  numbers or no constants and hold no member access; no typedef of a pointer as
  return type, of a union with stars, or with `remove-pointer`; a typedef's
  name is shorter than its type; pointers that are compared have one type, and
  no variable is paired with itself.
* **unifdef**: in-place output, `-x` modes, line numbers, `-t`.
* Windows branches, printing, statistics, `--save-temps`.

The definitions listed in `PROJECT.json` name the lines they stand for; the
transformations on C++ are the bulk of the code that is not modelled.
