# abi-cafe in TLA+

abi-cafe finds out whether two compilers agree on an ABI.  For every test (a
KDL description of some functions), pair of toolchains and set of options it
generates a caller and a callee, compiles each into a static library, links
both with a small main, runs the binary, and compares what the two sides
reported about every value that crossed the boundary.  Hundreds of such tests
run as tasks of one multi-threaded runtime and share most of their
intermediate products; the result is a report that CI compares with a file of
expectations.

This directory models the parts of it where order, failure and sharing
matter, checks them with TLC, and proves with TLAPS, for every number of tests,
permits, spans, rules, values and failures, what the harness, the logger, the
grading of tests and the reading of a test binary promise.  Paths below are
relative to the repository.

## Inventory

| Component | State it keeps | Operations | What has to be right |
|---|---|---|---|
| `main` (src/main.rs) | join handles, reports | read tests, spawn a task per key, join in order, grade, minimize failures, print, exit code | everything spawned is joined and graded once, failures are minimized, main ends |
| `TestHarness` (src/harness/mod.rs, generate.rs, build.rs) | four memo maps of `OnceCell`s, the concurrency limiter, files under target/ | `do_test`: generate both sides, build both libraries, link, run, check | one initializer per cell, nothing lost on an error, no deadlock, inputs settled before they are used, results independent of the schedule |
| `run_bin_test` (src/harness/run.rs) | two `TestBuffer`s | read the JSON lines of the finished process, blame a bad exit | lines end up at the right side, function and value; incomplete runs are no runs |
| `check_test` (src/harness/check.rs) | - | compare the buffers value by value | exact verdicts, the first mismatch is the one to minimize |
| rules and report (src/harness/report.rs) | rule files, `TestReport`s | match rules to keys, grade, suggest rules | expectations say what they mean over several runs |
| test, options, selectors (src/harness/test.rs) | - | which functions, arguments and values a key covers | caller, callee and checker agree on it |
| `ValueTree` (src/harness/vals.rs) | the values of a test, numbered; a generator of their bytes | build, iterate per function and argument | the same number for the same value everywhere, blocks of a pun with equally many values |
| code generators (src/toolchains/) | per test: what was declared, names of types, the place in the list of values | `generate_caller`, `generate_callee`, `compile_*`, `link_bin` | both languages take the same values in the same order, when they initialize and when they report |
| kdl-script types (kdl-script/src/types.rs) | interned types, definition graph | typeck, pun resolution, `definition_graph`, `definitions` | definitions come in an order that C can compile, infinite types are refused |
| kdl-script parser, eval | - | text to AST | sequential, pure |
| `MapLogger` (src/log.rs), with the indenting writer (src/fivemat.rs) | the spans that are open, by tracing's ids; the events of every span, by ids of its own; the last string | `on_new_span`, `on_record`, `on_event`, `on_close` | each test's log is printed whole, once, with its own events in order; no lookup of a stale id |
| reading tests and rules, procgen, cli, files | - | I/O at start-up | - |

How they interact: `main` calls the harness, which calls the toolchains, which
start compilers as child processes.  Tasks share the memo maps, the limiter
and the file system and otherwise do not talk to each other.  A test binary
talks to the harness through the lines on its stdout and its exit status.  A
report talks to a later run of abi-cafe through the rules the user copies from
it into abi-cafe-rules.toml.

What is hard here: tasks that race for one cell; a future that `try_join!`
drops in the middle; a permit acquired inside a cell's initializer; a task that
panics; archives that are appended to when a failed build is tried again; a
process that dies with half of its output; tests that end in an unexpected
phase; rules that overlap; four visits of a type, in two languages, that must
take the same values off one list; log handlers that let go of a lock in the
middle.  PROJECT.json lists these under "hazards", each at
its line.

## Modules

* `Rules` - run modes, check modes, `TestRunResults`, and how `report_test`
  grades them.  Used by `Harness` and `Triage`.
* `Harness` - `main`, `do_test` and everything the tasks share.
* `Memo` - what the memo maps promise; `Harness` implements it.
* `Suite` - what a run of abi-cafe promises: every test is done once, in one
  step, as if it were alone, and the exit code is the verdict on all of them;
  `Harness` implements it.
* `HarnessProofs` - theorems about `Harness`: who may hold what.
* `HarnessResultsProofs` - more of them: what tasks record, what main makes
  of it, and that `Harness` implements `Suite`.
* `Triage` - consecutive runs of the suite and the rules between them.
* `RunCheck` - one test binary: its process, `run_bin_test`, `check_test`.
* `Types` - from the type declarations of a test to the definitions in a
  generated source: kdl-script's types.rs and the declare.rs of C and Rust.
* `Values` - from the arguments of a test to the values that are generated,
  initialized, reported, checked and minimized: vals.rs, and init.rs and write.rs
  of C and Rust.
* `MapLogger` - the log layer that all tasks share.
* `TriageProofs` - theorems about `Triage`.
* `RunCheckProofs` - theorems about `RunCheck`.
* `MapLoggerProofs` - theorems about `MapLogger`.
* `TypesProofs` - theorems about `Types`.
* `ValuesProofs` - theorems about `Values`.
* `DataLemmas` - what the proofs need about numbers, sequences and reachability.
* `MCHarness`, `MCTriage`, `MCRunCheck`, `MCTypes`, `MCValues`, `MCMapLogger` -
  instances for TLC.

### Harness

A task is `<<i, 0>>` (it runs `Plan[i]`) or `<<i, f>>` (it minimizes the
failure of subtest f of `Plan[i]`).  One step is what a task does between two
points where it can wait: `get_or_try_init` on a memo cell, `acquire` on the
limiter, or the end of a phase.

| Model | Code |
|---|---|
| `pc[t]` | where `do_test` is: `ready`, a phase, `done`, or `panicked` |
| `at[t][s]` | which cell the future of side s needs next: the values, the definition graph, the source, the library |
| `full`, `taken`, `holds` | the `OnceCell`s: a value is set; the permit of the cell is out; who holds it |
| `permits`, `tokens` | the semaphore `concurrency_limiter` and the holders of a `_token` |
| `archive[u]` | how often the object of a library was appended to its archive |
| `results[t]`, `bad[t]` | `TestRunResults`, and the mismatches in its `check` |
| `main`, `unjoined`, `report`, `minimized` | the progress of `main`, its handles, the conclusions, the minimized sources |

Both sides of a source are generated concurrently inside one task
(`try_join!`), so `Reuse`, `Claim`, `Produce` and `GenerateFails` take a side;
when one side fails the other is dropped and lets go of its cell (`LetGo`).
The libraries are built one after the other, with a limiter permit taken
inside the cell.  `CellOf` says what is shared: `base_id(key, Some(side))`
leaves out the other toolchain, so every pairing with the same side has one
source and one library.

What compilers, binaries and generators answer is a parameter (`GenFate`,
`BuildFate`, `LinkFate`, `RunFate`, `CheckFate`), and so are the steps that may
panic (`Panics`).

### Triage

`RunSuite` runs and grades all tests in one step, for how they interleave is
the subject of `Harness`.  `Adopt` adds the suggested rules to the user's
file, `Upgrade` changes what the tools make of a test.  `last` remembers the
run before, for the properties compare two runs.

### RunCheck

`Program` is the order of the lines that the generated caller and callee
print.  The process executes it (`Report`, `SayFuncOrDone`), may see wrong
bytes or a wrong variant on either side, may crash or exit early with a good
status, and lose the tail of its output either way (`LoseBuffered`: stdout is
line buffered in the Rust main and block buffered in the C main when it is a
pipe), and may have foreign lines mixed in.  `cut` is history: a line of the
program, not a foreign one, was lost.
`ReadLine` and `Conclude` are `run_bin_test` and `check_test`.

### Types

One behaviour takes one program through the phases of the code: `Typeck`
(interning, with the indices the code would give), `ComputeFact` (the worklist
of `compute_ty_facts`, one pop per step), `DefinitionGraph`, then
`NextComponent` and `EmitDefinition` for every strongly connected component of
types.  petgraph promises components in reverse topological order and the
model takes any such order.  A lookup of a name in `tynames` that is not there
is an index into a `HashMap`, so it panics: `result = "panic"`, which is the
panic in the generate phase of `Harness`.  `incomplete` is history: what a C
compiler would complain about.

### Values

One behaviour takes one test through `ValueTree::new`, both generators, the
binary, the check and, after a failure, the sources for one value.

| Model | Code |
|---|---|
| `Active` | the functions that `Variadics::matches` leaves for the test; values are built for all functions, bodies and verdicts are those of the active ones |
| `Ty` | the types by index; `cases` are the variants of a union, tagged union, enum or bool, the blocks of a pun, and otherwise the one list of parts |
| `BuildArg`, `BuildValues` | `ValueTree::new` and `build_values`, argument by argument, with the check of puns |
| `draw` | `generate_idx`: which variant value number n selects.  The generators (graffiti, random) are left open: a constant set of sequences |
| `Visit` | what `init_value` and `write_fields` have in common, as a fold over the type that takes values off a list; `CInitValue`, `RustInitValue`, `CWriteFields` and `RustWriteFields` say what each language and each of the two takes and refuses |
| `Depth` | the nested calls that fit on the stack, for `build_values` and for a visit; more is the result "overflow" |
| `GenerateBody` | one function of `generate_caller` or `generate_callee`: initialize, report, call, report |
| `Run` | the binary, whose calls pass on every leaf but at most one |
| `Check`, `FirstMismatch` | `check_test` and `check_val` |
| `Minimize` | `generate_minimized_failures`: a selector of one value, and one of the writers |

Bytes are the number of the value they are made from and their width.  A tag is
reported as the variant it selects, or as u32::MAX when the variant is another.
Where the blocks of a pun differ in the kinds of their leaves, the two sides
may well report different things, and the check (by the types of the last
block) calls it a mismatch: docs ask for equal numbers of values only.  `Alike`
says of which functions the leaves have one kind on all sides; the
properties about verdicts speak of these.

`Values` is the source of what `RunCheck` takes as constants: the order of
reports, the number of values of an argument, and what is inside a tag.  The
interleaving of reports in one stdout and everything that can go wrong with the
process are left to `RunCheck`.

### MapLogger

A step is what a handler does while it holds the lock of `MapLoggerInner`.
`on_close` takes the lock three times and prints without it, so it is four
steps: `PrintSpanIfTest`, `StringQuery`, `Eprintln`, `OnClose`.

| Model | Code |
|---|---|
| `phase[s]`, `id[s]` | the tracing registry (external): which spans are open, and under which id; an id is used again after `on_close` |
| `live_spans`, `sub_spans`, `test_spans`, `root_span` | the maps of the same names |
| `last_query`, `cur_string` | the cache of the last string |
| `found[s]`, `string[s]` | locals of `on_close` that outlive the lock |
| `said[s]`, `noted` | history: what the program told the logger |

A string is a sequence of lines, a line the title of a span or an event, with
its indentation.

## Runs

| Run | Instance | Shows |
|---|---|---|
| HarnessFlaky | 5 keys on 2 toolchains (one skipped by rule, one without active functions, two that stop early by rule), 1 subtest, 1 permit; every tool may give any answer at any attempt, every phase that can panic may | types, one initializer per cell, permits conserved, inputs settled, results well formed, copies in archives accounted for, cached libraries stable, results final |
| HarnessFixed | 3 keys, 2 subtests; tools that repeat their answer, among them an unsupported side, a side that does not compile and a minimization that cannot be generated | results as if alone, the end is complete |
| HarnessLive | 2 keys sharing a side, everything may fail or panic, fair | termination of main and of every task, refinement of `Memo` and of `Suite` |
| TriageCafe | 5 keys, 4 built-in rules, two or three fates for most | suggestions settle last-phase failures, rules move only what they match, changes are noticed, unsupported is never a failure |
| TriageGreen | 2 keys, no rules, failure in any phase | a suggested rule need not make CI green (finding) |
| RunCheck | functions 0 and 2 of a program: a tagged union and a result, a long double and a plain value; 1 foreign line | what a graded run, a verdict, a blame mean |
| Types | 2764 programs: two types that refer to each other in every way with up to two fields, references to references, arrays; an intrusive list, puns, undefined and unsupported types; C and Rust | infinite types are refused and no others, facts are exact, the worklist is bounded, a subset of functions gets a closed program, lookups fail only in tangled cycles |
| TypesNames | the same programs, Rust | a reference is declared before the type it names (finding) |
| TypesUsed | the same programs, C | a type is used by value before it is defined (finding) |
| Values | 11 programs of up to three functions, variadic ones before, between and after the others, over 26 types of every kind: types in types, a list, puns that fit and puns that do not, a type one language lacks, a type without an end; every mix of languages, 9 ways to draw, any leaf lost | every visit takes what was built, indices are faithful, no false alarm, a lost leaf is what is blamed and what the minimized sources show |
| ValuesPuns | the same | a refused pun is reported with two equal counts (finding) |
| MapLogger | three tests, one of them with a span inside it, one that records a field and one that logs nothing, on three tracing ids (so that ids are used again), events of no span | lookups succeed, entries hold what was said, logs look as if tests had run one by one |

Bounds.  One permit of the limiter is the hardest case (the code has 128; the
proofs cover any number).  Two toolchains and one test give all ways to share
a side: both, caller, callee, none.  Archive counts and the history in
`Triage` need no bound: both are limited by the number of tasks and keys.
`Noise` bounds foreign lines in `RunCheck`; one can stand before, between and
after all others.  Two functions and one skipped index between them suffice
for buffers that resize, restart and mix.  In `Types` two types with two fields
make every shape of cycle that the order inside a component tells apart
(nominal or not, by value or not, declared earlier or later), and all their
cycles can end, so that values of the types exist.  In `Values`, lists
end: values from number `Chosen` on draw variant 0, where every list of the
instance ends.  `Depth` has room for the longest of them, and the struct that
holds a reference to itself overflows it.  Two functions with two or three
arguments tell the three ways to count values apart.  In `MapLogger`
`MaxEvents` bounds the events of each span, four spans on three ids make one
handler meet an id that belonged to another span.

Fairness.  `Harness` assumes weak fairness of each task and of `main`: tokio
polls every woken task, wakes the waiters of a semaphore or cell in turn, and
`block_on` returns when the task it waits for has ended.  It also assumes that
a compiler or test binary ends.  `run_bin_test` has no timeout, so a binary
that hangs does hang the suite.  `Triage`, `RunCheck`, `Types`, `Values` and
`MapLogger` have safety properties only: all but the last are sequential, and
the logger does nothing by itself.

Deadlock checking is on in every run but MapLogger; where a component is really
over (`Exit`, `Over`) the module has an explicit stuttering action.  The logger
stops when the program has opened, used and closed all its spans.

## Findings

* `TriageGreen`: `report_test` computes `could_be`, commented as what "could
  be to make CI green", from the phase that the rules allow (`rules.run`), not
  from the phase where the test stopped (`ran_to`).  A test that fails to
  build gets `busted = "check"`, and with this rule it fails again, because its
  check phase has no result.  `LastPhaseSettles` says when the suggestion does
  work.
* `TypesNames`: `definition_graph` sorts nominal types to the front of a
  component so that no forward declaration mentions an undeclared name, but
  `definitions` walks the component from the end.  With two references in one
  cycle, a reference is declared before the type it names and both code
  generators panic in `intern_tyname`.  `LookupsFailOnlyInTangles` says that
  there is no other cause: with one reference (or array) per cycle, and no
  alias in it for C, every name is there.
* `TypesUsed`: inside a component the types are defined by descending index,
  whatever holds what by value, so C may see a field of an incomplete type.
* `ValuesPuns`: `build_values` fills both counts of `MismatchedPunVals` with
  the length of the earlier block (vals.rs:394 and 396), so the message
  "block1 had {block1_val_count} ... block2 had {block2_val_count}"
  (error.rs:35) states two equal numbers as its reason.

## Proofs

`HarnessProofs` is about `Spec` of `Harness` for every value of the constants
that satisfies the four ASSUMEs of that module: a finite sequence of keys, a
finite set of subtests, any positive number of permits, any well-typed rules
and fates.

The safety properties are not inductive by themselves: that a cell has one
initializer needs to know who may hold one.  The invariant `Inv` adds to
`TypeOK`

* `Places` - a side is at a cell only in the phase that asks for it, and a
  library is asked for by one side at a time;
* `HoldersPlaced` - a side holds a cell permit only while it is at a cell;
* `OneInitializer`, `LimiterConserved` - the properties themselves;
* `SpawnedInTurn` - while main spawns, no task is spawned; while it joins, no
  minimal task is; while it minimizes, the handles left are of minimal tasks;
* `IsFiniteSet(tokens)` - so that the holders of limiter permits can be counted.

Each action is shown to preserve each part; `Invariance` is Spec => []Inv.
From it follow `TypeCorrect`, `MutualExclusion`, `PermitsConserved`, the action
property `LibsStable`, and `MemoRefinement`: under the mapping of `Harness`
(set if full, else running if taken, else empty) every step is a step of `Memo`
or leaves it alone.

`HarnessResultsProofs` goes on from there.  Four more invariants are shown to
be kept by every action:

* `Progress` - while a phase is at work, the phases before it succeeded and no
  other has a result (`Working`); a task that has not started has none.  With
  it a result is written once and never again: `ResultsStayFinal`, an action
  property, and `PipelineInvariance`.
* `Passed` - the cells a task has passed in the phases behind it are full.
  Since no cell is ever emptied, the inputs of the next phase are there:
  `InputsSettled`.
* `MadeWell` - a value in a cell was made by an initializer that may succeed.
  With tools that repeat their answers, whoever made it, it says what the task
  would have got by itself: `ResultsAsIfAlone`.
* `Joined` - what main has joined has ended and is graded by its own results,
  and what it has not joined yet is in order behind it: `EndIsComplete`.

`CopiesAreAccountedFor` counts the copies of an object in an archive against
the tasks that tried and failed to build it.

`HarnessResultsProofs` puts them together (`SuiteRefinement`): a test of the suite is
done when its task is, and the suite exits when main does.  `DoneAlone`, the
invariant that a task which ended has results that the suite may give its test,
follows from `Progress` and `AsIfAlone`; the exit code from `EndComplete`; that
it panics only if panics are possible at all is an invariant of its own.

With these, all safety properties of `Harness` that the runs check are
theorems.

`MapLoggerProofs` is about `Spec` of `MapLogger`, for every finite set of spans,
every nesting of them and any set of tracing ids.  The properties need each
other: an event goes to the right entry because lookups succeed, and a lookup
succeeds because ids of open spans differ.  `Inv` joins `TypeOK`,
`LookupsSucceed` and `EntriesFaithful` with the bijection between persistent
ids below `next_span_id` and the spans that were opened, which also shows that
there is an id left for each span.  From it follow `TypeCorrect`,
`NoLookupPanics` and `MessagesStay`.

`LogsSequential` (that every test's log is printed once, whole and as if the
test had run alone) goes on from there in two steps.  `Text` adds what the entries say: a
span's entry comes after its parent's (`Nested`), has the fields that were
recorded (`FieldsNoted`), and a span whose on_close has begun has no span open
inside it (`ChildrenClosed`).  So the recursion of `print_span_recursive` ends
(`PrintingRec`), prints of a span what was said in it (`AloneIsPrinted`), and
prints it again unchanged from the moment on_close begins (`Frozen`,
`StoryKept`), which is what makes it harmless that on_close lets go of the lock
between looking, printing to a string and printing to stderr.  `Output` adds
that no span is asked for twice (`AskedOnce`), so that the cached string is
never the answer to a new question, and what is on stderr so far.

`TriageProofs` is about `Spec` of `Triage`, for any number of tests, any
built-in rules and any fates.  Its invariant says that reports are the grades of
what the tools made of the tests under the rules that were there, in this run
and in the one before, and that between the two the user either added no rule
or adopted those that the run before suggested, with the same tools.  From it
follow all four properties: `OnlyMatchedMoveHolds` and `LastPhaseSettlesHolds`
by what `get_test_rules` makes of a longer list of rules,
`ChangeIsNoticedHolds` and `UnsupportedNeverFailsHolds` by what `report_test`
makes of two results.

`RunCheckProofs` is about `Spec` of `RunCheck`, for any functions, arguments,
values and tags, any number of foreign lines, and a process that may stop
anywhere.  Its invariant has six parts:

* `Types` - the state is well typed;
* `Reported` - what a side saw it saw at a report that the program has passed;
* `Unique` - no side saw two values in one place;
* `HiddenOrShown` - every report passed was made, but for those of the fields
  of a variant that was not there;
* `Reading` - there is a point q in the order of the program such that stdout
  holds what the reports after q wrote, in order, each once, with none missing
  but the last ones, and one missing if `cut` says so (`Rest`), and the buffers
  hold what the reports up to q wrote (`Filled`);
* `Stages` - what is known once stdout is empty, and in every verdict.

It implies all six properties of `RunCheck`: completeness of graded runs,
`ProtocolKept`, faithful buffers, exact verdicts, and that the value and the
function that are blamed are the right ones: of a bad exit the function that was
running and the last value the side reported of it (`BlamedValue`), or an
earlier function and a value reported of it if lines were lost.  That a graded
run is not `cut` is no assumption about how a process may end: a run that lost a
line has lost the last one, "done", too.  What it assumes of the constants
is what the code guarantees of them: the desired functions come in the order of
their indices (src/harness/test.rs:123-126, `active_funcs` walks `all_funcs`),
the tag of a value is reported before the fields of its variant.

`TypesProofs` is about `Spec` of `Types`, for both languages and every program
that can be written down, sound or not: any declarations, puns, functions and
choice of functions (`ProgramsAssumption` says what the parser makes of a file,
src/kdl-script/src/parse.rs:138-166).  It has five parts.

* Tables.  Typeck is a fold over the declarations, which folds over fields, which
  folds over the modifiers of a written type.  `FoldExists` and `FoldStays` say
  once what a fold preserves; with them every level is shown to keep the table
  closed (what a type is made of is in the table) and to leave exactly the
  slots open that are not filled in yet, also where a pun opens a scope of its
  own.  After the last declaration none is open (`TypeckTyped`).
* Reach.  It is defined by as many steps as there are types; `NearCloses` shows
  that this is enough (a step that adds nothing is the last one, and there are
  only so many types to add), so that `Reach` is the least closed set.
* `FactsInv`, the invariant of `compute_ty_facts`.  A type that is not known is on
  the worklist; one that was stacked for its parts has those that are not known
  above itself, with nothing but what it holds by value in between
  (`StackedAt`); the known types are closed under holding, none of them holds
  itself, and `refs` is exact among them.  Meeting a visited type again that
  misses a part is then meeting it among what it holds: `RejectsExactly`.  When
  the worklist is empty everything is known: `ContainsRefIsExact`.
* `EmitInv` adds that what is still to be emitted, declared, defined or named is
  needed by the desired functions.  The edges of the graph are those that the
  names and the texts of definitions mention once every pun is resolved:
  `SubsetsAreClosed`, and `TypesTypeCorrect`.
* `NamesInv` is about the order inside a component.  If no component is tangled,
  the definitions that are left look up no name before it is there (`Ready`).
  Types that need each other do so through a reference, because none of them
  holds itself by value (`CycleHasRef`, from `FactsInv`); so the one type that is
  not declared first is that reference.  The others are nominal, and a pun is
  resolved to a nominal type that came into the table after it, which is
  emitted before it (`Fits`, `ComponentReady`).  `LookupsSucceed` follows: the
  generators panic only on the tangled programs of which `TypesNames` shows one.

`WorklistIsBounded` counts with the same fold lemmas: the worklist is no longer
than the table and the parts of the types that were visited, each of which was
stacked once.

`ValuesProofs` is about `Spec` of `Values`, for any table of types, puns in puns
and types that hold themselves included, any programs, any draws and any depth
of the stack.  `TypesAssumption` says what kdl-script has made sure of by then,
and that enums and tagged unions have variants.

* Two recursions in step.  `build_values` and a visit are functions of the
  number of calls that still fit; what is proved of them is proved by induction
  on that number (`SetInduction`), and of the parts of a type turn by turn.
  `BuiltWell`: values drawn from number g on are numbered g, g + 1 and so on.
  `VisitsFollow`: where a list draws from its place k on what the generator drew
  from g on (`Fits`), the visit of a type at k has a line for each value that
  `build_values` makes of it at g, in order, up to a failure, and ends behind
  them; if there is no pun, each line also has the path and the type that the
  value has.  With a pun it has not, but all blocks make equally many values from
  the same g, so a visit that takes another block takes as many.
* `VisitsPair`: two visits that get through, in one language, have met the same;
  reporting an argument thus meets what initializing it met.
* Statements and bodies.  `Whole` says what a body has once nothing in it has
  failed: a write for every argument, an init for those it owns.
* `Inv`, the invariant, says of each argument that it was built so and where its
  values and their numbers begin, and of each body that it is what its generator
  makes of the tree.  Minimized sources have the same tree and another
  selection, and the full sources are kept as history.

From it follow `TypeCorrect`, `VisitsTakeTheirValues` and
`IndicesAreFaithful`: arguments are laid end to end, so their places are the
numbers up to the sum of their lengths, each once.  `Judged`, a second
invariant, is about the one leaf that may be lost: what differs in the two
reports of an `Alike` function is that leaf or comes after it, because only what
is inside its variant goes unreported.  So the first value that differs is the
right one (`FaithfulCallsPass`, `LossesAreBlamed`).
`MinimizedShowsTheFailure` compares the two generations: what a body initializes
does not depend on what is selected.

Strings with spaces, `:>`, `SelectSeq` and `SortSeq` mean nothing to the provers;
`Types` says the same with functions, folds and ranks.

`DataLemmas` holds what these proofs need of numbers and sequences: induction
over the naturals where the property is a set (the library's induction theorems
take an operator, which the provers cannot instantiate), least and greatest
elements, and where `FlattenSeq` lays the parts of its result.

The proofs assume only the ASSUMEs of the modules.

Only model-checked: liveness (`Terminates`, `EveryTaskEnds`), which is beyond the
prover.  Every invariant and every action property of the passing runs is
proved.

## Not modelled

* Text: generated source beyond what it initializes and reports in which order,
  printed reports (report.rs prints what `report_test` computed), error
  messages.  So are names that are joined from others: `base_id`, and the
  temporaries that references point to, which could coincide.
* The KDL parser is sequential and pure and has snapshot tests, as has procgen,
  which writes test files.  kdl-script's evaluator is not used by the harness.
* Signatures, calling conventions and attributes, which are the input of the
  compilers under test and mean nothing to the harness; flags of compilers.
* Bytes of values, beyond which value made them; `FromStr` of generators.  The
  graffiti generator writes the number of a value modulo 16 into its bytes
  (src/src/harness/vals.rs:424), so a value that is mistaken for the one 16
  further on looks right to the harness, and wrong to `Values`.  Paths
  that contain "abicafepoison" make the callee report a wrong value on purpose;
  the lost leaf of `Values` stands for these too.  Types that `declare`
  refuses before any value is initialized are left to `Types`.
* Enums and tagged unions without variants: no compiler takes what the
  generators write for them.
* The dylib path (`link_dylib`, `run_dylib_test`) is dead code.
* Reading files and the command line only decide the constants.  Two processes
  in one directory would delete each other's files at start-up.
* A foreign write that does not end its line.  It is glued to a JSON line of the
  program, run_bin_test drops the two (src/src/harness/run.rs:219), and a later
  "done" makes the run clean again.  `Interject` is about whole lines.
* A test binary that hangs: there is no timeout to model.

## Plan

All seven groups exist.

1. `Rules`, `Memo`, `Harness` and its proofs: the concurrent core.
2. `Triage`: what expectations mean across runs.
3. `RunCheck`: what a run of a binary means.
4. `Types`: which types are refused, and the order of definitions.
5. `Values`: all visits of a value stay in step.
6. `MapLogger` and its proofs: spans and events of concurrent tests.
7. `Suite` and the proof that `Harness` implements it.
