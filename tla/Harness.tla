------------------------------ MODULE Harness ------------------------------
(***************************************************************************)
(* The test harness: main spawns one task per test key, every task runs    *)
(* do_test (generate both sides, build both static libraries, link, run,   *)
(* check) on a multi-threaded runtime, and the tasks share                 *)
(*   - memo cells (Mutex<SortedMap<K, Arc<OnceCell<V>>>>): the values of a *)
(*     test, its definition graph under a toolchain, a generated source, a *)
(*     built static library;                                               *)
(*   - the concurrency limiter, a counting semaphore;                      *)
(*   - the output directory, where a C library is an archive that `ar cq`  *)
(*     appends to.                                                         *)
(* A step of the model is what a task does between two points where it can *)
(* wait.  The compilers, the linker, the test binary and the code          *)
(* generators are the outside world: the *Fate constants say which results *)
(* each of them may give, Panics where a task may panic.                   *)
(***************************************************************************)
EXTENDS Rules, Sequences, FiniteSets

CONSTANTS
  Plan,         \* the sequence of test keys that the loops of main visit
  Subtests,     \* indices of the functions a test checks, a set of positive integers
  RulesOf,      \* RulesOf[i] is what get_test_rules answers for Plan[i]
  Permits,      \* permits of concurrency_limiter (128 in the code)
  MinWriter,    \* cfg.minimizing_write_impl
  Inactive,     \* the keys under which no function of the test is active
  GenFate(_),   \* results the initializer of a vals, toolchain or source cell may give
  BuildFate(_), \* results of compiling a library; "late": `ar cq` worked, `ar s` failed
  LinkFate(_),  \* results of linking the binary of a key
  RunFate(_),   \* results of running it
  CheckFate(_), \* sets of subtests that check_test may find mismatched
  Panics        \* the steps in which a task may panic

Sides == {"caller", "callee"}
Other(s) == IF s = "caller" THEN "callee" ELSE "caller"

(* <<i, 0>> runs Plan[i]; <<i, f>> minimizes the failure of its subtest f. *)
Originals == (DOMAIN Plan) \X {0}
Minimals  == (DOMAIN Plan) \X Subtests
Tasks     == Originals \cup Minimals

(* A key has fields test (the test and its value generator), opts          *)
(* (convention, repr, variadics), writer, func (0 is FunctionSelector::All)*)
(* and the two toolchains, caller and callee.                              *)
KeyOf(t) ==
  IF t[2] = 0 THEN Plan[t[1]]
  ELSE [Plan[t[1]] EXCEPT !.func = t[2], !.writer = MinWriter]

RulesFor(t) ==
  IF t[2] = 0 THEN RulesOf[t[1]]
  ELSE [RulesOf[t[1]] EXCEPT !.run = Generate]

(* base_id(key, Some(side)) names one side of a test and leaves the        *)
(* toolchain of the other side out: every pairing with this side shares it.*)
Unit(k, s) == [test |-> k.test, opts |-> k.opts, writer |-> k.writer,
               func |-> k.func, tc |-> k[s], side |-> s]

CellOf(k, s, kind) ==
  CASE kind = "vals" -> <<"vals", k.test>>
    [] kind = "tc"   -> <<"tc", k.test, k[s]>>
    [] kind = "src"  -> <<"src", Unit(k, s)>>
    [] kind = "lib"  -> <<"lib", Unit(k, s)>>

GenKinds == {"vals", "tc", "src"}
Kinds    == GenKinds \cup {"lib"}
Cells    == {CellOf(KeyOf(t), s, kind) : t \in Tasks, s \in Sides, kind \in Kinds}
Units    == {Unit(KeyOf(t), s) : t \in Tasks, s \in Sides}

ASSUME PermitsAssumption  == Permits \in Nat \ {0}
ASSUME PlanAssumption     == /\ Len(Plan) \in Nat /\ DOMAIN Plan = 1 .. Len(Plan)
                             /\ Subtests \subseteq Nat \ {0}
                             /\ IsFiniteSet(Subtests)
ASSUME RulesAssumption    == RulesOf \in [DOMAIN Plan -> TestRules]
ASSUME FateAssumption ==
  /\ \A c \in Cells : GenFate(c) \subseteq {"ok", "err", "unsupported"}
  /\ \A u \in Units : BuildFate(u) \subseteq {"ok", "err", "late"}
  /\ \A t \in Tasks : /\ LinkFate(KeyOf(t)) \subseteq {"ok", "err"}
                      /\ RunFate(KeyOf(t)) \subseteq {"ok", "err"}
                      /\ CheckFate(KeyOf(t)) \subseteq SUBSET Subtests
  /\ Panics \subseteq {"gen", "build", "run", "check"}

VARIABLES
  main,      \* where main is
  unjoined,  \* the tasks whose handles main has yet to join
  report,    \* report[i]: the conclusion on Plan[i], "none" until it is joined
  minimized, \* the minimal tasks whose generated source main stored in a report
  pc,        \* where each task is
  at,        \* at[t][s]: the cell that side s of task t has to get next
  holds,     \* the <<task, side>> pairs that hold the permit of that cell
  taken,     \* the cells whose permit is out: an initializer is running
  full,      \* the cells that hold a value
  permits,   \* permits left in concurrency_limiter
  tokens,    \* the tasks that hold one
  archive,   \* archive[u]: times the object of u was written into its library
  results,   \* results[t]: the TestRunResults of t
  bad        \* bad[t]: the subtests that check_test found mismatched

taskVars == <<pc, at, holds, taken, full, permits, tokens, archive, results, bad>>
mainVars == <<main, unjoined, report, minimized>>
vars     == <<mainVars, taskVars>>

Idle == [s \in Sides |-> "idle"]
Cell(t, s) == CellOf(KeyOf(t), s, at[t][s])
HeldBy(t)  == {Cell(t, s) : s \in {x \in Sides : <<t, x>> \in holds}}

Init ==
  /\ main = "spawn"
  /\ unjoined = {}
  /\ report = [i \in DOMAIN Plan |-> "none"]
  /\ minimized = {}
  /\ pc = [t \in Tasks |-> "unspawned"]
  /\ at = [t \in Tasks |-> Idle]
  /\ holds = {}
  /\ taken = {}
  /\ full = {}
  /\ permits = Permits
  /\ tokens = {}
  /\ archive = [u \in Units |-> 0]
  /\ results = [t \in Tasks |-> NewResults(RulesFor(t))]
  /\ bad = [t \in Tasks |-> {}]

-----------------------------------------------------------------------------
(* do_test *)

(* The result of phase p is r; the pipeline goes on to next, or stops      *)
(* because r is an error or because the rules want no more.                *)
StageAfter(p) == CASE p = Generate -> "build"
                   [] p = Build    -> "link"
                   [] p = Link     -> "run"
                   [] p = Run      -> "check"

GoesOn_IgnoresErrors(t, p, r) == results[t].run > p
GoesOn(t, p, r) == r = "ok" /\ results[t].run > p

Recorded(t, p, r) ==
  [results[t] EXCEPT !.out    = [@ EXCEPT ![p] = r],
                     !.run    = IF r = "unsupported" THEN Skip ELSE @,
                     !.ran_to = IF GoesOn(t, p, r) THEN p + 1 ELSE @]

Record(t, p, r) ==
  /\ results' = [results EXCEPT ![t] = Recorded(t, p, r)]
  /\ pc' = [pc EXCEPT ![t] = IF GoesOn(t, p, r) THEN StageAfter(p) ELSE "done"]

SkipTest(t) ==
  /\ pc[t] = "ready" /\ results[t].run <= Skip
  /\ pc' = [pc EXCEPT ![t] = "done"]
  /\ UNCHANGED <<at, holds, taken, full, permits, tokens, archive, results, bad>>

(* generate_test: a test without active functions is not generated. *)
SkipInactive(t) ==
  /\ pc[t] = "ready" /\ results[t].run > Skip
  /\ KeyOf(t) \in Inactive
  /\ pc' = [pc EXCEPT ![t] = "done"]
  /\ results' = [results EXCEPT ![t].ran_to = Generate, ![t].out[Generate] = "skipped"]
  /\ UNCHANGED <<at, holds, taken, full, permits, tokens, archive, bad>>

StartGenerate(t) ==
  /\ pc[t] = "ready" /\ results[t].run > Skip
  /\ KeyOf(t) \notin Inactive
  /\ pc' = [pc EXCEPT ![t] = "gen"]
  /\ results' = [results EXCEPT ![t].ran_to = Generate]
  /\ at' = [at EXCEPT ![t] = [s \in Sides |-> "vals"]]
  /\ UNCHANGED <<holds, taken, full, permits, tokens, archive, bad>>

(* What side s does once the cell it is at has a value.  Both sides are    *)
(* generated concurrently, but the libraries are built one after the other.*)
After(t, s) ==
  CASE at[t][s] = "vals" -> [at[t] EXCEPT ![s] = "tc"]
    [] at[t][s] = "tc"   -> [at[t] EXCEPT ![s] = "src"]
    [] at[t][s] = "src"  -> [at[t] EXCEPT ![s] = "ready"]
    [] at[t][s] = "lib" /\ s = "caller" -> [caller |-> "ready", callee |-> "lib"]
    [] at[t][s] = "lib" /\ s = "callee" -> [at[t] EXCEPT ![s] = "ready"]

(* get_or_try_init on a cell that has a value. *)
Reuse(t, s) ==
  /\ at[t][s] \in Kinds
  /\ <<t, s>> \notin holds
  /\ Cell(t, s) \in full
  /\ at' = [at EXCEPT ![t] = After(t, s)]
  /\ UNCHANGED <<pc, holds, taken, full, permits, tokens, archive, results, bad>>

(* get_or_try_init on an empty cell: wait for its permit, then initialize. *)
Vacant_Unserialized(c) == c \notin full
Vacant_LibsForgotten(c) == c \notin taken /\ (c[1] = "lib" \/ c \notin full)
Vacant(c) == c \notin full \cup taken

Claim(t, s) ==
  /\ at[t][s] \in Kinds
  /\ <<t, s>> \notin holds
  /\ Vacant(Cell(t, s))
  /\ holds' = holds \cup {<<t, s>>}
  /\ taken' = taken \cup {Cell(t, s)}
  /\ UNCHANGED <<pc, at, full, permits, tokens, archive, results, bad>>

(* The initializer of a generation cell succeeds: the value is set and the *)
(* permit is gone for good.                                                *)
Produce(t, s) ==
  /\ pc[t] = "gen" /\ <<t, s>> \in holds
  /\ "ok" \in GenFate(Cell(t, s))
  /\ full' = full \cup {Cell(t, s)}
  /\ taken' = taken \ {Cell(t, s)}
  /\ holds' = holds \ {<<t, s>>}
  /\ at' = [at EXCEPT ![t] = After(t, s)]
  /\ UNCHANGED <<pc, permits, tokens, archive, results, bad>>

(* The task lets go of every cell and of its limiter permit. *)
TakenWithout_Leaks(t) == taken
TakenWithout(t) == taken \ HeldBy(t)
PermitsWithout_Leaks(t) == permits
PermitsWithout(t) == IF t \in tokens THEN permits + 1 ELSE permits

LetGo(t) ==
  /\ holds' = {h \in holds : h[1] # t}
  /\ taken' = TakenWithout(t)
  /\ at' = [at EXCEPT ![t] = Idle]
  /\ permits' = PermitsWithout(t)
  /\ tokens' = tokens \ {t}

(* It fails: the cell stays empty, and try_join! drops the future of the   *)
(* other side, with whatever permit that one holds.                        *)
GenerateFails(t, s) ==
  /\ pc[t] = "gen" /\ <<t, s>> \in holds
  /\ \E e \in GenFate(Cell(t, s)) \ {"ok"} : Record(t, Generate, e)
  /\ LetGo(t)
  /\ UNCHANGED <<full, archive, bad>>

SidesReady_CallerOnly(t) == at[t]["caller"] = "ready"
SidesReady(t) == \A s \in Sides : at[t][s] = "ready"

Generated(t) ==
  /\ pc[t] = "gen" /\ SidesReady(t)
  /\ Record(t, Generate, "ok")
  /\ at' = [at EXCEPT ![t] =
       IF results[t].run > Generate THEN [caller |-> "lib", callee |-> "idle"] ELSE Idle]
  /\ UNCHANGED <<holds, taken, full, permits, tokens, archive, bad>>

Available_OffByOne == permits >= 0
Available == permits > 0

(* concurrency_limiter.acquire(), inside the initializer of a library cell *)
(* or at the start of link_bin.                                            *)
Acquire(t) ==
  /\ \/ pc[t] = "build" /\ \E s \in Sides : <<t, s>> \in holds
     \/ pc[t] = "link"
  /\ t \notin tokens
  /\ Available
  /\ permits' = permits - 1
  /\ tokens' = tokens \cup {t}
  /\ UNCHANGED <<pc, at, holds, taken, full, archive, results, bad>>

Compiled(t, s) ==
  /\ pc[t] = "build" /\ <<t, s>> \in holds /\ t \in tokens
  /\ "ok" \in BuildFate(Unit(KeyOf(t), s))
  /\ archive' = [archive EXCEPT ![Unit(KeyOf(t), s)] = @ + 1]
  /\ full' = full \cup {Cell(t, s)}
  /\ taken' = taken \ {Cell(t, s)}
  /\ holds' = holds \ {<<t, s>>}
  /\ permits' = permits + 1
  /\ tokens' = tokens \ {t}
  /\ at' = [at EXCEPT ![t] = After(t, s)]
  /\ UNCHANGED <<pc, results, bad>>

CompileFails(t, s) ==
  /\ pc[t] = "build" /\ <<t, s>> \in holds /\ t \in tokens
  /\ \E e \in BuildFate(Unit(KeyOf(t), s)) \ {"ok"} :
       archive' = IF e = "late" THEN [archive EXCEPT ![Unit(KeyOf(t), s)] = @ + 1]
                  ELSE archive
  /\ Record(t, Build, "err")
  /\ LetGo(t)
  /\ UNCHANGED <<full, bad>>

Built(t) ==
  /\ pc[t] = "build" /\ SidesReady(t)
  /\ Record(t, Build, "ok")
  /\ at' = [at EXCEPT ![t] = Idle]
  /\ UNCHANGED <<holds, taken, full, permits, tokens, archive, bad>>

LinkBin(t) ==
  /\ pc[t] = "link" /\ t \in tokens
  /\ \E r \in LinkFate(KeyOf(t)) : Record(t, Link, r)
  /\ LetGo(t)
  /\ UNCHANGED <<full, archive, bad>>

(* run_bin_test takes no permit of the limiter. *)
RunBin(t) ==
  /\ pc[t] = "run"
  /\ \E r \in RunFate(KeyOf(t)) : Record(t, Run, r)
  /\ UNCHANGED <<at, holds, taken, full, permits, tokens, archive, bad>>

(* check_test asks test_with_vals again: it has to be in its cell by now.  *)
CheckTest(t) ==
  /\ pc[t] = "check"
  /\ CellOf(KeyOf(t), "caller", "vals") \in full
  /\ \E b \in CheckFate(KeyOf(t)) :
       /\ bad' = [bad EXCEPT ![t] = b]
       /\ Record(t, Check, IF b = {} THEN "ok" ELSE "err")
  /\ UNCHANGED <<at, holds, taken, full, permits, tokens, archive>>

(* A task unwinds: its permits are dropped, its handle will report it. *)
Panic(t) ==
  /\ \/ pc[t] = "gen" /\ "gen" \in Panics /\ \E s \in Sides : <<t, s>> \in holds
     \/ pc[t] = "build" /\ "build" \in Panics /\ t \in tokens
     \/ pc[t] \in {"run", "check"} /\ pc[t] \in Panics
  /\ pc' = [pc EXCEPT ![t] = "panicked"]
  /\ LetGo(t)
  /\ UNCHANGED <<full, archive, results, bad>>

DoTest(t) ==
  /\ \/ SkipTest(t) \/ SkipInactive(t) \/ StartGenerate(t)
     \/ \E s \in Sides : \/ Reuse(t, s) \/ Claim(t, s)
                         \/ Produce(t, s) \/ GenerateFails(t, s)
                         \/ Compiled(t, s) \/ CompileFails(t, s)
     \/ Generated(t) \/ Acquire(t) \/ Built(t)
     \/ LinkBin(t) \/ RunBin(t) \/ CheckTest(t) \/ Panic(t)
  /\ UNCHANGED mainVars

-----------------------------------------------------------------------------
(* main *)

Failed_ByTheLast == report[Len(Plan)] = "Failed"
Failed == \E i \in DOMAIN Plan : report[i] = "Failed"

(* The mismatches to minimize, whatever the conclusion on their test. *)
Failures_WholeTests == {t \in Originals : bad[t] # {}}
Failures == {t \in Minimals : t[2] \in bad[<<t[1], 0>>]}

(* The order of the join handles: that of the reports and their subtests.  *)
Before(t, u)  == t[1] < u[1] \/ (t[1] = u[1] /\ t[2] < u[2])
NextToJoin(t) == t \in unjoined /\ \A u \in unjoined \ {t} : Before(t, u)

Spawn(S) ==
  /\ pc' = [t \in Tasks |-> IF t \in S THEN "ready" ELSE pc[t]]
  /\ unjoined' = S
  /\ UNCHANGED <<report, minimized, at, holds, taken, full, permits, tokens,
                 archive, results, bad>>

(* The loops of main: each key gets its rules and its task.  A task that   *)
(* starts before the loops end is one that is scheduled early.             *)
SpawnAll ==
  /\ main = "spawn"
  /\ main' = "join"
  /\ Spawn(Originals)

Join(t) ==
  /\ main = "join" /\ NextToJoin(t) /\ pc[t] = "done"
  /\ report' = [report EXCEPT ![t[1]] = Conclude(results[t], RulesFor(t).check)]
  /\ unjoined' = unjoined \ {t}
  /\ UNCHANGED <<main, minimized, taskVars>>

AllJoined_Originals == unjoined \cap Originals = {}
AllJoined == unjoined = {}

(* block_on(task).expect("failed to join task") *)
JoinPanics(t) ==
  /\ main \in {"join", "minimize"} /\ NextToJoin(t) /\ pc[t] = "panicked"
  /\ main' = "panicked"
  /\ UNCHANGED <<unjoined, report, minimized, taskVars>>

AllPassed ==
  /\ main = "join" /\ AllJoined /\ ~Failed
  /\ main' = "passed"
  /\ UNCHANGED <<unjoined, report, minimized, taskVars>>

MinimizeFailures ==
  /\ main = "join" /\ AllJoined /\ Failed
  /\ main' = "minimize"
  /\ Spawn(Failures)

JoinMinimized(t) ==
  /\ main = "minimize" /\ NextToJoin(t) /\ pc[t] = "done"
  /\ minimized' = IF results[t].out[Generate] = "ok" THEN minimized \cup {t} ELSE minimized
  /\ unjoined' = unjoined \ {t}
  /\ UNCHANGED <<main, report, taskVars>>

ReportFailures ==
  /\ main = "minimize" /\ AllJoined
  /\ main' = "failed"
  /\ UNCHANGED <<unjoined, report, minimized, taskVars>>

Main ==
  \/ SpawnAll \/ AllPassed \/ MinimizeFailures \/ ReportFailures
  \/ \E t \in Tasks : Join(t) \/ JoinPanics(t) \/ JoinMinimized(t)

Ended == main \in {"passed", "failed", "panicked"}

(* The process is gone: nothing happens any more. *)
Exit == Ended /\ UNCHANGED vars

Next == (\E t \in Tasks : DoTest(t)) \/ Main \/ Exit
Spec == Init /\ [][Next]_vars

(* Every runnable task is polled, and what it calls returns. *)
Fairness == (\A t \in Tasks : WF_vars(DoTest(t))) /\ WF_vars(Main)
FairSpec == Spec /\ Fairness

-----------------------------------------------------------------------------
(* Properties *)

TypeOK ==
  /\ main \in {"spawn", "join", "minimize", "passed", "failed", "panicked"}
  /\ unjoined \subseteq Tasks
  /\ report \in [DOMAIN Plan -> Conclusions \cup {"none"}]
  /\ minimized \subseteq Minimals
  /\ pc \in [Tasks -> {"unspawned", "ready", "gen", "build", "link", "run", "check",
                       "done", "panicked"}]
  /\ at \in [Tasks -> [Sides -> Kinds \cup {"idle", "ready"}]]
  /\ holds \subseteq Tasks \X Sides
  /\ taken \subseteq Cells
  /\ full \subseteq Cells
  /\ permits \in Nat
  /\ tokens \subseteq Tasks
  /\ archive \in [Units -> Nat]
  /\ results \in [Tasks -> TestRunResults]
  /\ bad \in [Tasks -> SUBSET Subtests]

(* A memo cell has at most one initializer at work, its permit is out      *)
(* exactly while one is, and no initializer works on a cell that has a     *)
(* value: however tasks interleave, fail, panic or are dropped half way    *)
(* by try_join!, no library or source is made twice at once or made again. *)
OneInitializer ==
  /\ \A g, h \in holds : Cell(g[1], g[2]) = Cell(h[1], h[2]) => g = h
  /\ taken = {Cell(h[1], h[2]) : h \in holds}
  /\ taken \cap full = {}

(* No permit of the concurrency limiter is lost or minted, on any path out *)
(* of a compile or a link; and whoever holds one can use it without        *)
(* waiting for a cell, which is why cells and limiter cannot deadlock.     *)
LimiterConserved ==
  /\ permits + Cardinality(tokens) = Permits
  /\ \A t \in tokens :
       pc[t] = "link" \/ (pc[t] = "build" /\ \E s \in Sides : <<t, s>> \in holds)

(* A compiler only reads sources that are complete and that nobody is      *)
(* writing, a linker only such libraries, and check_test finds the values  *)
(* it expects test_with_vals to have made before.                          *)
SettledInputs ==
  \A t \in Tasks, s \in Sides :
    /\ pc[t] \in {"build", "link", "run", "check"} =>
         CellOf(KeyOf(t), s, "src") \in full \ taken
    /\ pc[t] \in {"link", "run", "check"} =>
         CellOf(KeyOf(t), s, "lib") \in full \ taken
    /\ pc[t] = "check" => CellOf(KeyOf(t), s, "vals") \in full

(* What report_test relies on: the phases before ran_to succeeded, those   *)
(* after it left no result, and a test ends where its rules told it to or  *)
(* at its first failure.                                                   *)
PipelineShape ==
  \A t \in Tasks :
    LET r == results[t]
    IN  /\ \A p \in Phase : /\ p < r.ran_to => r.out[p] = "ok"
                            /\ p > r.ran_to => r.out[p] = "none"
        /\ r.ran_to <= RulesFor(t).run
        /\ pc[t] = "done" => \/ r.ran_to = RulesFor(t).run
                             \/ r.out[r.ran_to] \notin {"none", "ok"}
        /\ pc[t] = "done" /\ r.ran_to # Skip => r.out[r.ran_to] # "none"

(* The results that a key may get in a phase when nothing else runs.       *)
SideFate(k, s) ==
  LET may(kind) == GenFate(CellOf(k, s, kind))
  IN  (may("vals") \ {"ok"})
      \cup (IF "ok" \in may("vals") THEN may("tc") \ {"ok"} ELSE {})
      \cup (IF "ok" \in may("vals") \cap may("tc") THEN may("src") ELSE {})
PhaseFate(k, p) ==
  CASE p = Generate -> IF k \in Inactive THEN {"skipped"}
                       ELSE (UNION {SideFate(k, s) \ {"ok"} : s \in Sides})
                            \cup (SideFate(k, "caller") \cap SideFate(k, "callee"))
    [] p = Build    -> (IF \A s \in Sides : "ok" \in BuildFate(Unit(k, s)) THEN {"ok"} ELSE {})
                       \cup (IF \E s \in Sides : BuildFate(Unit(k, s)) # {"ok"}
                             THEN {"err"} ELSE {})
    [] p = Link     -> LinkFate(k)
    [] p = Run      -> RunFate(k)
    [] p = Check    -> {IF b = {} THEN "ok" ELSE "err" : b \in CheckFate(k)}

(* A test gets the result it would get if it were run alone: sharing cells *)
(* with tests that fail, are skipped or panic does not leak into it, and   *)
(* the schedule decides nothing that the tools themselves do not.          *)
AsIfAlone ==
  \A t \in Tasks, p \in Phase :
    results[t].out[p] # "none" => results[t].out[p] \in PhaseFate(KeyOf(t), p)

(* `ar cq` appends, so a library that is made again after `ar s` failed    *)
(* holds its object twice: but every copy beyond the first is accounted    *)
(* for by a test that reported a build error for that library.             *)
CopiesAccountedFor ==
  \A u \in Units :
    archive[u] <= (IF <<"lib", u>> \in full THEN 1 ELSE 0)
                  + Cardinality({t \in Tasks : /\ results[t].out[Build] = "err"
                                               /\ \E s \in Sides : u = Unit(KeyOf(t), s)})

(* main ends with a verdict only when every test is joined and graded by   *)
(* what it did, nothing is running or held, and, when tests failed, every  *)
(* mismatch that could be regenerated has its minimized source.            *)
EndComplete ==
  main \in {"passed", "failed"} =>
    /\ \A t \in Originals :
         pc[t] = "done" /\ report[t[1]] = Conclude(results[t], RulesFor(t).check)
    /\ \A t \in Minimals :
         pc[t] = (IF main = "failed" /\ t \in Failures THEN "done" ELSE "unspawned")
    /\ (main = "failed") = Failed
    /\ minimized = {t \in Minimals : results[t].out[Generate] = "ok"}
    /\ holds = {} /\ taken = {} /\ permits = Permits

(* The cells keep the promise of the abstract memo map.  *)
CellState(c) == IF c \in full THEN "set" ELSE IF c \in taken THEN "running" ELSE "empty"
M == INSTANCE Memo WITH Keys <- Cells, state <- [c \in Cells |-> CellState(c)]
ImplementsMemo == M!Spec

(* Taken together, the tests that run at once and share their sources and  *)
(* libraries do as the abstract suite, where each is done in one step as   *)
(* if there were no other, and main exits with the verdict on all of them. *)
RuleOf(i)    == RulesOf[i]
MayGet(i, p) == PhaseFate(Plan[i], p)
SuiteResults == [i \in DOMAIN Plan |->
                   IF pc[<<i, 0>>] = "done" THEN {results[<<i, 0>>]} ELSE {}]
SuiteExit    == IF Ended THEN main ELSE "none"
Abstract == INSTANCE Suite WITH
              Tests <- DOMAIN Plan, Rule <- RuleOf, May <- MayGet, MayPanic <- Panics # {},
              results <- SuiteResults, exit <- SuiteExit
ImplementsSuite == Abstract!Spec

(* A library that is in its cell is never written again: the tasks that    *)
(* link it later link what the first of them built.                        *)
CachedLibStable ==
  [][\A u \in Units : <<"lib", u>> \in full =>
       archive'[u] = archive[u] /\ <<"lib", u>> \in full']_vars

(* The end of a task is final: neither main nor another task changes what  *)
(* it recorded, so the conclusion, the summary and the printed details     *)
(* speak of the same run.                                                  *)
ResultsFinal ==
  [][\A t \in Tasks : pc[t] \in {"done", "panicked"} =>
       pc'[t] = pc[t] /\ results'[t] = results[t] /\ bad'[t] = bad[t]]_vars

(* main always ends: no order of joins, cells, limiter permits, failures   *)
(* and panics leaves it waiting for ever.                                  *)
Terminates == <>Ended

(* A task that is spawned ends, unless a panic of another takes the whole  *)
(* process down first: no waiter of a cell or of the limiter is forgotten. *)
EveryTaskEnds ==
  \A t \in Tasks : pc[t] = "ready" ~> (pc[t] \in {"done", "panicked"} \/ main = "panicked")
=============================================================================
