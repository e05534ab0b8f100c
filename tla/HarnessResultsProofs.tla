------------------------ MODULE HarnessResultsProofs ------------------------
(***************************************************************************)
(* Proofs about Harness, continued: what the tasks record and what main    *)
(* makes of it.  The invariant of HarnessProofs is strengthened by what    *)
(* the stage of a task says about its results (Progress), about the cells  *)
(* it has passed (Passed), by what a value in a cell says about its        *)
(* initializer (MadeWell), and by what main has joined (Joined).  They end *)
(* in the proof that Harness implements Suite.                             *)
(***************************************************************************)
EXTENDS HarnessProofs

(* The stage a task is in while phase p is at work. *)
Stage(p) ==
  CASE p = Generate -> "gen"
    [] p = Build    -> "build"
    [] p = Link     -> "link"
    [] p = Run      -> "run"
    [] p = Check    -> "check"

Stages == {"gen", "build", "link", "run", "check"}

(* While phase p is at work, those before succeeded and no other has a result. *)
Working(t, p) ==
  /\ results[t].run = RulesFor(t).run
  /\ results[t].ran_to = p /\ p <= results[t].run
  /\ \A q \in Phase : results[t].out[q] = IF q < p THEN "ok" ELSE "none"

Progress ==
  \A t \in Tasks :
    /\ pc[t] \in {"unspawned", "ready"} => results[t] = NewResults(RulesFor(t))
    /\ \A p \in Phase : pc[t] = Stage(p) => Working(t, p)

LEMMA StageFacts ==
  /\ Phase = {1, 2, 3, 4, 5}
  /\ \A p \in Phase : Stage(p) \in Stages
  /\ \A p, q \in Phase : Stage(p) = Stage(q) => p = q
  /\ \A p \in Phase : p < 5 => StageAfter(p) = Stage(p + 1)
  /\ Stage(1) = "gen" /\ Stage(2) = "build" /\ Stage(3) = "link"
  /\ Stage(4) = "run" /\ Stage(5) = "check"
  <1>1. Phase = {1, 2, 3, 4, 5}
    BY DEF Phase, Generate, Check
  <1>2. /\ Stage(1) = "gen" /\ Stage(2) = "build" /\ Stage(3) = "link"
        /\ Stage(4) = "run" /\ Stage(5) = "check"
    BY DEF Stage, Generate, Build, Link, Run, Check
  <1>3. /\ StageAfter(1) = "build" /\ StageAfter(2) = "link"
        /\ StageAfter(3) = "run" /\ StageAfter(4) = "check"
    BY DEF StageAfter, Generate, Build, Link, Run
  <1>. QED
    BY <1>1, <1>2, <1>3 DEF Stages

(* What one step of a task does to what it records. *)
Kept(t) == pc'[t] = pc[t] /\ results'[t] = results[t] /\ bad'[t] = bad[t]
Graded(t, p, r) == pc[t] = Stage(p) /\ Record(t, p, r)

LEMMA TaskStepKinds ==
  ASSUME Inv, NEW t \in Tasks, DoTest(t)
  PROVE  \/ UNCHANGED <<pc, results>>
         \/ SkipTest(t) \/ SkipInactive(t) \/ StartGenerate(t)
         \/ \E p \in Phase, r \in Outcome \ {"none"} : Graded(t, p, r)
         \/ pc[t] \in Stages /\ pc' = [pc EXCEPT ![t] = "panicked"] /\ results' = results
  <1>. DEFINE Ends == \E p \in Phase, r \in Outcome \ {"none"} : Graded(t, p, r)
  <1>1. ASSUME NEW s \in Sides, GenerateFails(t, s) PROVE Ends
    <2>1. Cell(t, s) \in Cells
      BY <1>1, CellType DEF GenerateFails, Inv, HoldersPlaced
    <2>2. PICK e \in GenFate(Cell(t, s)) \ {"ok"} : Record(t, Generate, e)
      BY <1>1 DEF GenerateFails
    <2>3. e \in Outcome \ {"none"}
      BY <2>1, <2>2, FateAssumption DEF Outcome
    <2>. QED
      BY <1>1, <2>2, <2>3, StageFacts DEF GenerateFails, Graded, Generate
  <1>2. ASSUME NEW s \in Sides, CompileFails(t, s) PROVE Ends
    BY <1>2, StageFacts DEF CompileFails, Graded, Build, Outcome
  <1>3. Generated(t) => Ends
    BY StageFacts DEF Generated, Graded, Generate, Outcome
  <1>4. Built(t) => Ends
    BY StageFacts DEF Built, Graded, Build, Outcome
  <1>5. LinkBin(t) => Ends
    BY StageFacts, FateAssumption DEF LinkBin, Graded, Link, Outcome
  <1>6. RunBin(t) => Ends
    BY StageFacts, FateAssumption DEF RunBin, Graded, Run, Outcome
  <1>7. CheckTest(t) => Ends
    BY StageFacts DEF CheckTest, Graded, Check, Outcome
  <1>8. Panic(t) => pc[t] \in Stages /\ pc' = [pc EXCEPT ![t] = "panicked"] /\ results' = results
    <2>1. t \in tokens => pc[t] \in Stages
      BY DEF Inv, LimiterConserved, Stages
    <2>. QED
      BY <2>1 DEF Panic, Stages
  <1>9. ASSUME NEW s \in Sides, Reuse(t, s) \/ Claim(t, s) \/ Produce(t, s) \/ Compiled(t, s)
        PROVE  UNCHANGED <<pc, results>>
    BY <1>9 DEF Reuse, Claim, Produce, Compiled
  <1>10. Acquire(t) => UNCHANGED <<pc, results>>
    BY DEF Acquire
  <1>. HIDE DEF Ends
  <1>11. \/ UNCHANGED <<pc, results>>
         \/ SkipTest(t) \/ SkipInactive(t) \/ StartGenerate(t) \/ Ends
         \/ pc[t] \in Stages /\ pc' = [pc EXCEPT ![t] = "panicked"] /\ results' = results
    BY <1>1, <1>2, <1>3, <1>4, <1>5, <1>6, <1>7, <1>8, <1>9, <1>10 DEF DoTest
  <1>. QED
    BY <1>11 DEF Ends

(* A task writes into its own results only. *)
LEMMA OthersKept ==
  ASSUME Inv, NEW t \in Tasks, DoTest(t), NEW u \in Tasks, u # t
  PROVE  Kept(u) /\ at'[u] = at[u]
  <1>1. ASSUME NEW p, NEW r, Record(t, p, r)
        PROVE  pc'[u] = pc[u] /\ results'[u] = results[u]
    BY <1>1 DEF Record, Inv, TypeOK
  <1>2. LetGo(t) => at'[u] = at[u]
    BY DEF LetGo, Inv, TypeOK
  <1>3. ASSUME NEW s \in Sides, GenerateFails(t, s) \/ CompileFails(t, s)
        PROVE  Kept(u) /\ at'[u] = at[u]
    BY <1>1, <1>2, <1>3 DEF GenerateFails, CompileFails, Kept
  <1>4. LinkBin(t) \/ RunBin(t) \/ CheckTest(t) => Kept(u) /\ at'[u] = at[u]
    BY <1>1, <1>2 DEF LinkBin, RunBin, CheckTest, Kept, Inv, TypeOK
  <1>5. Generated(t) \/ Built(t) => Kept(u) /\ at'[u] = at[u]
    BY <1>1 DEF Generated, Built, Kept, Inv, TypeOK
  <1>6. Panic(t) \/ Acquire(t) => Kept(u) /\ at'[u] = at[u]
    BY <1>2 DEF Panic, Acquire, Kept, Inv, TypeOK
  <1>7. SkipTest(t) \/ SkipInactive(t) \/ StartGenerate(t) => Kept(u) /\ at'[u] = at[u]
    BY DEF SkipTest, SkipInactive, StartGenerate, Kept, Inv, TypeOK
  <1>8. ASSUME NEW s \in Sides, Reuse(t, s) \/ Claim(t, s) \/ Produce(t, s) \/ Compiled(t, s)
        PROVE  Kept(u) /\ at'[u] = at[u]
    BY <1>8 DEF Reuse, Claim, Produce, Compiled, Kept, Inv, TypeOK
  <1>. QED
    BY <1>3, <1>4, <1>5, <1>6, <1>7, <1>8 DEF DoTest

LEMMA MainKeeps ==
  ASSUME Main
  PROVE  /\ UNCHANGED <<results, bad, at, holds, taken, full, permits, tokens, archive>>
         /\ pc' = pc \/ (SpawnAll /\ Spawn(Originals)) \/ (MinimizeFailures /\ Spawn(Failures))
  BY DEF Main, SpawnAll, AllPassed, MinimizeFailures, ReportFailures, Spawn, Join,
         JoinPanics, JoinMinimized, taskVars

(* What main spawns is new. *)
LEMMA SpawnsFresh ==
  ASSUME Inv, Main, NEW t \in Tasks, pc'[t] # pc[t]
  PROVE  pc[t] = "unspawned" /\ pc'[t] = "ready"
  <1>1. CASE SpawnAll /\ Spawn(Originals)
    BY <1>1 DEF SpawnAll, Spawn, Inv, SpawnedInTurn
  <1>2. CASE MinimizeFailures /\ Spawn(Failures)
    BY <1>2 DEF MinimizeFailures, Spawn, Inv, SpawnedInTurn, Failures
  <1>. QED
    BY <1>1, <1>2, MainKeeps

-----------------------------------------------------------------------------
(* A task that is not spawned yet or has ended does nothing. *)
LEMMA AtRest ==
  ASSUME Inv, NEW t \in Tasks, pc[t] \in {"unspawned", "done", "panicked"}
  PROVE  ~ DoTest(t)
  <1>1. t \notin tokens
    BY DEF Inv, LimiterConserved
  <1>2. \A s \in Sides : at[t][s] \notin Kinds /\ <<t, s>> \notin holds
    BY AtCell DEF Inv, HoldersPlaced
  <1>3. ~ \E s \in Sides : Reuse(t, s) \/ Claim(t, s) \/ Produce(t, s) \/ GenerateFails(t, s)
                           \/ Compiled(t, s) \/ CompileFails(t, s)
    BY <1>2 DEF Reuse, Claim, Produce, GenerateFails, Compiled, CompileFails
  <1>4. ~(SkipTest(t) \/ SkipInactive(t) \/ StartGenerate(t) \/ Generated(t) \/ Built(t)
          \/ LinkBin(t) \/ RunBin(t) \/ CheckTest(t))
    BY DEF SkipTest, SkipInactive, StartGenerate, Generated, Built, LinkBin, RunBin, CheckTest
  <1>5. ~Acquire(t) /\ ~Panic(t)
    BY <1>1, <1>2 DEF Acquire, Panic
  <1>. QED
    BY <1>3, <1>4, <1>5 DEF DoTest

(* The end of a task is final. *)
LEMMA StepKeepsEnds ==
  ASSUME Inv, [Next]_vars, NEW t \in Tasks, pc[t] \in {"done", "panicked"}
  PROVE  Kept(t)
  <1>1. CASE UNCHANGED vars
    BY <1>1 DEF vars, taskVars, Kept
  <1>2. CASE Main
    BY <1>2, MainKeeps, SpawnsFresh DEF Kept
  <1>3. ASSUME NEW u \in Tasks, DoTest(u), u # t PROVE Kept(t)
    BY <1>3, OthersKept
  <1>. QED
    BY <1>1, <1>2, <1>3, AtRest DEF Next, Exit

(* What a test recorded when it ended stays as it is, whatever main and    *)
(* the other tests do: the conclusion, the summary and the details that    *)
(* main prints speak of one run.                                           *)
THEOREM ResultsStayFinal == Spec => ResultsFinal
  <1>1. Inv /\ [Next]_vars =>
          [\A t \in Tasks : pc[t] \in {"done", "panicked"} =>
             pc'[t] = pc[t] /\ results'[t] = results[t] /\ bad'[t] = bad[t]]_vars
    BY StepKeepsEnds DEF Kept
  <1>. QED
    BY <1>1, Invariance, PTL DEF Spec, ResultsFinal

-----------------------------------------------------------------------------
(* The pipeline. *)
ShapeOf(t) ==
  LET r == results[t]
  IN  /\ \A p \in Phase : /\ p < r.ran_to => r.out[p] = "ok"
                          /\ p > r.ran_to => r.out[p] = "none"
      /\ r.ran_to <= RulesFor(t).run
      /\ pc[t] = "done" => \/ r.ran_to = RulesFor(t).run
                           \/ r.out[r.ran_to] \notin {"none", "ok"}
      /\ pc[t] = "done" /\ r.ran_to # Skip => r.out[r.ran_to] # "none"

ProgressOf(t) ==
  /\ pc[t] \in {"unspawned", "ready"} => results[t] = NewResults(RulesFor(t))
  /\ \A p \in Phase : pc[t] = Stage(p) => Working(t, p)
  /\ ShapeOf(t)

LEMMA ProgressParts == (Progress /\ PipelineShape) <=> (\A t \in Tasks : ProgressOf(t))
  BY DEF Progress, PipelineShape, ProgressOf, ShapeOf

LEMMA KeptKeepsProgress ==
  ASSUME NEW t \in Tasks, ProgressOf(t), Kept(t)
  PROVE  ProgressOf(t)'
  <1>1. /\ results'[t] = NewResults(RulesFor(t)) <=> results[t] = NewResults(RulesFor(t))
        /\ \A p \in Phase : Working(t, p)' <=> Working(t, p)
        /\ ShapeOf(t)' <=> ShapeOf(t)
    BY DEF Kept, Working, ShapeOf
  <1>. QED
    BY <1>1 DEF ProgressOf, Kept

LEMMA GradedKeepsProgress ==
  ASSUME Inv, NEW t \in Tasks, ProgressOf(t), NEW p \in Phase,
         NEW r \in Outcome \ {"none"}, Graded(t, p, r)
  PROVE  ProgressOf(t)'
  <1>1. /\ results'[t] = Recorded(t, p, r)
        /\ pc'[t] = IF GoesOn(t, p, r) THEN StageAfter(p) ELSE "done"
    BY DEF Graded, Record, Inv, TypeOK
  <1>2. results[t] \in TestRunResults /\ RulesFor(t).run \in RunMode
    BY TaskShape DEF Inv, TypeOK, TestRules
  <1>3. Working(t, p)
    BY DEF ProgressOf, Graded
  <1>4. /\ results'[t].out = [results[t].out EXCEPT ![p] = r]
        /\ results'[t].run = IF r = "unsupported" THEN Skip ELSE results[t].run
        /\ results'[t].ran_to = IF GoesOn(t, p, r) THEN p + 1 ELSE results[t].ran_to
    BY <1>1, <1>2 DEF Recorded, TestRunResults
  <1>5. \A q \in Phase : results'[t].out[q] = IF q = p THEN r ELSE results[t].out[q]
    BY <1>2, <1>4 DEF TestRunResults
  <1>6. CASE GoesOn(t, p, r)
    <2>1. r = "ok" /\ p + 1 <= RulesFor(t).run /\ p + 1 \in Phase /\ p < 5
      BY <1>2, <1>3, <1>6, StageFacts DEF GoesOn, Working, RunMode, Skip, Check
    <2>2. pc'[t] = Stage(p + 1)
      BY <1>1, <1>6, <2>1, StageFacts
    <2>3. \A q \in Phase : results'[t].out[q] = IF q < p + 1 THEN "ok" ELSE "none"
      BY <1>3, <1>5, <2>1, StageFacts DEF Working
    <2>4. Working(t, p + 1)'
      BY <1>3, <1>4, <1>6, <2>1, <2>3 DEF Working
    <2>5. pc'[t] \in Stages /\ \A q \in Phase : pc'[t] = Stage(q) => q = p + 1
      BY <2>1, <2>2, StageFacts
    <2>6. ShapeOf(t)'
      BY <1>4, <1>6, <2>1, <2>3, <2>5, StageFacts DEF ShapeOf, Stages
    <2>. QED
      BY <2>4, <2>5, <2>6 DEF ProgressOf, Stages
  <1>7. CASE ~GoesOn(t, p, r)
    <2>1. pc'[t] = "done" /\ results'[t].ran_to = p /\ results'[t].out[p] = r
      BY <1>1, <1>3, <1>4, <1>5, <1>7 DEF Working
    <2>2. p <= RulesFor(t).run /\ p \in Int /\ RulesFor(t).run \in Int
      BY <1>2, <1>3, StageFacts DEF Working, RunMode, Skip, Check
    <2>3. r = "ok" => p = RulesFor(t).run
      BY <1>3, <1>7, <2>2 DEF GoesOn, Working
    <2>4. \A q \in Phase : /\ q < p => results'[t].out[q] = "ok"
                           /\ q > p => results'[t].out[q] = "none"
      BY <1>3, <1>5, StageFacts DEF Working
    <2>5. ShapeOf(t)'
      BY <2>1, <2>2, <2>3, <2>4 DEF ShapeOf
    <2>6. \A q \in Phase : Stage(q) # "done"
      BY StageFacts DEF Stages
    <2>. QED
      BY <2>1, <2>5, <2>6 DEF ProgressOf
  <1>. QED
    BY <1>6, <1>7

LEMMA OwnStepKeepsProgress ==
  ASSUME Inv, NEW t \in Tasks, ProgressOf(t), DoTest(t)
  PROVE  ProgressOf(t)'
  <1>1. /\ results[t] \in TestRunResults /\ RulesFor(t).run \in RunMode
        /\ NewResults(RulesFor(t)).ran_to = Skip /\ NewResults(RulesFor(t)).run = RulesFor(t).run
        /\ \A p \in Phase : NewResults(RulesFor(t)).out[p] = "none"
    BY TaskShape DEF Inv, TypeOK, TestRules, NewResults
  <1>2. \A q \in Phase : Stage(q) \notin {"done", "panicked", "ready", "unspawned"}
    BY StageFacts DEF Stages
  <1>3. CASE UNCHANGED <<pc, results>>
    <2>1. /\ results'[t] = NewResults(RulesFor(t)) <=> results[t] = NewResults(RulesFor(t))
          /\ \A p \in Phase : Working(t, p)' <=> Working(t, p)
          /\ ShapeOf(t)' <=> ShapeOf(t)
      BY <1>3 DEF Working, ShapeOf
    <2>. QED
      BY <1>3, <2>1 DEF ProgressOf
  <1>4. CASE SkipTest(t)
    <2>1. pc'[t] = "done" /\ results'[t] = results[t] /\ results[t] = NewResults(RulesFor(t))
          /\ results[t].run <= Skip
      BY <1>4 DEF SkipTest, ProgressOf, Inv, TypeOK
    <2>2. results[t].ran_to = Skip /\ RulesFor(t).run = Skip
      BY <1>1, <2>1 DEF RunMode, Skip, Check
    <2>3. ShapeOf(t)'
      BY <1>1, <2>1, <2>2, StageFacts DEF ShapeOf, Skip
    <2>. QED
      BY <1>2, <2>1, <2>3 DEF ProgressOf
  <1>5. CASE SkipInactive(t)
    <2>1. /\ pc'[t] = "done" /\ results[t] = NewResults(RulesFor(t)) /\ results[t].run > Skip
          /\ results'[t] = [results[t] EXCEPT !.ran_to = Generate, !.out[Generate] = "skipped"]
      BY <1>5 DEF SkipInactive, ProgressOf, Inv, TypeOK
    <2>2. /\ results'[t].ran_to = Generate
          /\ results'[t].out = [results[t].out EXCEPT ![Generate] = "skipped"]
      BY <1>1, <2>1 DEF TestRunResults
    <2>3. results[t].out \in [Phase -> Outcome]
      BY <1>1 DEF TestRunResults
    <2>4. /\ results'[t].out[Generate] = "skipped"
          /\ \A q \in Phase : q > Generate => results'[t].out[q] = "none"
      BY <1>1, <2>1, <2>2, <2>3, StageFacts DEF Generate
    <2>5. Generate <= RulesFor(t).run
      BY <1>1, <2>1 DEF RunMode, Skip, Check, Generate
    <2>6. ShapeOf(t)'
      BY <2>2, <2>4, <2>5, StageFacts DEF ShapeOf, Generate
    <2>. QED
      BY <1>2, <2>1, <2>6 DEF ProgressOf
  <1>6. CASE StartGenerate(t)
    <2>1. /\ pc'[t] = "gen" /\ results[t] = NewResults(RulesFor(t)) /\ results[t].run > Skip
          /\ results'[t] = [results[t] EXCEPT !.ran_to = Generate]
      BY <1>6 DEF StartGenerate, ProgressOf, Inv, TypeOK
    <2>2. /\ results'[t].ran_to = Generate /\ results'[t].run = RulesFor(t).run
          /\ results'[t].out = results[t].out
      BY <1>1, <2>1 DEF TestRunResults
    <2>3. Generate <= RulesFor(t).run
      BY <1>1, <2>1 DEF RunMode, Skip, Check, Generate
    <2>4. \A q \in Phase : results'[t].out[q] = "none" /\ ~(q < Generate)
      BY <1>1, <2>1, <2>2, StageFacts DEF Generate
    <2>5. Working(t, Generate)' /\ ShapeOf(t)'
      BY <2>1, <2>2, <2>3, <2>4 DEF Working, ShapeOf
    <2>6. \A q \in Phase : pc'[t] = Stage(q) => q = Generate
      BY <2>1, StageFacts DEF Generate
    <2>. QED
      BY <2>1, <2>5, <2>6 DEF ProgressOf
  <1>7. CASE \E p \in Phase, r \in Outcome \ {"none"} : Graded(t, p, r)
    BY <1>7, GradedKeepsProgress
  <1>8. CASE pc[t] \in Stages /\ pc' = [pc EXCEPT ![t] = "panicked"] /\ results' = results
    <2>1. pc'[t] = "panicked" /\ results'[t] = results[t] /\ pc[t] # "done"
      BY <1>8 DEF Inv, TypeOK, Stages
    <2>2. ShapeOf(t)'
      BY <2>1 DEF ProgressOf, ShapeOf
    <2>. QED
      BY <1>2, <2>1, <2>2 DEF ProgressOf
  <1>. QED
    BY <1>3, <1>4, <1>5, <1>6, <1>7, <1>8, TaskStepKinds

LEMMA StepKeepsProgress ==
  ASSUME Inv, [Next]_vars, NEW u \in Tasks, ProgressOf(u)
  PROVE  ProgressOf(u)'
  <1>1. CASE UNCHANGED vars
    BY <1>1, KeptKeepsProgress DEF vars, taskVars, Kept
  <1>2. CASE Main
    <2>1. CASE pc'[u] = pc[u]
      BY <1>2, <2>1, MainKeeps, KeptKeepsProgress DEF Kept
    <2>2. CASE pc'[u] # pc[u]
      <3>1. pc[u] = "unspawned" /\ pc'[u] = "ready" /\ results'[u] = results[u]
        BY <1>2, <2>2, MainKeeps, SpawnsFresh
      <3>2. \A q \in Phase : Stage(q) # "ready"
        BY StageFacts DEF Stages
      <3>3. ShapeOf(u)'
        BY <3>1 DEF ProgressOf, ShapeOf
      <3>. QED
        BY <3>1, <3>2, <3>3 DEF ProgressOf
    <2>. QED
      BY <2>1, <2>2
  <1>3. ASSUME NEW t \in Tasks, DoTest(t) PROVE ProgressOf(u)'
    BY <1>3, OthersKept, KeptKeepsProgress, OwnStepKeepsProgress
  <1>. QED
    BY <1>1, <1>2, <1>3 DEF Next, Exit

LEMMA InitProgress ==
  ASSUME Init, NEW t \in Tasks
  PROVE  ProgressOf(t)
  <1>1. pc[t] = "unspawned" /\ results[t] = NewResults(RulesFor(t)) /\ RulesFor(t).run \in RunMode
    BY TaskShape DEF Init, TestRules
  <1>2. \A q \in Phase : Stage(q) # "unspawned"
    BY StageFacts DEF Stages
  <1>3. ShapeOf(t)
    BY <1>1, StageFacts DEF ShapeOf, NewResults, RunMode, Skip, Check
  <1>. QED
    BY <1>1, <1>2, <1>3 DEF ProgressOf

LEMMA ProgressInvariance == Spec => [](Progress /\ PipelineShape)
  <1>1. Init => Progress /\ PipelineShape
    BY InitProgress, ProgressParts
  <1>2. Inv /\ Progress /\ PipelineShape /\ [Next]_vars => (Progress /\ PipelineShape)'
    <2>. SUFFICES ASSUME Inv, Progress, PipelineShape, [Next]_vars
                  PROVE  (Progress /\ PipelineShape)'
      OBVIOUS
    <2>1. \A t \in Tasks : ProgressOf(t)'
      BY ProgressParts, StepKeepsProgress
    <2>2. (Progress /\ PipelineShape)' <=> (\A t \in Tasks : ProgressOf(t)')
      BY DEF Progress, PipelineShape, ProgressOf, ShapeOf
    <2>. QED
      BY <2>1, <2>2
  <1>. QED
    BY <1>1, <1>2, Invariance, PTL DEF Spec

(* Whatever the tools answer, a test stops where its rules say or at its   *)
(* first failure, with results for exactly the phases it went through.     *)
THEOREM PipelineInvariance == Spec => []PipelineShape
  BY ProgressInvariance, PTL

-----------------------------------------------------------------------------
(* The cells that a task has passed have their values. *)
Has(t, s, kind) == CellOf(KeyOf(t), s, kind) \in full

PassedOf(t) ==
  /\ pc[t] \in Stages => KeyOf(t) \notin Inactive
  /\ \A s \in Sides :
       /\ pc[t] = "gen" => /\ at[t][s] \in {"tc", "src", "ready"} => Has(t, s, "vals")
                           /\ at[t][s] \in {"src", "ready"} => Has(t, s, "tc")
                           /\ at[t][s] = "ready" => Has(t, s, "src")
       /\ pc[t] \in Stages \ {"gen"} =>
            Has(t, s, "vals") /\ Has(t, s, "tc") /\ Has(t, s, "src")
       /\ pc[t] = "build" /\ at[t][s] = "ready" => Has(t, s, "lib")
       /\ pc[t] \in Stages \ {"gen", "build"} => Has(t, s, "lib")

Passed == \A t \in Tasks : PassedOf(t)

(* A value in a cell is one that its initializer may give. *)
MadeWell ==
  \A c \in full : /\ c[1] # "lib" => "ok" \in GenFate(c)
                  /\ c[1] = "lib" => "ok" \in BuildFate(c[2])

LEMMA FullGrows ==
  ASSUME [Next]_vars
  PROVE  full \subseteq full'
  <1>1. ASSUME NEW t \in Tasks, DoTest(t) PROVE full \subseteq full'
    BY <1>1 DEF DoTest, SkipTest, SkipInactive, StartGenerate, Reuse, Claim, Produce,
                GenerateFails, Generated, Acquire, Compiled, CompileFails, Built, LinkBin,
                RunBin, CheckTest, Panic
  <1>. QED
    BY <1>1, MainKeeps DEF Next, Exit, vars, taskVars

LEMMA AdvanceKeepsPassed ==
  ASSUME Inv, NEW t \in Tasks, NEW s \in Sides, PassedOf(t), at[t][s] \in Kinds,
         at' = [at EXCEPT ![t] = After(t, s)], pc' = pc,
         full \subseteq full', Cell(t, s) \in full'
  PROVE  PassedOf(t)'
  <1>1. /\ pc[t] \in {"gen", "build"}
        /\ pc[t] = "gen" => at[t][s] \in GenKinds
        /\ pc[t] = "build" => at[t][s] = "lib"
    BY AtCell DEF Inv
  <1>2. /\ at'[t] = After(t, s) /\ at[t] \in [Sides -> Kinds \cup {"idle", "ready"}]
        /\ pc'[t] = pc[t]
    BY DEF Inv, TypeOK
  <1>3. \A kind \in Kinds : kind = at[t][s] => Has(t, s, kind)'
    BY DEF Has, Cell
  <1>4. \A x \in Sides, kind \in Kinds : Has(t, x, kind) => Has(t, x, kind)'
    BY DEF Has
  <1>5. CASE pc[t] = "gen"
    <2>1. \/ at[t][s] = "vals" /\ at'[t] = [at[t] EXCEPT ![s] = "tc"]
          \/ at[t][s] = "tc" /\ at'[t] = [at[t] EXCEPT ![s] = "src"]
          \/ at[t][s] = "src" /\ at'[t] = [at[t] EXCEPT ![s] = "ready"]
      BY <1>1, <1>2, <1>5 DEF After, GenKinds
    <2>2. \A x \in Sides : x # s => at'[t][x] = at[t][x]
      BY <1>2, <2>1
    <2>3. at'[t][s] = IF at[t][s] = "vals" THEN "tc" ELSE IF at[t][s] = "tc" THEN "src" ELSE "ready"
      BY <1>2, <2>1
    <2>4. \A x \in Sides :
            /\ at'[t][x] \in {"tc", "src", "ready"} => Has(t, x, "vals")'
            /\ at'[t][x] \in {"src", "ready"} => Has(t, x, "tc")'
            /\ at'[t][x] = "ready" => Has(t, x, "src")'
      BY <1>3, <1>4, <1>5, <2>1, <2>2, <2>3 DEF PassedOf, Kinds, GenKinds
    <2>. QED
      BY <1>2, <1>5, <2>4 DEF PassedOf, Stages
  <1>6. CASE pc[t] = "build"
    <2>1. \/ s = "caller" /\ at'[t] = [caller |-> "ready", callee |-> "lib"]
          \/ s = "callee" /\ at'[t] = [at[t] EXCEPT ![s] = "ready"]
      BY <1>1, <1>2, <1>6 DEF After, Sides
    <2>2. Has(t, s, "lib")'
      BY <1>1, <1>3, <1>6 DEF Kinds
    <2>3. \A x \in Sides : at'[t][x] = "ready" => x = s \/ at[t][x] = "ready"
      BY <1>2, <2>1 DEF Sides
    <2>. QED
      BY <1>2, <1>4, <1>6, <2>2, <2>3 DEF PassedOf, Kinds, GenKinds, Stages
  <1>. QED
    BY <1>1, <1>5, <1>6

(* A task that moves on to q, or stops, has what q needs. *)
LEMMA RecordNext ==
  ASSUME Inv, NEW t \in Tasks, NEW p \in Phase, NEW r, Record(t, p, r)
  PROVE  pc'[t] = "done" \/ (p < 5 /\ pc'[t] = Stage(p + 1))
  <1>1. results[t].run \in RunMode
    BY DEF Inv, TypeOK, TestRunResults
  <1>2. GoesOn(t, p, r) => p < 5
    BY <1>1, StageFacts DEF GoesOn, RunMode, Skip, Check
  <1>3. pc'[t] = IF GoesOn(t, p, r) THEN StageAfter(p) ELSE "done"
    BY DEF Record, Inv, TypeOK
  <1>. QED
    BY <1>2, <1>3, StageFacts

LEMMA RestKeepsPassed ==
  ASSUME NEW t \in Tasks, pc'[t] \notin Stages
  PROVE  PassedOf(t)'
  BY DEF PassedOf, Stages

LEMMA OwnStepKeepsPassed ==
  ASSUME Inv, NEW t \in Tasks, PassedOf(t), DoTest(t), full \subseteq full'
  PROVE  PassedOf(t)'
  <1>1. \A x \in Sides, kind \in Kinds : Has(t, x, kind) => Has(t, x, kind)'
    BY DEF Has
  <1>2. ASSUME NEW s \in Sides, Reuse(t, s) \/ Produce(t, s) \/ Compiled(t, s)
        PROVE  PassedOf(t)'
    <2>1. at[t][s] \in Kinds /\ at' = [at EXCEPT ![t] = After(t, s)] /\ pc' = pc
          /\ Cell(t, s) \in full'
      BY <1>2 DEF Reuse, Produce, Compiled, Inv, HoldersPlaced
    <2>. QED
      BY <2>1, AdvanceKeepsPassed
  <1>3. CASE Acquire(t) \/ \E s \in Sides : Claim(t, s)
    <2>1. UNCHANGED <<pc, at>>
      BY <1>3 DEF Acquire, Claim
    <2>. QED
      BY <1>1, <2>1 DEF PassedOf, Kinds, GenKinds
  <1>4. CASE SkipTest(t) \/ SkipInactive(t) \/ Panic(t)
    BY <1>4, RestKeepsPassed DEF SkipTest, SkipInactive, Panic, Inv, TypeOK, Stages
  <1>5. CASE StartGenerate(t)
    <2>1. pc'[t] = "gen" /\ KeyOf(t) \notin Inactive /\ \A s \in Sides : at'[t][s] = "vals"
      BY <1>5 DEF StartGenerate, Inv, TypeOK
    <2>. QED
      BY <2>1 DEF PassedOf
  <1>6. CASE \E s \in Sides : GenerateFails(t, s) \/ CompileFails(t, s)
    <2>1. PICK s \in Sides : GenerateFails(t, s) \/ CompileFails(t, s)
      BY <1>6
    <2>2. CompileFails(t, s) => pc'[t] = "done"
      BY DEF CompileFails, Record, GoesOn, Inv, TypeOK
    <2>3. GenerateFails(t, s) => pc'[t] = "done"
      BY DEF GenerateFails, Record, GoesOn, Inv, TypeOK
    <2>. QED
      BY <2>1, <2>2, <2>3, RestKeepsPassed DEF Stages
  <1>7. CASE Generated(t)
    <2>1. /\ pc[t] = "gen" /\ \A s \in Sides : at[t][s] = "ready"
          /\ at' = [at EXCEPT ![t] =
               IF results[t].run > Generate THEN [caller |-> "lib", callee |-> "idle"] ELSE Idle]
      BY <1>7 DEF Generated, SidesReady
    <2>2. pc'[t] \in {"done", "build"}
      BY <1>7, RecordNext, StageFacts DEF Generated, Generate
    <2>3. \A s \in Sides : at'[t][s] # "ready"
      BY <2>1 DEF Inv, TypeOK, Idle, Sides
    <2>4. KeyOf(t) \notin Inactive /\ \A s \in Sides : Has(t, s, "vals")' /\ Has(t, s, "tc")' /\ Has(t, s, "src")'
      BY <2>1, <1>1 DEF PassedOf, Stages, Kinds, GenKinds
    <2>. QED
      BY <2>2, <2>3, <2>4 DEF PassedOf, Stages
  <1>8. CASE Built(t) \/ LinkBin(t) \/ RunBin(t) \/ CheckTest(t)
    <2>1. pc[t] \in Stages \ {"gen"} /\ (pc[t] = "build" => \A s \in Sides : at[t][s] = "ready")
      BY <1>8 DEF Built, SidesReady, LinkBin, RunBin, CheckTest, Stages
    <2>2. pc'[t] \in {"done", "link", "run", "check"}
      BY <1>8, RecordNext, StageFacts
         DEF Built, LinkBin, RunBin, CheckTest, Build, Link, Run, Check
    <2>3. KeyOf(t) \notin Inactive /\ \A s \in Sides : Has(t, s, "vals")' /\ Has(t, s, "tc")'
                                                      /\ Has(t, s, "src")' /\ Has(t, s, "lib")'
      BY <2>1, <1>1 DEF PassedOf, Stages, Kinds, GenKinds
    <2>. QED
      BY <2>2, <2>3 DEF PassedOf, Stages
  <1>. QED
    BY <1>2, <1>3, <1>4, <1>5, <1>6, <1>7, <1>8 DEF DoTest

LEMMA StepKeepsPassed ==
  ASSUME Inv, [Next]_vars, NEW u \in Tasks, PassedOf(u)
  PROVE  PassedOf(u)'
  <1>1. full \subseteq full'
    BY FullGrows
  <1>2. ASSUME pc'[u] = pc[u], at'[u] = at[u] PROVE PassedOf(u)'
    <2>1. \A x \in Sides, kind \in Kinds : Has(u, x, kind) => Has(u, x, kind)'
      BY <1>1 DEF Has
    <2>. QED
      BY <1>2, <2>1 DEF PassedOf, Kinds, GenKinds
  <1>3. CASE Main
    <2>1. CASE pc'[u] # pc[u]
      BY <1>3, <2>1, SpawnsFresh, RestKeepsPassed DEF Stages
    <2>. QED
      BY <1>2, <1>3, <2>1, MainKeeps
  <1>4. ASSUME NEW t \in Tasks, DoTest(t) PROVE PassedOf(u)'
    <2>1. CASE u = t
      BY <1>1, <1>4, <2>1, OwnStepKeepsPassed
    <2>2. CASE u # t
      BY <1>2, <1>4, <2>2, OthersKept DEF Kept
    <2>. QED
      BY <2>1, <2>2
  <1>. QED
    BY <1>2, <1>3, <1>4 DEF Next, Exit, vars, taskVars

LEMMA StepKeepsMadeWell ==
  ASSUME Inv, [Next]_vars, MadeWell
  PROVE  MadeWell'
  <1>1. ASSUME NEW t \in Tasks, NEW s \in Sides, Produce(t, s)
        PROVE  MadeWell'
    <2>1. at[t][s] \in GenKinds
      BY <1>1, AtCell DEF Produce, Inv, HoldersPlaced
    <2>2. Cell(t, s)[1] # "lib" /\ "ok" \in GenFate(Cell(t, s))
      BY <1>1, <2>1 DEF Produce, Cell, CellOf, GenKinds
    <2>. QED
      BY <1>1, <2>2 DEF Produce, MadeWell
  <1>2. ASSUME NEW t \in Tasks, NEW s \in Sides, Compiled(t, s)
        PROVE  MadeWell'
    <2>1. at[t][s] = "lib"
      BY <1>2, AtCell DEF Compiled, Inv, HoldersPlaced
    <2>2. Cell(t, s) = <<"lib", Unit(KeyOf(t), s)>> /\ "ok" \in BuildFate(Unit(KeyOf(t), s))
      BY <1>2, <2>1 DEF Compiled, Cell, CellOf
    <2>. QED
      BY <1>2, <2>2 DEF Compiled, MadeWell
  <1>3. CASE full' = full
    BY <1>3 DEF MadeWell
  <1>4. ASSUME NEW t \in Tasks, DoTest(t),
               ~ \E s \in Sides : Produce(t, s) \/ Compiled(t, s)
        PROVE  full' = full
    BY <1>4 DEF DoTest, SkipTest, SkipInactive, StartGenerate, Reuse, Claim, GenerateFails,
                Generated, Acquire, CompileFails, Built, LinkBin, RunBin, CheckTest, Panic
  <1>. QED
    BY <1>1, <1>2, <1>3, <1>4, MainKeeps DEF Next, Exit, vars, taskVars

LEMMA CellInvariance == Spec => [](Passed /\ MadeWell)
  <1>1. Init => Passed /\ MadeWell
    <2>. SUFFICES ASSUME Init PROVE Passed /\ MadeWell
      OBVIOUS
    <2>1. \A t \in Tasks : pc[t] = "unspawned"
      BY DEF Init
    <2>. QED
      BY <2>1 DEF Init, Passed, PassedOf, MadeWell, Stages
  <1>2. Inv /\ Passed /\ MadeWell /\ [Next]_vars => (Passed /\ MadeWell)'
    BY StepKeepsPassed, StepKeepsMadeWell DEF Passed
  <1>. QED
    BY <1>1, <1>2, Invariance, PTL DEF Spec

(* A compiler or linker never reads what another task is still writing,    *)
(* and check_test always finds the values it expects to be there.          *)
THEOREM InputsSettled == Spec => []SettledInputs
  <1>1. Inv /\ Passed => SettledInputs
    <2>1. Inv => full \cap taken = {}
      BY DEF Inv, OneInitializer
    <2>. QED
      BY <2>1 DEF Passed, PassedOf, Has, SettledInputs, Stages
  <1>. QED
    BY <1>1, Invariance, CellInvariance, PTL

-----------------------------------------------------------------------------
(* The results that a step of a task may add are those of its key alone.   *)
Alone(t) == \A p \in Phase : results[t].out[p] # "none" => results[t].out[p] \in PhaseFate(KeyOf(t), p)

LEMMA FatesByPhase ==
  ASSUME NEW k
  PROVE  /\ k \in Inactive => "skipped" \in PhaseFate(k, Generate)
         /\ k \notin Inactive =>
              PhaseFate(k, Generate) = (UNION {SideFate(k, s) \ {"ok"} : s \in Sides})
                                       \cup (SideFate(k, "caller") \cap SideFate(k, "callee"))
         /\ (\A s \in Sides : "ok" \in BuildFate(Unit(k, s))) => "ok" \in PhaseFate(k, Build)
         /\ (\E s \in Sides : BuildFate(Unit(k, s)) # {"ok"}) => "err" \in PhaseFate(k, Build)
         /\ PhaseFate(k, Link) = LinkFate(k)
         /\ PhaseFate(k, Run) = RunFate(k)
         /\ PhaseFate(k, Check) = {IF b = {} THEN "ok" ELSE "err" : b \in CheckFate(k)}
  BY DEF PhaseFate, Generate, Build, Link, Run, Check

LEMMA GenerateFate ==
  ASSUME Inv, Passed, MadeWell, NEW t \in Tasks, NEW s \in Sides, GenerateFails(t, s)
  PROVE  \E r \in PhaseFate(KeyOf(t), Generate) : Record(t, Generate, r)
  <1>1. pc[t] = "gen" /\ at[t][s] \in GenKinds /\ KeyOf(t) \notin Inactive
    BY AtCell DEF GenerateFails, Inv, HoldersPlaced, Passed, PassedOf, Stages
  <1>2. PICK e \in GenFate(Cell(t, s)) \ {"ok"} : Record(t, Generate, e)
    BY DEF GenerateFails
  <1>. DEFINE may(kind) == GenFate(CellOf(KeyOf(t), s, kind))
  <1>3. ASSUME NEW kind \in {"vals", "tc"}, Has(t, s, kind) PROVE "ok" \in may(kind)
    <2>1. CellOf(KeyOf(t), s, kind)[1] # "lib"
      BY DEF CellOf
    <2>. QED
      BY <1>3, <2>1 DEF Has, MadeWell
  <1>4. e \in SideFate(KeyOf(t), s)
    <2>1. CASE at[t][s] = "vals"
      BY <1>2, <2>1 DEF Cell, SideFate
    <2>2. CASE at[t][s] = "tc"
      <3>1. "ok" \in may("vals")
        BY <1>1, <1>3, <2>2 DEF Passed, PassedOf
      <3>. QED
        BY <1>2, <2>2, <3>1 DEF Cell, SideFate
    <2>3. CASE at[t][s] = "src"
      <3>1. "ok" \in may("vals") \cap may("tc")
        BY <1>1, <1>3, <2>3 DEF Passed, PassedOf
      <3>. QED
        BY <1>2, <2>3, <3>1 DEF Cell, SideFate
    <2>. QED
      BY <1>1, <2>1, <2>2, <2>3 DEF GenKinds
  <1>5. e \in PhaseFate(KeyOf(t), Generate)
    BY <1>1, <1>2, <1>4, FatesByPhase
  <1>. QED
    BY <1>2, <1>5

LEMMA GeneratedFate ==
  ASSUME Inv, Passed, MadeWell, NEW t \in Tasks, Generated(t)
  PROVE  "ok" \in PhaseFate(KeyOf(t), Generate)
  <1>1. KeyOf(t) \notin Inactive /\ \A s \in Sides : Has(t, s, "vals") /\ Has(t, s, "tc") /\ Has(t, s, "src")
    BY DEF Generated, SidesReady, Passed, PassedOf, Stages
  <1>2. ASSUME NEW s \in Sides PROVE "ok" \in SideFate(KeyOf(t), s)
    <2>1. \A kind \in GenKinds : CellOf(KeyOf(t), s, kind)[1] # "lib"
      BY DEF CellOf, GenKinds
    <2>2. \A kind \in GenKinds : "ok" \in GenFate(CellOf(KeyOf(t), s, kind))
      BY <1>1, <2>1 DEF Has, MadeWell, GenKinds
    <2>. QED
      BY <2>2 DEF SideFate, GenKinds
  <1>. QED
    BY <1>1, <1>2, FatesByPhase DEF Sides

LEMMA BuildFates ==
  ASSUME Inv, Passed, MadeWell, NEW t \in Tasks
  PROVE  /\ Built(t) => "ok" \in PhaseFate(KeyOf(t), Build)
         /\ \A s \in Sides : CompileFails(t, s) => "err" \in PhaseFate(KeyOf(t), Build)
  <1>2. ASSUME Built(t), NEW s \in Sides PROVE "ok" \in BuildFate(Unit(KeyOf(t), s))
    <2>1. <<"lib", Unit(KeyOf(t), s)>> \in full
      BY <1>2 DEF Built, SidesReady, Passed, PassedOf, Has, CellOf
    <2>. QED
      BY <2>1 DEF MadeWell
  <1>3. ASSUME NEW s \in Sides, CompileFails(t, s) PROVE BuildFate(Unit(KeyOf(t), s)) # {"ok"}
    BY <1>3 DEF CompileFails
  <1>. QED
    BY <1>2, <1>3, FatesByPhase

LEMMA StepsAlone ==
  ASSUME Inv, Passed, MadeWell, NEW t \in Tasks, DoTest(t)
  PROVE  \/ results'[t].out = results[t].out
         \/ \E p \in Phase : \E r \in PhaseFate(KeyOf(t), p) :
              results'[t].out = [results[t].out EXCEPT ![p] = r]
  <1>. DEFINE Goal == \/ results'[t].out = results[t].out
                      \/ \E p \in Phase : \E r \in PhaseFate(KeyOf(t), p) :
                           results'[t].out = [results[t].out EXCEPT ![p] = r]
  <1>. SUFFICES Goal
    OBVIOUS
  <1>1. results[t] \in TestRunResults
    BY DEF Inv, TypeOK
  <1>2. ASSUME NEW p \in Phase, NEW r \in PhaseFate(KeyOf(t), p), Record(t, p, r)
        PROVE  Goal
    <2>1. results'[t] = Recorded(t, p, r)
      BY <1>2 DEF Record, Inv, TypeOK
    <2>2. results'[t].out = [results[t].out EXCEPT ![p] = r]
      BY <1>1, <2>1 DEF Recorded, TestRunResults
    <2>. QED
      BY <2>2
  <1>3. /\ Generate \in Phase /\ Build \in Phase /\ Link \in Phase
        /\ Run \in Phase /\ Check \in Phase
    BY DEF Phase, Generate, Build, Link, Run, Check
  <1>4. CASE UNCHANGED results
    BY <1>4
  <1>5. CASE SkipInactive(t)
    <2>1. results'[t] = [results[t] EXCEPT !.ran_to = Generate, !.out[Generate] = "skipped"]
      BY <1>5 DEF SkipInactive, Inv, TypeOK
    <2>2. results'[t].out = [results[t].out EXCEPT ![Generate] = "skipped"]
      BY <1>1, <2>1 DEF TestRunResults
    <2>3. "skipped" \in PhaseFate(KeyOf(t), Generate)
      BY <1>5, FatesByPhase DEF SkipInactive
    <2>. QED
      BY <1>3, <2>2, <2>3
  <1>6. CASE StartGenerate(t)
    <2>1. results'[t] = [results[t] EXCEPT !.ran_to = Generate]
      BY <1>6 DEF StartGenerate, Inv, TypeOK
    <2>2. results'[t].out = results[t].out
      BY <1>1, <2>1 DEF TestRunResults
    <2>. QED
      BY <2>2
  <1>. HIDE DEF Goal
  <1>7. (\E s \in Sides : GenerateFails(t, s)) \/ Generated(t) => Goal
    BY <1>2, <1>3, GenerateFate, GeneratedFate DEF Generated
  <1>8. (\E s \in Sides : CompileFails(t, s)) \/ Built(t) => Goal
    BY <1>2, <1>3, BuildFates DEF Built, CompileFails
  <1>9. LinkBin(t) \/ RunBin(t) \/ CheckTest(t) => Goal
    BY <1>2, <1>3, FatesByPhase DEF LinkBin, RunBin, CheckTest
  <1>10. ASSUME NEW s \in Sides, Reuse(t, s) \/ Claim(t, s) \/ Produce(t, s) \/ Compiled(t, s)
         PROVE  Goal
    BY <1>4, <1>10 DEF Reuse, Claim, Produce, Compiled
  <1>11. SkipTest(t) \/ Acquire(t) \/ Panic(t) => Goal
    BY <1>4 DEF SkipTest, Acquire, Panic
  <1>. QED
    BY <1>5, <1>6, <1>7, <1>8, <1>9, <1>10, <1>11 DEF DoTest

LEMMA StepKeepsAlone ==
  ASSUME Inv, Passed, MadeWell, [Next]_vars, NEW u \in Tasks, Alone(u)
  PROVE  Alone(u)'
  <1>1. CASE results'[u].out = results[u].out
    BY <1>1 DEF Alone
  <1>2. ASSUME NEW p \in Phase, NEW r \in PhaseFate(KeyOf(u), p),
               results'[u].out = [results[u].out EXCEPT ![p] = r]
        PROVE  Alone(u)'
    <2>1. results[u].out \in [Phase -> Outcome]
      BY DEF Inv, TypeOK, TestRunResults
    <2>. QED
      BY <1>2, <2>1 DEF Alone
  <1>3. ASSUME NEW t \in Tasks, DoTest(t), t # u PROVE results'[u] = results[u]
    BY <1>3, OthersKept DEF Kept
  <1>4. UNCHANGED vars \/ Main => results' = results
    BY MainKeeps DEF vars, taskVars
  <1>. QED
    BY <1>1, <1>2, <1>3, <1>4, StepsAlone DEF Next, Exit

(* However many tests share the cells, in whatever order they come, fail   *)
(* or panic: what a test gets in a phase is what its key alone may get.    *)
THEOREM ResultsAsIfAlone == Spec => []AsIfAlone
  <1>1. AsIfAlone <=> \A t \in Tasks : Alone(t)
    BY DEF AsIfAlone, Alone
  <1>2. Init => AsIfAlone
    <2>. SUFFICES ASSUME Init, NEW t \in Tasks PROVE Alone(t)
      BY <1>1
    <2>1. results[t] = NewResults(RulesFor(t))
      BY DEF Init
    <2>. QED
      BY <2>1 DEF Alone, NewResults
  <1>3. Inv /\ Passed /\ MadeWell /\ AsIfAlone /\ [Next]_vars => AsIfAlone'
    <2>1. AsIfAlone' <=> \A t \in Tasks : Alone(t)'
      BY DEF AsIfAlone, Alone
    <2>. QED
      BY <1>1, <2>1, StepKeepsAlone
  <1>. QED
    BY <1>2, <1>3, Invariance, CellInvariance, PTL DEF Spec

-----------------------------------------------------------------------------
(* The copies in an archive.                                               *)
Errors(u) == {t \in Tasks : /\ results[t].out[Build] = "err"
                            /\ \E s \in Sides : u = Unit(KeyOf(t), s)}
Made(u) == IF <<"lib", u>> \in full THEN 1 ELSE 0

LEMMA TasksFinite == IsFiniteSet(Tasks)
  <1>1. IsFiniteSet(DOMAIN Plan) /\ IsFiniteSet({0}) /\ IsFiniteSet(Subtests)
    <2>1. 1 \in Int /\ Len(Plan) \in Int
      BY PlanAssumption
    <2>2. IsFiniteSet(1 .. Len(Plan))
      BY <2>1, FS_Interval
    <2>. QED
      BY <2>2, PlanAssumption, FS_Singleton
  <1>2. IsFiniteSet((DOMAIN Plan) \X {0}) /\ IsFiniteSet((DOMAIN Plan) \X Subtests)
    BY <1>1, FS_Product
  <1>. QED
    BY <1>2, FS_Union DEF Tasks, Originals, Minimals

LEMMA ErrorsFinite ==
  ASSUME NEW u
  PROVE  IsFiniteSet(Errors(u)) /\ Cardinality(Errors(u)) \in Nat
  BY TasksFinite, FS_Subset, FS_CardinalityType DEF Errors

(* A build error is where a test ends. *)
LEMMA ErrorsEnd ==
  ASSUME Inv, Progress, NEW t \in Tasks, results[t].out[Build] = "err"
  PROVE  pc[t] \in {"done", "panicked"}
  <1>1. Build \in Phase /\ "ok" # "err" /\ "none" # "err"
    BY DEF Phase, Generate, Build, Check
  <1>2. pc[t] \notin {"unspawned", "ready"}
    <2>1. NewResults(RulesFor(t)).out[Build] = "none"
      BY <1>1 DEF NewResults
    <2>. QED
      BY <2>1 DEF Progress
  <1>3. \A p \in Phase : pc[t] # Stage(p)
    BY <1>1 DEF Progress, Working
  <1>4. pc[t] \notin Stages
    BY <1>3, StageFacts DEF Stages
  <1>. QED
    BY <1>2, <1>4 DEF Inv, TypeOK, Stages

LEMMA ErrorsGrow ==
  ASSUME Inv, Progress, [Next]_vars, NEW u
  PROVE  /\ Errors(u) \subseteq Errors(u)'
         /\ Cardinality(Errors(u)) <= Cardinality(Errors(u)')
  <1>1. Errors(u) \subseteq Errors(u)'
    BY ErrorsEnd, StepKeepsEnds DEF Errors, Kept
  <1>2. IsFiniteSet(Errors(u)')
    BY TasksFinite, FS_Subset DEF Errors
  <1>. QED
    BY <1>1, <1>2, FS_Subset

LEMMA StepKeepsCopies ==
  ASSUME Inv, Progress, CopiesAccountedFor, [Next]_vars, NEW u \in Units
  PROVE  archive'[u] <= Made(u)' + Cardinality(Errors(u)')
  <1>1. archive[u] <= Made(u) + Cardinality(Errors(u))
    BY DEF CopiesAccountedFor, Made, Errors
  <1>2. /\ archive \in [Units -> Nat]
        /\ Cardinality(Errors(u)) \in Nat /\ Made(u) \in Nat /\ Made(u)' \in Nat
        /\ Cardinality(Errors(u)) <= Cardinality(Errors(u)') /\ Cardinality(Errors(u)') \in Nat
    <2>1. IsFiniteSet(Errors(u)')
      BY TasksFinite, FS_Subset DEF Errors
    <2>. QED
      BY <2>1, ErrorsFinite, ErrorsGrow, FS_CardinalityType DEF Made, Inv, TypeOK
  <1>3. Made(u) <= Made(u)'
    BY FullGrows DEF Made
  <1>4. CASE archive'[u] = archive[u]
    BY <1>1, <1>2, <1>3, <1>4
  <1>5. ASSUME NEW t \in Tasks, NEW s \in Sides, Compiled(t, s), u = Unit(KeyOf(t), s)
        PROVE  archive'[u] <= Made(u)' + Cardinality(Errors(u)')
    <2>1. <<"lib", u>> \notin full
      BY <1>5, HolderOfLib DEF Compiled
    <2>2. at[t][s] = "lib"
      BY <1>5, AtCell DEF Compiled, Inv, HoldersPlaced
    <2>3. <<"lib", u>> \in full'
      BY <1>5, <2>2 DEF Compiled, Cell, CellOf
    <2>4. archive'[u] = archive[u] + 1
      BY <1>2, <1>5 DEF Compiled
    <2>5. Made(u) = 0 /\ Made(u)' = 1
      BY <2>1, <2>3 DEF Made
    <2>. QED
      BY <1>1, <1>2, <2>4, <2>5
  <1>6. ASSUME NEW t \in Tasks, NEW s \in Sides, CompileFails(t, s), u = Unit(KeyOf(t), s)
        PROVE  archive'[u] <= Made(u)' + Cardinality(Errors(u)')
    <2>1. archive'[u] <= archive[u] + 1
      BY <1>2, <1>6 DEF CompileFails
    <2>2. t \notin Errors(u)
      BY <1>6, ErrorsEnd DEF CompileFails, Errors
    <2>3. t \in Errors(u)'
      <3>1. results'[t] = Recorded(t, Build, "err") /\ results[t] \in TestRunResults
        BY <1>6 DEF CompileFails, Record, Inv, TypeOK
      <3>2. results'[t].out[Build] = "err"
        BY <3>1 DEF Recorded, TestRunResults, Phase, Generate, Build, Check
      <3>3. \E x \in Sides : u = Unit(KeyOf(t), x)
        BY <1>6
      <3>. QED
        BY <3>2, <3>3 DEF Errors
    <2>4. Cardinality(Errors(u)) + 1 <= Cardinality(Errors(u)')
      <3>1. Errors(u) \cup {t} \in SUBSET Errors(u)'
        BY <2>3, ErrorsGrow
      <3>2. Cardinality(Errors(u) \cup {t}) = Cardinality(Errors(u)) + 1
        BY <2>2, ErrorsFinite, FS_AddElement
      <3>3. IsFiniteSet(Errors(u)')
        BY TasksFinite, FS_Subset DEF Errors
      <3>. QED
        BY <3>1, <3>2, <3>3, FS_Subset
    <2>5. archive'[u] \in Int
      BY <1>2, <1>6 DEF CompileFails
    <2>. QED
      BY <1>1, <1>2, <1>3, <2>1, <2>4, <2>5
  <1>7. ASSUME NEW t \in Tasks, NEW s \in Sides, Compiled(t, s) \/ CompileFails(t, s),
               u # Unit(KeyOf(t), s)
        PROVE  archive'[u] = archive[u]
    BY <1>2, <1>7 DEF Compiled, CompileFails
  <1>8. ASSUME NEW t \in Tasks, DoTest(t),
               ~ \E s \in Sides : Compiled(t, s) \/ CompileFails(t, s)
        PROVE  archive' = archive
    BY <1>8 DEF DoTest, SkipTest, SkipInactive, StartGenerate, Reuse, Claim, Produce,
                GenerateFails, Generated, Acquire, Built, LinkBin, RunBin, CheckTest, Panic
  <1>9. ASSUME NEW t \in Tasks, DoTest(t)
        PROVE  archive'[u] <= Made(u)' + Cardinality(Errors(u)')
    BY <1>4, <1>5, <1>6, <1>7, <1>8, <1>9
  <1>10. UNCHANGED vars \/ Main => archive' = archive
    BY MainKeeps DEF vars, taskVars
  <1>. QED
    BY <1>4, <1>9, <1>10 DEF Next, Exit

(* However often a library is tried, an archive holds at most the object   *)
(* that its cell stands for and one for each test that reported an error.  *)
THEOREM CopiesAreAccountedFor == Spec => []CopiesAccountedFor
  <1>1. Init => CopiesAccountedFor
    <2>. SUFFICES ASSUME Init, NEW u \in Units
                  PROVE  archive[u] <= Made(u) + Cardinality(Errors(u))
      BY DEF CopiesAccountedFor, Made, Errors
    <2>. QED
      BY ErrorsFinite DEF Init, Made
  <1>2. Inv /\ Progress /\ CopiesAccountedFor /\ [Next]_vars => CopiesAccountedFor'
    <2>. SUFFICES ASSUME Inv, Progress, CopiesAccountedFor, [Next]_vars
                  PROVE  \A u \in Units : archive'[u] <= Made(u)' + Cardinality(Errors(u)')
      BY DEF CopiesAccountedFor, Made, Errors
    <2>. QED
      BY StepKeepsCopies
  <1>. QED
    BY <1>1, <1>2, Invariance, ProgressInvariance, PTL DEF Spec

-----------------------------------------------------------------------------
(* What main knows of the tasks it has joined. *)
Settled(t) == pc[t] = "done" /\ report[t[1]] = Conclude(results[t], RulesFor(t).check)

JoinedFirst ==
  /\ main \in {"spawn", "join"} => minimized = {}
  /\ main = "join" => unjoined \subseteq Originals
  /\ main = "join" => \A t \in Originals \ unjoined : Settled(t)
  /\ main \in {"minimize", "passed", "failed"} => \A t \in Originals : Settled(t)
  /\ main = "passed" => ~Failed /\ minimized = {}
  /\ main \in {"spawn", "join", "passed"} => \A t \in Minimals : pc[t] = "unspawned"

JoinedThen ==
  main \in {"minimize", "failed"} =>
    /\ Failed
    /\ unjoined \subseteq Failures
    /\ \A t \in Minimals \ Failures : pc[t] = "unspawned"
    /\ \A t \in Failures \ unjoined : pc[t] = "done"
    /\ minimized = {t \in Failures \ unjoined : results[t].out[Generate] = "ok"}

Joined == JoinedFirst /\ JoinedThen /\ (main \in {"passed", "failed"} => unjoined = {})

(* A task that is at rest stays so while others work. *)
LEMMA RestIsKept ==
  ASSUME Inv, NEW t \in Tasks, DoTest(t), NEW u \in Tasks,
         pc[u] \in {"unspawned", "done", "panicked"}
  PROVE  Kept(u)
  BY AtRest, OthersKept

LEMMA FailuresShape ==
  /\ Failures \subseteq Minimals
  /\ \A t \in Minimals : <<t[1], 0>> \in Originals
  /\ \A t \in Originals : t = <<t[1], 0>>
  BY DEF Failures, Minimals, Originals

LEMMA TaskStepKeepsJoined ==
  ASSUME Inv, Joined, NEW t \in Tasks, DoTest(t)
  PROVE  Joined'
  <1>1. UNCHANGED mainVars
    BY DEF DoTest
  <1>2. Originals \subseteq Tasks /\ Minimals \subseteq Tasks
    BY DEF Tasks
  <1>3. \A u \in Tasks : Settled(u) => Settled(u)' /\ bad'[u] = bad[u]
    BY <1>1, RestIsKept DEF Settled, Kept, mainVars
  <1>4. JoinedFirst'
    BY <1>1, <1>2, <1>3, RestIsKept DEF Joined, JoinedFirst, mainVars, Failed, Kept
  <1>5. JoinedThen'
    <2>. SUFFICES ASSUME main \in {"minimize", "failed"}
                  PROVE  /\ Failed'
                         /\ unjoined' \subseteq Failures'
                         /\ \A u \in Minimals \ Failures' : pc'[u] = "unspawned"
                         /\ \A u \in Failures' \ unjoined' : pc'[u] = "done"
                         /\ minimized' = {u \in Failures' \ unjoined' :
                                            results'[u].out[Generate] = "ok"}
      BY <1>1 DEF JoinedThen, mainVars
    <2>1. \A u \in Originals : Settled(u)
      BY DEF Joined, JoinedFirst
    <2>2. Failures' = Failures
      BY <1>2, <1>3, <2>1, FailuresShape DEF Failures
    <2>3. \A u \in Minimals \ Failures : pc'[u] = "unspawned"
      BY <1>2, RestIsKept DEF Joined, JoinedThen, Kept
    <2>4. \A u \in Failures \ unjoined : pc'[u] = "done" /\ results'[u] = results[u]
      BY <1>2, FailuresShape, RestIsKept DEF Joined, JoinedThen, Kept
    <2>. QED
      BY <1>1, <2>2, <2>3, <2>4 DEF Joined, JoinedThen, mainVars, Failed
  <1>. QED
    BY <1>1, <1>4, <1>5 DEF Joined, mainVars

LEMMA SpawnKeepsJoined ==
  ASSUME Inv, Joined, SpawnAll \/ MinimizeFailures
  PROVE  Joined'
  <1>1. Originals \subseteq Tasks /\ Minimals \subseteq Tasks
    BY DEF Tasks
  <1>2. CASE SpawnAll
    <2>1. /\ main = "spawn" /\ main' = "join" /\ unjoined' = Originals /\ minimized' = minimized
          /\ \A t \in Minimals : pc'[t] = pc[t]
      BY <1>1, <1>2, MinimalsAreNew DEF SpawnAll, Spawn
    <2>2. JoinedFirst'
      BY <2>1 DEF Joined, JoinedFirst
    <2>3. JoinedThen'
      BY <2>1 DEF JoinedThen
    <2>. QED
      BY <2>1, <2>2, <2>3 DEF Joined
  <1>3. CASE MinimizeFailures
    <2>1. /\ main = "join" /\ main' = "minimize" /\ unjoined = {} /\ unjoined' = Failures
          /\ Failed /\ UNCHANGED <<minimized, report, results, bad>>
          /\ \A t \in Tasks \ Failures : pc'[t] = pc[t]
      BY <1>3 DEF MinimizeFailures, Spawn, AllJoined
    <2>2. Failures' = Failures /\ Failed'
      BY <2>1 DEF Failures, Failed
    <2>3. \A t \in Originals : Settled(t)'
      BY <1>1, <2>1, FailuresShape, MinimalsAreNew DEF Joined, JoinedFirst, Settled
    <2>4. JoinedFirst'
      BY <2>1, <2>3 DEF JoinedFirst
    <2>5. JoinedThen'
      <3>1. minimized = {} /\ \A t \in Minimals \ Failures : pc'[t] = "unspawned"
        BY <1>1, <2>1 DEF Joined, JoinedFirst
      <3>. QED
        BY <2>1, <2>2, <3>1 DEF JoinedThen
    <2>. QED
      BY <2>1, <2>4, <2>5 DEF Joined
  <1>. QED
    BY <1>2, <1>3

LEMMA JoinKeepsJoined ==
  ASSUME Inv, Joined, NEW t \in Tasks, Join(t) \/ JoinPanics(t) \/ JoinMinimized(t)
  PROVE  Joined'
  <1>1. CASE Join(t)
    <2>1. /\ main = "join" /\ t \in unjoined /\ pc[t] = "done" /\ unjoined' = unjoined \ {t}
          /\ report' = [report EXCEPT ![t[1]] = Conclude(results[t], RulesFor(t).check)]
          /\ UNCHANGED <<main, minimized, pc, results>>
      BY <1>1 DEF Join, NextToJoin, taskVars
    <2>2. t \in Originals /\ t[1] \in DOMAIN Plan /\ report \in [DOMAIN Plan -> Conclusions \cup {"none"}]
      BY <2>1, TaskShape DEF Joined, JoinedFirst, Inv, TypeOK
    <2>3. \A u \in Originals : u # t => u[1] # t[1]
      BY <2>2, FailuresShape
    <2>4. \A u \in Originals \ unjoined' : Settled(u)'
      BY <2>1, <2>2, <2>3 DEF Joined, JoinedFirst, Settled
    <2>5. JoinedFirst'
      BY <2>1, <2>4 DEF Joined, JoinedFirst
    <2>. QED
      BY <2>1, <2>5 DEF Joined, JoinedThen
  <1>2. CASE JoinPanics(t)
    BY <1>2 DEF JoinPanics, Joined, JoinedFirst, JoinedThen
  <1>3. CASE JoinMinimized(t)
    <2>1. /\ main = "minimize" /\ t \in unjoined /\ pc[t] = "done" /\ unjoined' = unjoined \ {t}
          /\ minimized' = IF results[t].out[Generate] = "ok" THEN minimized \cup {t} ELSE minimized
          /\ UNCHANGED <<main, report, pc, results, bad>>
      BY <1>3 DEF JoinMinimized, NextToJoin, taskVars
    <2>2. Failures' = Failures /\ Failed' = Failed
      BY <2>1 DEF Failures, Failed
    <2>3. JoinedFirst'
      BY <2>1 DEF Joined, JoinedFirst, Settled
    <2>4. /\ Failed /\ unjoined \subseteq Failures
          /\ \A u \in Minimals \ Failures : pc[u] = "unspawned"
          /\ \A u \in Failures \ unjoined : pc[u] = "done"
          /\ minimized = {u \in Failures \ unjoined : results[u].out[Generate] = "ok"}
      BY <2>1 DEF Joined, JoinedThen
    <2>5. minimized' = {u \in Failures \ unjoined' : results[u].out[Generate] = "ok"}
      BY <2>1, <2>4
    <2>6. \A u \in Failures \ unjoined' : pc[u] = "done"
      BY <2>1, <2>4
    <2>7. JoinedThen'
      BY <2>1, <2>2, <2>4, <2>5, <2>6 DEF JoinedThen
    <2>. QED
      BY <2>1, <2>3, <2>7 DEF Joined
  <1>. QED
    BY <1>1, <1>2, <1>3

LEMMA NextKeepsJoined ==
  ASSUME Inv, Joined, [Next]_vars
  PROVE  Joined'
  <1>1. ASSUME UNCHANGED <<pc, results, bad, report, minimized, unjoined>>
        PROVE  /\ Failures' = Failures /\ Failed' = Failed
               /\ \A t : Settled(t)' <=> Settled(t)
    BY <1>1 DEF Failures, Failed, Settled
  <1>2. CASE UNCHANGED vars
    <2>1. UNCHANGED <<pc, results, bad, report, minimized, unjoined, main>>
      BY <1>2 DEF vars, mainVars, taskVars
    <2>. QED
      BY <1>1, <2>1 DEF Joined, JoinedFirst, JoinedThen
  <1>3. CASE AllPassed
    <2>1. /\ main = "join" /\ main' = "passed" /\ unjoined = {} /\ ~Failed
          /\ UNCHANGED <<pc, results, bad, report, minimized, unjoined>>
      BY <1>3 DEF AllPassed, AllJoined, taskVars
    <2>. QED
      BY <1>1, <2>1 DEF Joined, JoinedFirst, JoinedThen
  <1>4. CASE ReportFailures
    <2>1. /\ main = "minimize" /\ main' = "failed" /\ unjoined = {}
          /\ UNCHANGED <<pc, results, bad, report, minimized, unjoined>>
      BY <1>4 DEF ReportFailures, AllJoined, taskVars
    <2>. QED
      BY <1>1, <2>1 DEF Joined, JoinedFirst, JoinedThen
  <1>. QED
    BY <1>2, <1>3, <1>4, TaskStepKeepsJoined, SpawnKeepsJoined, JoinKeepsJoined
       DEF Next, Main, Exit

LEMMA NothingHeld ==
  ASSUME Inv, \A t \in Tasks : pc[t] \in {"unspawned", "done"}
  PROVE  holds = {} /\ taken = {} /\ permits = Permits
  <1>1. \A t \in Tasks, s \in Sides : <<t, s>> \notin holds
    BY AtCell DEF Inv, HoldersPlaced
  <1>2. holds = {}
    BY <1>1 DEF Inv, TypeOK
  <1>3. taken = {}
    BY <1>2 DEF Inv, OneInitializer
  <1>4. tokens = {}
    BY DEF Inv, LimiterConserved, TypeOK
  <1>5. permits = Permits
    BY <1>4, FS_EmptySet, PermitsAssumption DEF Inv, LimiterConserved, TypeOK
  <1>. QED
    BY <1>2, <1>3, <1>5

LEMMA JoinedIsComplete ==
  ASSUME Inv, Progress, Joined
  PROVE  EndComplete
  <1>. SUFFICES ASSUME main \in {"passed", "failed"}
                PROVE  /\ \A t \in Originals :
                            pc[t] = "done"
                            /\ report[t[1]] = Conclude(results[t], RulesFor(t).check)
                       /\ \A t \in Minimals :
                            pc[t] = (IF main = "failed" /\ t \in Failures THEN "done"
                                     ELSE "unspawned")
                       /\ (main = "failed") = Failed
                       /\ minimized = {t \in Minimals : results[t].out[Generate] = "ok"}
                       /\ holds = {} /\ taken = {} /\ permits = Permits
    BY DEF EndComplete
  <1>1. \A t \in Originals : Settled(t)
    BY DEF Joined, JoinedFirst
  <1>2. \A t \in Minimals :
          pc[t] = (IF main = "failed" /\ t \in Failures THEN "done" ELSE "unspawned")
    BY DEF Joined, JoinedFirst, JoinedThen
  <1>3. (main = "failed") = Failed
    BY DEF Joined, JoinedFirst, JoinedThen, Failed
  <1>4. \A t \in Minimals : pc[t] = "unspawned" => results[t].out[Generate] = "none"
    <2>1. Generate \in Phase
      BY DEF Phase, Generate, Check
    <2>2. \A t \in Tasks : NewResults(RulesFor(t)).out[Generate] = "none"
      BY <2>1 DEF NewResults
    <2>. QED
      BY <2>2 DEF Progress, Tasks
  <1>5. minimized = {t \in Minimals : results[t].out[Generate] = "ok"}
    <2>1. CASE main = "passed"
      BY <1>2, <1>4, <2>1 DEF Joined, JoinedFirst
    <2>2. CASE main = "failed"
      BY <1>2, <1>4, <2>2, FailuresShape DEF Joined, JoinedThen
    <2>. QED
      BY <2>1, <2>2
  <1>6. holds = {} /\ taken = {} /\ permits = Permits
    BY <1>1, <1>2, NothingHeld DEF Tasks, Settled
  <1>. QED
    BY <1>1, <1>2, <1>3, <1>5, <1>6 DEF Settled

(* When main ends with a verdict, every test was joined and graded by what *)
(* it did, nothing is running or held, and every mismatch that could be    *)
(* generated again has its minimized source, whatever the plan.            *)
THEOREM EndIsComplete == Spec => []EndComplete
  <1>1. Init => Joined
    BY DEF Init, Joined, JoinedFirst, JoinedThen, Tasks
  <1>2. Inv /\ Joined /\ [Next]_vars => Joined'
    BY NextKeepsJoined
  <1>3. Inv /\ Progress /\ Joined => EndComplete
    BY JoinedIsComplete
  <1>. QED
    BY <1>1, <1>2, <1>3, Invariance, ProgressInvariance, PTL DEF Spec

-----------------------------------------------------------------------------
(* Whatever its tasks share and however they interleave, the harness       *)
(* implements the suite of tests that run alone.                           *)

(* The vocabulary of Rules as the abstract suite has it. *)
LEMMA SameWords ==
  /\ Abstract!Phase = Phase /\ Abstract!Skip = Skip
  /\ \A rules : Abstract!NewResults(rules) = NewResults(rules)
  /\ \A r, check : Abstract!Conclude(r, check) = Conclude(r, check)
  <1>1. Abstract!Phase = Phase /\ Abstract!Skip = Skip
    BY DEF Abstract!Phase, Phase, Abstract!Skip, Skip, Abstract!Generate, Generate,
           Abstract!Check, Check
  <1>2. \A rules : Abstract!NewResults(rules) = NewResults(rules)
    BY <1>1 DEF Abstract!NewResults, NewResults
  <1>3. \A r, step, wants : Abstract!SuccessAtStep(r, step, wants) = SuccessAtStep(r, step, wants)
    BY <1>1 DEF Abstract!SuccessAtStep, SuccessAtStep
  <1>4. \A r, check : Abstract!Meets(r, check) = Meets(r, check)
    BY <1>3 DEF Abstract!Meets, Meets
  <1>. QED
    BY <1>1, <1>2, <1>4 DEF Abstract!Conclude, Conclude, Abstract!Generate, Generate

LEMMA OriginalFacts ==
  ASSUME NEW t \in Originals
  PROVE  /\ t \in Tasks /\ t[1] \in DOMAIN Plan /\ t = <<t[1], 0>>
         /\ RulesFor(t) = RuleOf(t[1]) /\ RulesFor(t).run \in RunMode
         /\ \A p : PhaseFate(KeyOf(t), p) = MayGet(t[1], p)
  <1>1. t \in Tasks /\ t[1] \in DOMAIN Plan /\ t = <<t[1], 0>>
    BY DEF Originals, Tasks
  <1>2. RulesFor(t) = RuleOf(t[1]) /\ KeyOf(t) = Plan[t[1]]
    BY <1>1 DEF RulesFor, RuleOf, KeyOf
  <1>3. RulesFor(t).run \in RunMode
    BY <1>1, TaskShape DEF TestRules
  <1>. QED
    BY <1>1, <1>2, <1>3 DEF MayGet

(* Results with the shape of those that a test ends with in phase p. *)
LEMMA EndsInPhase ==
  ASSUME NEW t \in Originals, NEW res \in TestRunResults, NEW p \in Phase,
         NEW r \in PhaseFate(KeyOf(t), p),
         p <= RulesFor(t).run, r = "ok" => p = RulesFor(t).run,
         \A q \in Phase : q < p => "ok" \in PhaseFate(KeyOf(t), q),
         res.run = IF r = "unsupported" THEN Skip ELSE RulesFor(t).run,
         res.ran_to = p,
         \A q \in Phase : res.out[q] = IF q < p THEN "ok" ELSE IF q = p THEN r ELSE "none"
  PROVE  res \in Abstract!Alone(t[1])
  <1>. DEFINE out == [q \in Phase |-> IF q < p THEN "ok" ELSE IF q = p THEN r ELSE "none"]
  <1>1. res.out = out
    BY DEF TestRunResults
  <1>2. res = [run |-> res.run, ran_to |-> res.ran_to, out |-> res.out]
    BY DEF TestRunResults
  <1>3. res = [run    |-> IF r = "unsupported" THEN Skip ELSE RuleOf(t[1]).run,
               ran_to |-> p, out |-> out]
    BY <1>1, <1>2, OriginalFacts
  <1>. HIDE DEF out
  <1>4. r \in {x \in MayGet(t[1], p) : x = "ok" => p = RuleOf(t[1]).run}
    BY OriginalFacts
  <1>5. res \in Abstract!EndsIn(t[1], p)
    BY <1>3, <1>4, SameWords DEF Abstract!EndsIn, out
  <1>6. p \in Abstract!Reach(t[1])
    BY OriginalFacts, SameWords DEF Abstract!Reach
  <1>7. RuleOf(t[1]).run # Skip
    BY OriginalFacts DEF Phase, Generate, Check, Skip, RunMode
  <1>. QED
    BY <1>5, <1>6, <1>7, SameWords DEF Abstract!Alone

DoneAlone == \A t \in Originals : pc[t] = "done" => results[t] \in Abstract!Alone(t[1])

LEMMA EndsAlone ==
  ASSUME Inv, Progress, AsIfAlone, AsIfAlone', NEW t \in Originals, DoTest(t), pc'[t] = "done"
  PROVE  results'[t] \in Abstract!Alone(t[1])
  <1>1. /\ t \in Tasks /\ results[t] \in TestRunResults /\ RulesFor(t).run \in RunMode
        /\ results \in [Tasks -> TestRunResults]
        /\ \A x : [pc EXCEPT ![t] = x][t] = x
    BY OriginalFacts DEF Inv, TypeOK
  <1>2. ~ UNCHANGED <<pc, results>>
    BY <1>1, AtRest
  <1>3. CASE SkipTest(t)
    <2>1. results'[t] = NewResults(RulesFor(t)) /\ RulesFor(t).run <= Skip
      BY <1>1, <1>3 DEF SkipTest, Progress, NewResults
    <2>2. RuleOf(t[1]).run = Skip
      BY <1>1, <2>1, OriginalFacts DEF RunMode, Skip, Check
    <2>. QED
      BY <2>1, <2>2, OriginalFacts, SameWords DEF Abstract!Alone
  <1>4. CASE SkipInactive(t)
    <2>1. /\ results[t] = NewResults(RulesFor(t)) /\ results[t].run > Skip
          /\ results'[t] = [results[t] EXCEPT !.ran_to = Generate, !.out[Generate] = "skipped"]
      BY <1>1, <1>4 DEF SkipInactive, Progress
    <2>2. /\ results'[t] \in TestRunResults
          /\ results'[t].run = RulesFor(t).run /\ results'[t].ran_to = Generate
          /\ results'[t].out = [results[t].out EXCEPT ![Generate] = "skipped"]
      <3>1. Generate \in Phase /\ Generate \in RunMode
        BY DEF Generate, Phase, RunMode, Check, Skip
      <3>2. results[t].run = RulesFor(t).run
        BY <2>1 DEF NewResults
      <3>3. /\ results'[t].run = results[t].run /\ results'[t].ran_to = Generate
            /\ results'[t].out = [results[t].out EXCEPT ![Generate] = "skipped"]
        BY <1>1, <2>1 DEF TestRunResults
      <3>4. results'[t] = [run |-> results[t].run, ran_to |-> Generate,
                           out |-> [results[t].out EXCEPT ![Generate] = "skipped"]]
        BY <1>1, <2>1 DEF TestRunResults
      <3>5. [results[t].out EXCEPT ![Generate] = "skipped"] \in [Phase -> Outcome]
        BY <1>1, <3>1 DEF TestRunResults, Outcome
      <3>. QED
        BY <1>1, <3>1, <3>2, <3>3, <3>4, <3>5 DEF TestRunResults
    <2>3. \A q \in Phase : /\ ~(q < Generate)
                           /\ results'[t].out[q] = IF q = Generate THEN "skipped" ELSE "none"
      <3>1. results[t].out \in [Phase -> Outcome] /\ \A q \in Phase : results[t].out[q] = "none"
        BY <1>1, <2>1 DEF TestRunResults, NewResults
      <3>. QED
        BY <2>2, <3>1 DEF Phase, Generate, Check
    <2>4. "skipped" \in PhaseFate(KeyOf(t), Generate)
      BY <1>4, FatesByPhase DEF SkipInactive
    <2>5. Generate \in Phase /\ Generate <= RulesFor(t).run
      BY <1>1, <2>1, <2>2 DEF Generate, Phase, RunMode, Check, Skip, NewResults
    <2>6. \A q \in Phase : results'[t].out[q] =
             IF q < Generate THEN "ok" ELSE IF q = Generate THEN "skipped" ELSE "none"
      BY <2>3
    <2>. HIDE <1>4
    <2>. QED
      BY <2>2, <2>3, <2>4, <2>5, <2>6, EndsInPhase
  <1>5. ~ StartGenerate(t)
    BY <1>1 DEF StartGenerate
  <1>6. ASSUME NEW p \in Phase, NEW r \in Outcome \ {"none"}, Graded(t, p, r)
        PROVE  results'[t] \in Abstract!Alone(t[1])
    <2>1. Working(t, p) /\ results'[t] = Recorded(t, p, r)
      BY <1>1, <1>6 DEF Progress, Graded, Record
    <2>2. ~ GoesOn(t, p, r)
      <3>1. GoesOn(t, p, r) => p < 5
        BY <1>1, StageFacts DEF GoesOn, TestRunResults, RunMode, Skip, Check
      <3>2. GoesOn(t, p, r) => pc'[t] = Stage(p + 1) /\ p + 1 \in Phase
        BY <1>1, <1>6, <3>1, StageFacts DEF Graded, Record
      <3>. QED
        BY <3>2, StageFacts DEF Stages
    <2>3. /\ results'[t].out = [results[t].out EXCEPT ![p] = r]
          /\ results'[t].run = IF r = "unsupported" THEN Skip ELSE RulesFor(t).run
          /\ results'[t].ran_to = p
      BY <1>1, <2>1, <2>2 DEF Recorded, Working, TestRunResults
    <2>4. results'[t] \in TestRunResults
      <3>1. Skip \in RunMode /\ p \in RunMode
        BY StageFacts DEF Skip, RunMode, Check
      <3>2. results'[t] = [run |-> results'[t].run, ran_to |-> results'[t].ran_to,
                           out |-> results'[t].out]
        BY <1>1, <2>1 DEF Recorded, TestRunResults
      <3>3. results'[t].out \in [Phase -> Outcome]
        BY <1>1, <2>3 DEF TestRunResults
      <3>. QED
        BY <1>1, <2>3, <3>1, <3>2, <3>3 DEF TestRunResults
    <2>5. \A q \in Phase : results'[t].out[q] = IF q < p THEN "ok" ELSE IF q = p THEN r ELSE "none"
      <3>1. results[t].out \in [Phase -> Outcome]
        BY <1>1 DEF TestRunResults
      <3>. QED
        BY <2>1, <2>3, <3>1, StageFacts DEF Working
    <2>6. r \in PhaseFate(KeyOf(t), p)
      <3>1. results'[t].out[p] = r
        BY <2>5, StageFacts
      <3>. QED
        BY <1>1, <3>1 DEF AsIfAlone
    <2>7. \A q \in Phase : q < p => "ok" \in PhaseFate(KeyOf(t), q)
      BY <1>1, <2>1 DEF AsIfAlone, Working
    <2>8. p <= RulesFor(t).run /\ (r = "ok" => p = RulesFor(t).run)
      BY <1>1, <2>1, <2>2, StageFacts DEF Working, GoesOn, RunMode, Skip, Check
    <2>9. PICK res \in TestRunResults : res = results'[t]
      BY <2>4
    <2>10. /\ res.run = IF r = "unsupported" THEN Skip ELSE RulesFor(t).run
           /\ res.ran_to = p
           /\ \A q \in Phase : res.out[q] = IF q < p THEN "ok" ELSE IF q = p THEN r ELSE "none"
      BY <2>3, <2>5, <2>9
    <2>11. res \in Abstract!Alone(t[1])
      BY <2>6, <2>7, <2>8, <2>10, EndsInPhase
    <2>. QED
      BY <2>9, <2>11
  <1>7. ~ (pc' = [pc EXCEPT ![t] = "panicked"])
    BY <1>1
  <1>. QED
    BY <1>1, <1>2, <1>3, <1>4, <1>5, <1>6, <1>7, TaskStepKinds

LEMMA StepKeepsDoneAlone ==
  ASSUME Inv, Progress, AsIfAlone, AsIfAlone', DoneAlone, [Next]_vars, NEW t \in Originals,
         pc'[t] = "done"
  PROVE  results'[t] \in Abstract!Alone(t[1])
  <1>1. t \in Tasks
    BY OriginalFacts
  <1>2. CASE pc[t] = "done"
    BY <1>1, <1>2, StepKeepsEnds DEF DoneAlone, Kept
  <1>3. CASE pc[t] # "done"
    <2>1. ~ UNCHANGED vars
      BY <1>3 DEF vars, taskVars
    <2>2. ~ Main
      BY <1>1, <1>3, SpawnsFresh
    <2>3. \A u \in Tasks : DoTest(u) => u = t
      BY <1>1, <1>3, OthersKept DEF Kept
    <2>. QED
      BY <2>1, <2>2, <2>3, EndsAlone DEF Next, Exit
  <1>. QED
    BY <1>2, <1>3

LEMMA DoneAloneInvariance == Spec => []DoneAlone
  <1>1. Init => DoneAlone
    BY OriginalFacts DEF Init, DoneAlone
  <1>2. Inv /\ Progress /\ AsIfAlone /\ AsIfAlone' /\ DoneAlone /\ [Next]_vars => DoneAlone'
    <2>. SUFFICES ASSUME Inv, Progress, AsIfAlone, AsIfAlone', DoneAlone, [Next]_vars,
                         NEW t \in Originals, pc'[t] = "done"
                  PROVE  results'[t] \in Abstract!Alone(t[1])
      BY DEF DoneAlone, Abstract!Alone, Abstract!EndsIn, Abstract!Reach
    <2>. QED
      BY StepKeepsDoneAlone
  <1>. QED
    BY <1>1, <1>2, Invariance, ProgressInvariance, ResultsAsIfAlone, PTL DEF Spec

-----------------------------------------------------------------------------
(* A task panics only where the constant says it may. *)
PanicsAllowed == (\E t \in Tasks : pc[t] = "panicked") => Panics # {}

LEMMA PanicsInvariance == Spec => []PanicsAllowed
  <1>1. Init => PanicsAllowed
    BY DEF Init, PanicsAllowed
  <1>2. Inv /\ PanicsAllowed /\ [Next]_vars => PanicsAllowed'
    <2>. SUFFICES ASSUME Inv, PanicsAllowed, [Next]_vars, Panics = {}
                  PROVE  \A u \in Tasks : pc'[u] # "panicked"
      BY DEF PanicsAllowed
    <2>1. \A u \in Tasks : pc[u] # "panicked"
      BY DEF PanicsAllowed
    <2>2. CASE UNCHANGED vars
      BY <2>1, <2>2 DEF vars, taskVars
    <2>3. CASE Main
      BY <2>1, <2>3, SpawnsFresh
    <2>4. ASSUME NEW t \in Tasks, DoTest(t) PROVE pc'[t] # "panicked"
      <3>1. ~ Panic(t)
        BY DEF Panic
      <3>2. ASSUME NEW p \in Phase, NEW r, Record(t, p, r) PROVE pc'[t] # "panicked"
        <4>1. pc'[t] = IF GoesOn(t, p, r) THEN StageAfter(p) ELSE "done"
          BY <3>2 DEF Record, Inv, TypeOK
        <4>2. GoesOn(t, p, r) => p < 5
          BY StageFacts DEF GoesOn, Inv, TypeOK, TestRunResults, RunMode, Skip, Check
        <4>. QED
          BY <4>1, <4>2, StageFacts DEF Stages
      <3>3. /\ Generate \in Phase /\ Build \in Phase /\ Link \in Phase
            /\ Run \in Phase /\ Check \in Phase
        BY DEF Phase, Generate, Build, Link, Run, Check
      <3>4. ASSUME NEW s \in Sides, GenerateFails(t, s) \/ CompileFails(t, s)
            PROVE  pc'[t] # "panicked"
        BY <3>2, <3>3, <3>4 DEF GenerateFails, CompileFails
      <3>5. Generated(t) \/ Built(t) \/ LinkBin(t) \/ RunBin(t) \/ CheckTest(t)
            => pc'[t] # "panicked"
        BY <3>2, <3>3 DEF Generated, Built, LinkBin, RunBin, CheckTest
      <3>6. ASSUME NEW s \in Sides, Reuse(t, s) \/ Claim(t, s) \/ Produce(t, s) \/ Compiled(t, s)
            PROVE  pc'[t] # "panicked"
        BY <2>1, <3>6 DEF Reuse, Claim, Produce, Compiled
      <3>7. SkipTest(t) \/ SkipInactive(t) \/ StartGenerate(t) \/ Acquire(t)
            => pc'[t] # "panicked"
        BY <2>1 DEF SkipTest, SkipInactive, StartGenerate, Acquire, Inv, TypeOK
      <3>. QED
        BY <2>4, <3>1, <3>4, <3>5, <3>6, <3>7 DEF DoTest
    <2>. QED
      BY <2>1, <2>2, <2>3, <2>4, OthersKept DEF Kept, Next, Exit
  <1>. QED
    BY <1>1, <1>2, Invariance, PTL DEF Spec

-----------------------------------------------------------------------------
(* Every step of the harness is a step of the suite, or none. *)
SuiteVars == <<SuiteResults, SuiteExit>>

LEMMA ResultOf ==
  ASSUME NEW t \in Originals
  PROVE  SuiteResults[t[1]] = IF pc[t] = "done" THEN {results[t]} ELSE {}
  BY OriginalFacts DEF SuiteResults

LEMMA TestIsOriginal ==
  ASSUME NEW i \in DOMAIN Plan
  PROVE  <<i, 0>> \in Originals /\ <<i, 0>>[1] = i /\ <<i, 0>> \in Tasks
  BY DEF Originals, Tasks

(* The suite's results do not change if no original test ends. *)
LEMMA NoneEnds ==
  ASSUME Inv, [Next]_vars,
         \A t \in Originals : pc'[t] = "done" => pc[t] = "done"
  PROVE  SuiteResults' = SuiteResults
  <1>. SUFFICES ASSUME NEW i \in DOMAIN Plan
                PROVE  (IF pc'[<<i, 0>>] = "done" THEN {results'[<<i, 0>>]} ELSE {})
                       = (IF pc[<<i, 0>>] = "done" THEN {results[<<i, 0>>]} ELSE {})
    BY DEF SuiteResults
  <1>1. pc[<<i, 0>>] = "done" => pc'[<<i, 0>>] = "done" /\ results'[<<i, 0>>] = results[<<i, 0>>]
    BY TestIsOriginal, StepKeepsEnds DEF Kept
  <1>. QED
    BY <1>1, TestIsOriginal

LEMMA TaskStepRefines ==
  ASSUME Inv, Progress, AsIfAlone, AsIfAlone', NEW t \in Tasks, DoTest(t)
  PROVE  [Abstract!Next]_SuiteVars
  <1>1. SuiteExit' = SuiteExit
    BY DEF DoTest, mainVars, SuiteExit, Ended
  <1>2. [Next]_vars
    BY DEF Next
  <1>3. CASE t \in Originals /\ pc'[t] = "done"
    <2>1. pc[t] # "done"
      BY AtRest
    <2>2. results'[t] \in Abstract!Alone(t[1])
      BY <1>3, EndsAlone
    <2>3. SuiteResults' = [SuiteResults EXCEPT ![t[1]] = {results'[t]}]
      <3>. SUFFICES ASSUME NEW i \in DOMAIN Plan
                    PROVE  (IF pc'[<<i, 0>>] = "done" THEN {results'[<<i, 0>>]} ELSE {})
                           = IF i = t[1] THEN {results'[t]} ELSE SuiteResults[i]
        BY DEF SuiteResults
      <3>1. CASE i = t[1]
        BY <1>3, <3>1, OriginalFacts
      <3>2. CASE i # t[1]
        <4>1. <<i, 0>> # t /\ Kept(<<i, 0>>)
          BY <3>2, TestIsOriginal, OthersKept
        <4>. QED
          BY <3>2, <4>1 DEF Kept, SuiteResults
      <3>. QED
        BY <3>1, <3>2
    <2>4. SuiteResults[t[1]] = {} /\ t[1] \in DOMAIN Plan
      BY <1>3, <2>1, ResultOf, OriginalFacts
    <2>5. Abstract!Do(t[1])
      BY <1>1, <2>2, <2>3, <2>4 DEF Abstract!Do
    <2>. QED
      BY <2>4, <2>5 DEF Abstract!Next
  <1>4. CASE ~(t \in Originals /\ pc'[t] = "done")
    <2>1. \A u \in Originals : pc'[u] = "done" => pc[u] = "done"
      BY <1>4, OthersKept, OriginalFacts DEF Kept
    <2>. QED
      BY <1>1, <1>2, <2>1, NoneEnds DEF SuiteVars
  <1>. QED
    BY <1>3, <1>4

(* When main has joined all tests, the suite has finished. *)
LEMMA VerdictFinishes ==
  ASSUME Inv, Main, EndComplete', main \notin {"passed", "failed", "panicked"},
         main' \in {"passed", "failed"}
  PROVE  Abstract!Finish
  <1>1. [Next]_vars /\ results' = results
    BY MainKeeps DEF Next
  <1>2. \A t \in Originals : pc'[t] = "done" /\ report'[t[1]] = Conclude(results'[t], RulesFor(t).check)
    BY DEF EndComplete
  <1>3. \A t \in Originals : pc[t] = "done"
    BY <1>2, SpawnsFresh, OriginalFacts
  <1>4. SuiteResults' = SuiteResults
    BY <1>1, <1>3, NoneEnds
  <1>5. \A i \in DOMAIN Plan : SuiteResults[i] = {results[<<i, 0>>]}
    BY <1>3, TestIsOriginal, ResultOf
  <1>6. ASSUME NEW i \in DOMAIN Plan
        PROVE  Abstract!HasFailed(i) <=> report'[i] = "Failed"
    <2>1. report'[i] = Conclude(results[<<i, 0>>], RuleOf(i).check)
      BY <1>1, <1>2, TestIsOriginal, OriginalFacts
    <2>. QED
      BY <1>5, <2>1, SameWords DEF Abstract!HasFailed
  <1>7. main' = IF \E i \in DOMAIN Plan : report'[i] = "Failed" THEN "failed" ELSE "passed"
    BY DEF EndComplete, Failed
  <1>8. SuiteExit = "none" /\ SuiteExit' = main'
    BY DEF SuiteExit, Ended
  <1>. QED
    BY <1>4, <1>5, <1>6, <1>7, <1>8 DEF Abstract!Finish

LEMMA MainStepRefines ==
  ASSUME Inv, PanicsAllowed, EndComplete', Main
  PROVE  [Abstract!Next]_SuiteVars
  <1>1. SuiteResults' = SuiteResults
    <2>1. \A t \in Originals : pc'[t] = "done" => pc[t] = "done"
      BY SpawnsFresh, OriginalFacts
    <2>. QED
      BY <2>1, NoneEnds DEF Next
  <1>2. CASE SpawnAll \/ MinimizeFailures
    BY <1>1, <1>2 DEF SpawnAll, MinimizeFailures, SuiteVars, SuiteExit, Ended
  <1>3. CASE AllPassed \/ ReportFailures
    <2>1. main \notin {"passed", "failed", "panicked"} /\ main' \in {"passed", "failed"}
      BY <1>3 DEF AllPassed, ReportFailures
    <2>. QED
      BY <2>1, VerdictFinishes DEF Abstract!Next
  <1>4. ASSUME NEW t \in Tasks, Join(t) \/ JoinMinimized(t)
        PROVE  [Abstract!Next]_SuiteVars
    BY <1>1, <1>4 DEF Join, JoinMinimized, SuiteVars, SuiteExit, Ended
  <1>5. ASSUME NEW t \in Tasks, JoinPanics(t)
        PROVE  [Abstract!Next]_SuiteVars
    <2>1. Panics # {} /\ SuiteExit = "none" /\ SuiteExit' = "panicked"
      BY <1>5 DEF JoinPanics, PanicsAllowed, SuiteExit, Ended
    <2>. QED
      BY <1>1, <2>1 DEF Abstract!Panic, Abstract!Next
  <1>. QED
    BY <1>2, <1>3, <1>4, <1>5 DEF Main

(* The harness implements the suite, for every plan, number of permits and *)
(* answer of the tools: each test gets once, and keeps, results that it    *)
(* could get alone, and the exit code is the verdict on exactly these.     *)
THEOREM SuiteRefinement == Spec => ImplementsSuite
  <1>1. Init => Abstract!Init
    BY TestIsOriginal DEF Init, Abstract!Init, SuiteResults, SuiteExit, Ended
  <1>2. Inv /\ Progress /\ AsIfAlone /\ AsIfAlone' /\ PanicsAllowed /\ EndComplete' /\ [Next]_vars
        => [Abstract!Next]_SuiteVars
    <2>1. UNCHANGED vars => UNCHANGED SuiteVars
      BY DEF vars, mainVars, taskVars, SuiteVars, SuiteResults, SuiteExit, Ended
    <2>. QED
      BY <2>1, TaskStepRefines, MainStepRefines DEF Next, Exit
  <1>3. [Abstract!Next]_SuiteVars => [Abstract!Next]_(Abstract!vars)
    BY DEF SuiteVars, Abstract!vars
  <1>. QED
    BY <1>1, <1>2, <1>3, Invariance, ProgressInvariance, ResultsAsIfAlone, PanicsInvariance,
       EndIsComplete, PTL DEF Spec, ImplementsSuite, Abstract!Spec
=============================================================================
