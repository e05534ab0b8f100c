--------------------------- MODULE HarnessProofs ---------------------------
(***************************************************************************)
(* Proofs about Harness, for every plan, every rules and every number of   *)
(* permits.  The inductive invariant adds to the properties what ties the  *)
(* permits that are out to the place of the task that holds them.          *)
(***************************************************************************)
EXTENDS Harness, FiniteSetTheorems, TLAPS

(* Where a side can be, given where its task is. *)
Places ==
  \A t \in Tasks :
    /\ pc[t] \notin {"gen", "build"} => at[t] = Idle
    /\ pc[t] = "gen" => \A s \in Sides : at[t][s] \in GenKinds \cup {"ready"}
    /\ pc[t] = "build" =>
         \/ at[t]["caller"] = "lib" /\ at[t]["callee"] = "idle"
         \/ at[t]["caller"] = "ready" /\ at[t]["callee"] \in {"lib", "ready"}

(* A side holds a cell permit only while it is at that cell. *)
HoldersPlaced == \A t \in Tasks, s \in Sides : <<t, s>> \in holds => at[t][s] \in Kinds

(* Minimal tasks are spawned after all others, and once. *)
SpawnedInTurn ==
  /\ main = "spawn" => \A t \in Tasks : pc[t] = "unspawned"
  /\ main = "join" => \A t \in Minimals : pc[t] = "unspawned"
  /\ main = "minimize" => unjoined \subseteq Minimals

Inv ==
  /\ TypeOK
  /\ IsFiniteSet(tokens)
  /\ Places
  /\ HoldersPlaced
  /\ OneInitializer
  /\ LimiterConserved
  /\ SpawnedInTurn

LEMMA KindsOfIdle == "idle" \notin Kinds /\ "ready" \notin Kinds
  BY DEF Kinds, GenKinds

LEMMA TaskShape ==
  ASSUME NEW t \in Tasks
  PROVE  /\ t = <<t[1], t[2]>>
         /\ t[1] \in DOMAIN Plan
         /\ RulesFor(t) \in TestRules
  <1>1. t = <<t[1], t[2]>> /\ t[1] \in DOMAIN Plan
    BY DEF Tasks, Originals, Minimals
  <1>2. RulesOf[t[1]] \in TestRules
    BY <1>1, RulesAssumption
  <1>3. [RulesOf[t[1]] EXCEPT !.run = Generate] \in TestRules
    BY <1>2 DEF TestRules, RunMode, Skip, Generate, Check
  <1>. QED
    BY <1>1, <1>2, <1>3 DEF RulesFor

LEMMA CellType ==
  ASSUME NEW t \in Tasks, NEW s \in Sides, at[t][s] \in Kinds
  PROVE  Cell(t, s) \in Cells
  BY DEF Cell, Cells

LEMMA RecordType ==
  ASSUME TypeOK, NEW t \in Tasks, NEW p \in Phase, NEW r \in Outcome, Record(t, p, r)
  PROVE  /\ results' \in [Tasks -> TestRunResults]
         /\ pc' = [pc EXCEPT ![t] = pc'[t]]
         /\ pc'[t] \in {"build", "link", "run", "check", "done"}
         /\ p # Generate => pc'[t] # "build"
         /\ ~GoesOn(t, p, r) => pc'[t] = "done"
  <1>1. results[t] \in TestRunResults /\ results[t].run \in RunMode
    BY DEF TypeOK, TestRunResults
  <1>2. GoesOn(t, p, r) => p \in {1, 2, 3, 4} /\ p + 1 \in RunMode
    BY <1>1 DEF GoesOn, RunMode, Phase, Skip, Generate, Check
  <1>3. results' \in [Tasks -> TestRunResults]
    <2>1. [results[t].out EXCEPT ![p] = r] \in [Phase -> Outcome]
      BY <1>1 DEF TestRunResults
    <2>2. (IF r = "unsupported" THEN Skip ELSE results[t].run) \in RunMode
      BY <1>1 DEF RunMode, Skip, Check
    <2>3. (IF GoesOn(t, p, r) THEN p + 1 ELSE results[t].ran_to) \in RunMode
      BY <1>1, <1>2 DEF TestRunResults
    <2>4. Recorded(t, p, r) \in TestRunResults
      BY <1>1, <2>1, <2>2, <2>3 DEF Recorded, TestRunResults
    <2>. QED
      BY <2>4 DEF Record, TypeOK
  <1>. DEFINE stage == IF GoesOn(t, p, r) THEN StageAfter(p) ELSE "done"
  <1>4. pc' = [pc EXCEPT ![t] = stage]
    BY DEF Record
  <1>5. /\ stage \in {"build", "link", "run", "check", "done"}
        /\ p # Generate => stage # "build"
        /\ ~GoesOn(t, p, r) => stage = "done"
    BY <1>2 DEF StageAfter, Generate, Build, Link, Run
  <1>. HIDE DEF stage
  <1>. QED
    BY <1>3, <1>4, <1>5 DEF TypeOK

-----------------------------------------------------------------------------
(* Letting go of the cells of the holders in R keeps one initializer per   *)
(* cell, as long as the other holders stay where they are.                 *)
LEMMA ReleaseKeepsOne ==
  ASSUME OneInitializer, NEW R \in SUBSET holds,
         holds' = holds \ R,
         taken' = taken \ {Cell(h[1], h[2]) : h \in R},
         full' \subseteq full \cup {Cell(h[1], h[2]) : h \in R},
         \A h \in holds' : at'[h[1]][h[2]] = at[h[1]][h[2]]
  PROVE  OneInitializer'
  <1>1. \A h \in holds' : h \in holds /\ Cell(h[1], h[2])' = Cell(h[1], h[2])
    BY DEF Cell
  <1>2. \A g, h \in holds : Cell(g[1], g[2]) = Cell(h[1], h[2]) => g = h
    BY DEF OneInitializer
  <1>3. taken' = {Cell(h[1], h[2])' : h \in holds'}
    <2>1. taken = {Cell(h[1], h[2]) : h \in holds}
      BY DEF OneInitializer
    <2>2. ASSUME NEW h \in holds' PROVE Cell(h[1], h[2]) \in taken'
      BY <2>1, <1>1, <1>2
    <2>3. ASSUME NEW c \in taken' PROVE \E h \in holds' : c = Cell(h[1], h[2])
      BY <2>1
    <2>. QED
      BY <2>2, <2>3, <1>1
  <1>4. taken' \cap full' = {}
    BY DEF OneInitializer
  <1>. QED
    BY <1>1, <1>2, <1>3, <1>4 DEF OneInitializer

(* So does taking the permit of a cell whose permit is there. *)
LEMMA ClaimKeepsOne ==
  ASSUME OneInitializer, NEW t \in Tasks, NEW s \in Sides, Claim(t, s)
  PROVE  OneInitializer'
  <1>1. \A h : Cell(h[1], h[2])' = Cell(h[1], h[2])
    BY DEF Cell, Claim
  <1>2. holds' = holds \cup {<<t, s>>} /\ taken' = taken \cup {Cell(t, s)} /\ full' = full
        /\ Cell(t, s) \notin full \cup taken
    BY DEF Claim, Vacant
  <1>3. /\ \A g, h \in holds : Cell(g[1], g[2]) = Cell(h[1], h[2]) => g = h
        /\ taken = {Cell(h[1], h[2]) : h \in holds}
        /\ taken \cap full = {}
    BY DEF OneInitializer
  <1>4. \A h \in holds : Cell(h[1], h[2]) # Cell(t, s)
    BY <1>2, <1>3
  <1>5. taken' = {Cell(h[1], h[2]) : h \in holds'}
    <2>1. ASSUME NEW h \in holds' PROVE Cell(h[1], h[2]) \in taken'
      <3>1. CASE h \in holds
        BY <3>1, <1>2, <1>3
      <3>2. CASE h = <<t, s>>
        BY <3>2, <1>2
      <3>. QED
        BY <3>1, <3>2, <1>2
    <2>2. ASSUME NEW c \in taken' PROVE \E h \in holds' : c = Cell(h[1], h[2])
      <3>1. CASE c \in taken
        BY <3>1, <1>2, <1>3
      <3>2. CASE c = Cell(t, s)
        <4>1. <<t, s>> \in holds' /\ c = Cell(<<t, s>>[1], <<t, s>>[2])
          BY <3>2, <1>2
        <4>. QED
          BY <4>1
      <3>. QED
        BY <3>1, <3>2, <1>2
    <2>. QED
      BY <2>1, <2>2
  <1>6. taken' = {Cell(h[1], h[2])' : h \in holds'}
    BY <1>1, <1>5
  <1>7. \A g, h \in holds' : Cell(g[1], g[2])' = Cell(h[1], h[2])' => g = h
    BY <1>1, <1>2, <1>3, <1>4
  <1>. QED
    BY <1>2, <1>3, <1>6, <1>7 DEF OneInitializer

LEMMA LetGoKeepsOne ==
  ASSUME TypeOK, OneInitializer, NEW t \in Tasks, LetGo(t), full' = full
  PROVE  OneInitializer'
  <1>. DEFINE R == {h \in holds : h[1] = t}
  <1>1. holds' = holds \ R /\ R \in SUBSET holds
    BY DEF LetGo
  <1>2. HeldBy(t) = {Cell(h[1], h[2]) : h \in R}
    <2>1. ASSUME NEW h \in R PROVE Cell(h[1], h[2]) \in HeldBy(t)
      <3>1. h = <<t, h[2]>> /\ h[2] \in Sides /\ h[1] = t
        BY DEF TypeOK
      <3>. QED
        BY <3>1 DEF HeldBy
    <2>2. ASSUME NEW c \in HeldBy(t) PROVE \E h \in R : c = Cell(h[1], h[2])
      <3>1. PICK s \in Sides : <<t, s>> \in holds /\ c = Cell(t, s)
        BY DEF HeldBy
      <3>2. <<t, s>> \in R /\ c = Cell(<<t, s>>[1], <<t, s>>[2])
        BY <3>1
      <3>. QED
        BY <3>2
    <2>. QED
      BY <2>1, <2>2
  <1>3. taken' = taken \ {Cell(h[1], h[2]) : h \in R}
    BY <1>2 DEF LetGo, TakenWithout
  <1>4. \A h \in holds' : at'[h[1]][h[2]] = at[h[1]][h[2]]
    BY DEF LetGo, TypeOK
  <1>. HIDE DEF R
  <1>. QED
    BY <1>1, <1>3, <1>4, ReleaseKeepsOne

-----------------------------------------------------------------------------
(* A side that has a cell to get belongs to a task that generates or builds. *)
LEMMA AtCell ==
  ASSUME TypeOK, Places, NEW t \in Tasks, NEW s \in Sides, at[t][s] \in Kinds
  PROVE  /\ pc[t] \in {"gen", "build"}
         /\ pc[t] = "gen" => at[t][s] \in GenKinds
         /\ pc[t] = "build" => at[t][s] = "lib"
  <1>1. Idle[s] \notin Kinds
    BY KindsOfIdle DEF Idle
  <1>2. pc[t] \in {"gen", "build"}
    BY <1>1 DEF Places
  <1>. QED
    BY <1>2, KindsOfIdle DEF Places, Sides

(* Moving a side on, holding its cell or not, leaves everybody else's place alone. *)
LEMMA AdvanceKeepsPlaces ==
  ASSUME TypeOK, Places, HoldersPlaced, NEW t \in Tasks, NEW s \in Sides,
         at[t][s] \in Kinds, at' = [at EXCEPT ![t] = After(t, s)],
         pc' = pc, holds' = holds \ {<<t, s>>}
  PROVE  /\ at' \in [Tasks -> [Sides -> Kinds \cup {"idle", "ready"}]]
         /\ holds' \subseteq Tasks \X Sides
         /\ Places'
         /\ HoldersPlaced'
         /\ \A h \in holds' : at'[h[1]][h[2]] = at[h[1]][h[2]]
  <1>1. /\ pc[t] \in {"gen", "build"}
        /\ pc[t] = "gen" => at[t][s] \in GenKinds
        /\ pc[t] = "build" => at[t][s] = "lib"
    BY AtCell
  <1>2. at[t] \in [Sides -> Kinds \cup {"idle", "ready"}]
    BY DEF TypeOK
  <1>3. /\ After(t, s) \in [Sides -> Kinds \cup {"idle", "ready"}]
        /\ \A x \in Sides \ {s} : at[t][x] \in Kinds => After(t, s)[x] = at[t][x]
        /\ pc[t] = "gen" => \A x \in Sides : After(t, s)[x] \in GenKinds \cup {"ready"}
        /\ pc[t] = "build" =>
             \/ After(t, s)["caller"] = "lib" /\ After(t, s)["callee"] = "idle"
             \/ After(t, s)["caller"] = "ready" /\ After(t, s)["callee"] \in {"lib", "ready"}
    <2>1. CASE pc[t] = "gen"
      <3>1. \A x \in Sides : at[t][x] \in GenKinds \cup {"ready"}
        BY <2>1 DEF Places
      <3>2. PICK v \in GenKinds \cup {"ready"} : After(t, s) = [at[t] EXCEPT ![s] = v]
        BY <2>1, <1>1 DEF After, GenKinds
      <3>. QED
        BY <3>1, <3>2, <2>1, <1>2 DEF Kinds
    <2>2. CASE pc[t] = "build"
      <3>1. \/ at[t]["caller"] = "lib" /\ at[t]["callee"] = "idle"
            \/ at[t]["caller"] = "ready" /\ at[t]["callee"] \in {"lib", "ready"}
        BY <2>2 DEF Places
      <3>2. CASE s = "caller"
        <4>1. After(t, s) = [caller |-> "ready", callee |-> "lib"]
          BY <3>2, <2>2, <1>1 DEF After
        <4>2. at[t]["callee"] = "idle"
          BY <3>1, <3>2, <2>2, <1>1
        <4>. QED
          BY <4>1, <4>2, <3>2, <2>2, KindsOfIdle DEF Sides, Kinds
      <3>3. CASE s = "callee"
        <4>1. After(t, s) = [at[t] EXCEPT ![s] = "ready"]
          BY <3>3, <2>2, <1>1 DEF After
        <4>2. at[t]["caller"] = "ready"
          BY <3>1, <3>3, <2>2, <1>1
        <4>. QED
          BY <4>1, <4>2, <3>3, <2>2, <1>2, KindsOfIdle DEF Sides
      <3>. QED
        BY <3>2, <3>3 DEF Sides
    <2>. QED
      BY <2>1, <2>2, <1>1
  <1>4. at' \in [Tasks -> [Sides -> Kinds \cup {"idle", "ready"}]]
    BY <1>3 DEF TypeOK
  <1>5. \A h \in holds' : at'[h[1]][h[2]] = at[h[1]][h[2]]
    <2>. SUFFICES ASSUME NEW h \in holds' PROVE at'[h[1]][h[2]] = at[h[1]][h[2]]
      OBVIOUS
    <2>1. h \in holds /\ h = <<h[1], h[2]>> /\ h[1] \in Tasks /\ h[2] \in Sides
      BY DEF TypeOK
    <2>2. h[1] = t => h[2] # s /\ at[t][h[2]] \in Kinds
      BY <2>1 DEF HoldersPlaced
    <2>. QED
      BY <2>1, <2>2, <1>3 DEF TypeOK
  <1>6. Places'
    BY <1>3, <1>1 DEF Places, TypeOK
  <1>7. HoldersPlaced'
    BY <1>5 DEF HoldersPlaced
  <1>. QED
    BY <1>4, <1>5, <1>6, <1>7 DEF TypeOK

-----------------------------------------------------------------------------
(* A step of one task that lets go of everything and ends in a place where *)
(* nothing is held. *)
LEMMA LetGoKeepsPlaces ==
  ASSUME TypeOK, IsFiniteSet(tokens), Places, HoldersPlaced, NEW t \in Tasks,
         LetGo(t), NEW q, pc' = [pc EXCEPT ![t] = q], q \notin {"gen", "build"}
  PROVE  /\ at' \in [Tasks -> [Sides -> Kinds \cup {"idle", "ready"}]]
         /\ holds' \subseteq Tasks \X Sides
         /\ taken' \subseteq Cells
         /\ permits' \in Nat
         /\ tokens' \subseteq Tasks /\ IsFiniteSet(tokens')
         /\ Places'
         /\ HoldersPlaced'
  <1>1. at' = [at EXCEPT ![t] = Idle] /\ Idle \in [Sides -> Kinds \cup {"idle", "ready"}]
    BY DEF LetGo, Idle
  <1>2. holds' = {h \in holds : h[1] # t} /\ taken' \subseteq taken /\ tokens' = tokens \ {t}
    BY DEF LetGo, TakenWithout
  <1>3. permits' \in Nat
    BY DEF LetGo, PermitsWithout, TypeOK
  <1>4. IsFiniteSet(tokens')
    BY <1>2, FS_RemoveElement
  <1>5. Places'
    BY <1>1 DEF Places, TypeOK
  <1>6. HoldersPlaced'
    BY <1>1, <1>2 DEF HoldersPlaced, TypeOK
  <1>. QED
    BY <1>1, <1>2, <1>3, <1>4, <1>5, <1>6 DEF TypeOK

LEMMA LetGoConserves ==
  ASSUME TypeOK, IsFiniteSet(tokens), LimiterConserved, NEW t \in Tasks,
         LetGo(t), NEW q, pc' = [pc EXCEPT ![t] = q]
  PROVE  LimiterConserved'
  <1>1. Cardinality(tokens) \in Nat /\ permits \in Nat /\ permits + Cardinality(tokens) = Permits
    BY FS_CardinalityType DEF LimiterConserved, TypeOK
  <1>2. permits' + Cardinality(tokens') = Permits
    <2>1. CASE t \in tokens
      <3>1. Cardinality(tokens \ {t}) = Cardinality(tokens) - 1
        BY <2>1, FS_RemoveElement
      <3>2. tokens' = tokens \ {t} /\ permits' = permits + 1
        BY <2>1 DEF LetGo, PermitsWithout
      <3>. QED
        BY <3>1, <3>2, <1>1
    <2>2. CASE t \notin tokens
      <3>1. tokens' = tokens /\ permits' = permits
        BY <2>2 DEF LetGo, PermitsWithout
      <3>. QED
        BY <3>1, <1>1
    <2>. QED
      BY <2>1, <2>2
  <1>3. ASSUME NEW u \in tokens'
        PROVE  pc'[u] = "link" \/ (pc'[u] = "build" /\ \E s \in Sides : <<u, s>> \in holds')
    <2>1. u \in tokens /\ u # t /\ u \in Tasks
      BY DEF LetGo, TypeOK
    <2>2. pc'[u] = pc[u] /\ \A s \in Sides : <<u, s>> \in holds => <<u, s>> \in holds'
      BY <2>1 DEF LetGo, TypeOK
    <2>. QED
      BY <2>1, <2>2 DEF LimiterConserved
  <1>. QED
    BY <1>2, <1>3 DEF LimiterConserved

(* So does any step of a task that has no permit and lets go of no cell. *)
LEMMA QuietConserves ==
  ASSUME TypeOK, LimiterConserved, NEW t \in Tasks, t \notin tokens \/ pc' = pc,
         UNCHANGED <<permits, tokens>>, NEW q, pc' = [pc EXCEPT ![t] = q],
         holds \subseteq holds'
  PROVE  LimiterConserved'
  BY DEF LimiterConserved, TypeOK

LEMMA StepKeepsTurn ==
  ASSUME TypeOK, SpawnedInTurn, NEW t \in Tasks, pc[t] # "unspawned",
         NEW q, pc' = [pc EXCEPT ![t] = q], UNCHANGED mainVars
  PROVE  SpawnedInTurn'
  <1>1. main # "spawn"
    BY DEF SpawnedInTurn
  <1>2. ASSUME main = "join", NEW u \in Minimals PROVE pc'[u] = "unspawned"
    <2>1. pc[u] = "unspawned" /\ u \in Tasks
      BY <1>2 DEF SpawnedInTurn, Tasks
    <2>. QED
      BY <2>1 DEF TypeOK
  <1>. QED
    BY <1>1, <1>2 DEF SpawnedInTurn, mainVars

(* A step that holds no new cell and moves no holder keeps who holds what. *)
LEMMA QuietKeepsOne ==
  ASSUME TypeOK, OneInitializer, UNCHANGED <<holds, taken, full>>,
         \A h \in holds : at'[h[1]][h[2]] = at[h[1]][h[2]]
  PROVE  OneInitializer'
  <1>. DEFINE R == {}
  <1>1. /\ R \in SUBSET holds
        /\ holds' = holds \ R
        /\ taken' = taken \ {Cell(h[1], h[2]) : h \in R}
        /\ full' \subseteq full \cup {Cell(h[1], h[2]) : h \in R}
        /\ \A h \in holds' : at'[h[1]][h[2]] = at[h[1]][h[2]]
    OBVIOUS
  <1>. HIDE DEF R
  <1>. QED
    BY <1>1, ReleaseKeepsOne

-----------------------------------------------------------------------------
(* Every step of a task keeps the invariant: first those that take or give *)
(* back the permit of one cell, then those that let go of everything, then *)
(* those that hold nothing. *)
LEMMA ReuseKeepsInv ==
  ASSUME Inv, NEW t \in Tasks, NEW s \in Sides, Reuse(t, s), UNCHANGED mainVars
  PROVE  Inv'
  <1>. USE DEF Inv
  <1>1. at[t][s] \in Kinds /\ <<t, s>> \notin holds /\ UNCHANGED <<mainVars, pc, holds, taken,
             full, permits, tokens, archive, results, bad>>
        /\ at' = [at EXCEPT ![t] = After(t, s)]
    BY DEF Reuse
  <1>2. /\ pc[t] \in {"gen", "build"}
        /\ pc' = [pc EXCEPT ![t] = pc[t]]
        /\ holds' = holds \ {<<t, s>>}
    <2>1. pc[t] \in {"gen", "build"}
      BY <1>1, AtCell
    <2>2. pc' = [pc EXCEPT ![t] = pc[t]]
      BY <1>1 DEF TypeOK
    <2>3. holds' = holds \ {<<t, s>>}
      BY <1>1
    <2>. QED
      BY <2>1, <2>2, <2>3
  <1>3. /\ at' \in [Tasks -> [Sides -> Kinds \cup {"idle", "ready"}]]
        /\ Places' /\ HoldersPlaced'
        /\ \A h \in holds' : at'[h[1]][h[2]] = at[h[1]][h[2]]
    BY <1>1, <1>2, AdvanceKeepsPlaces
  <1>4. OneInitializer'
    BY <1>1, <1>3, QuietKeepsOne
  <1>5. LimiterConserved'
    BY <1>1, <1>2, QuietConserves
  <1>6. SpawnedInTurn'
    BY <1>1, <1>2, StepKeepsTurn DEF mainVars
  <1>7. TypeOK'
    BY <1>1, <1>3 DEF TypeOK, mainVars
  <1>. QED
    BY <1>1, <1>3, <1>4, <1>5, <1>6, <1>7

LEMMA ClaimKeepsInv ==
  ASSUME Inv, NEW t \in Tasks, NEW s \in Sides, Claim(t, s), UNCHANGED mainVars
  PROVE  Inv'
  <1>. USE DEF Inv
  <1>1. /\ at[t][s] \in Kinds
        /\ holds' = holds \cup {<<t, s>>} /\ taken' = taken \cup {Cell(t, s)}
        /\ UNCHANGED <<mainVars, pc, at, full, permits, tokens, archive, results, bad>>
    BY DEF Claim
  <1>2. pc[t] \in {"gen", "build"} /\ pc' = [pc EXCEPT ![t] = pc[t]]
    BY <1>1, AtCell DEF TypeOK
  <1>3. OneInitializer'
    BY ClaimKeepsOne
  <1>4. LimiterConserved'
    BY <1>1, <1>2, QuietConserves
  <1>5. SpawnedInTurn'
    BY <1>1, <1>2, StepKeepsTurn DEF mainVars
  <1>6. TypeOK'
    BY <1>1, CellType DEF TypeOK, mainVars
  <1>7. Places' /\ HoldersPlaced'
    BY <1>1 DEF Places, HoldersPlaced
  <1>. QED
    BY <1>1, <1>3, <1>4, <1>5, <1>6, <1>7

(* The two ways to fill a cell that the task holds. *)
LEMMA FillKeepsInv ==
  ASSUME Inv, NEW t \in Tasks, NEW s \in Sides, Produce(t, s) \/ Compiled(t, s),
         UNCHANGED mainVars
  PROVE  /\ TypeOK' /\ IsFiniteSet(tokens')
         /\ Places' /\ HoldersPlaced' /\ OneInitializer' /\ SpawnedInTurn'
  <1>. USE DEF Inv
  <1>1. /\ <<t, s>> \in holds /\ holds' = holds \ {<<t, s>>}
        /\ taken' = taken \ {Cell(t, s)} /\ full' = full \cup {Cell(t, s)}
        /\ at' = [at EXCEPT ![t] = After(t, s)]
        /\ pc[t] \in {"gen", "build"}
        /\ UNCHANGED <<mainVars, pc, results, bad>>
    BY DEF Produce, Compiled
  <1>2. at[t][s] \in Kinds /\ pc' = [pc EXCEPT ![t] = pc[t]]
    BY <1>1 DEF HoldersPlaced, TypeOK
  <1>3. /\ at' \in [Tasks -> [Sides -> Kinds \cup {"idle", "ready"}]]
        /\ Places' /\ HoldersPlaced'
        /\ \A h \in holds' : at'[h[1]][h[2]] = at[h[1]][h[2]]
    BY <1>1, <1>2, AdvanceKeepsPlaces
  <1>4. OneInitializer'
    <2>. DEFINE R == {<<t, s>>}
    <2>1. {Cell(h[1], h[2]) : h \in R} = {Cell(t, s)}
      OBVIOUS
    <2>2. R \in SUBSET holds /\ holds' = holds \ R
      BY <1>1
    <2>3. /\ taken' = taken \ {Cell(h[1], h[2]) : h \in R}
          /\ full' \subseteq full \cup {Cell(h[1], h[2]) : h \in R}
      BY <1>1, <2>1
    <2>4. OneInitializer /\ \A h \in holds' : at'[h[1]][h[2]] = at[h[1]][h[2]]
      BY <1>3
    <2>. HIDE DEF R, Inv
    <2>. QED
      BY <2>2, <2>3, <2>4, ReleaseKeepsOne
  <1>5. permits' \in Nat /\ tokens' \subseteq tokens /\ archive' \in [Units -> Nat]
    BY DEF Produce, Compiled, TypeOK
  <1>6. IsFiniteSet(tokens')
    BY <1>5, FS_Subset
  <1>7. SpawnedInTurn'
    BY <1>1, <1>2, StepKeepsTurn DEF mainVars
  <1>8. TypeOK'
    BY <1>1, <1>2, <1>3, <1>5, CellType DEF TypeOK, mainVars
  <1>. QED
    BY <1>3, <1>4, <1>6, <1>7, <1>8

LEMMA FillConserves ==
  ASSUME Inv, NEW t \in Tasks, NEW s \in Sides, Produce(t, s) \/ Compiled(t, s)
  PROVE  LimiterConserved'
  <1>. USE DEF Inv
  <1>1. /\ Cardinality(tokens) \in Nat /\ permits \in Nat
        /\ permits + Cardinality(tokens) = Permits
    BY FS_CardinalityType DEF LimiterConserved, TypeOK
  <1>2. ASSUME NEW u \in tokens', u # t
        PROVE  pc'[u] = "link" \/ (pc'[u] = "build" /\ \E x \in Sides : <<u, x>> \in holds')
    BY <1>2 DEF LimiterConserved, Produce, Compiled
  <1>3. CASE Produce(t, s)
    <2>1. permits' = permits /\ tokens' = tokens /\ t \notin tokens
      BY <1>3 DEF Produce, LimiterConserved
    <2>. QED
      BY <2>1, <1>1, <1>2 DEF LimiterConserved
  <1>4. CASE Compiled(t, s)
    <2>1. permits' = permits + 1 /\ tokens' = tokens \ {t} /\ t \in tokens
      BY <1>4 DEF Compiled
    <2>2. Cardinality(tokens') = Cardinality(tokens) - 1
      BY <2>1, FS_RemoveElement
    <2>3. permits' + Cardinality(tokens') = Permits
      BY <2>1, <2>2, <1>1
    <2>. QED
      BY <2>1, <2>3, <1>2 DEF LimiterConserved
  <1>. QED
    BY <1>3, <1>4

(* Failures, links and panics: the task lets go of what it has. *)
LEMMA LetGoKeepsInv ==
  ASSUME Inv, NEW t \in Tasks, LetGo(t), pc[t] # "unspawned",
         NEW q \in {"link", "run", "check", "done", "panicked"}, pc' = [pc EXCEPT ![t] = q],
         UNCHANGED <<mainVars, full, bad>>,
         results' \in [Tasks -> TestRunResults], archive' \in [Units -> Nat]
  PROVE  Inv'
  <1>. USE DEF Inv
  <1>1. /\ at' \in [Tasks -> [Sides -> Kinds \cup {"idle", "ready"}]]
        /\ holds' \subseteq Tasks \X Sides
        /\ taken' \subseteq Cells
        /\ permits' \in Nat
        /\ tokens' \subseteq Tasks /\ IsFiniteSet(tokens')
        /\ Places' /\ HoldersPlaced'
    BY LetGoKeepsPlaces
  <1>2. OneInitializer'
    BY LetGoKeepsOne
  <1>3. LimiterConserved'
    BY LetGoConserves
  <1>4. SpawnedInTurn'
    BY StepKeepsTurn DEF mainVars
  <1>5. TypeOK'
    BY <1>1 DEF TypeOK, mainVars
  <1>. QED
    BY <1>1, <1>2, <1>3, <1>4, <1>5

LEMMA StopsKeepInv ==
  ASSUME Inv, NEW t \in Tasks, UNCHANGED mainVars,
         \/ \E s \in Sides : GenerateFails(t, s) \/ CompileFails(t, s)
         \/ LinkBin(t) \/ Panic(t)
  PROVE  Inv'
  <1>. USE DEF Inv
  <1>1. LetGo(t) /\ UNCHANGED <<full, bad>> /\ pc[t] # "unspawned"
    BY DEF GenerateFails, CompileFails, LinkBin, Panic, TypeOK, LimiterConserved
  <1>2. archive' \in [Units -> Nat]
    <2>1. ASSUME NEW u PROVE [archive EXCEPT ![u] = @ + 1] \in [Units -> Nat]
      <3>1. archive \in [Units -> Nat]
        BY DEF TypeOK
      <3>. HIDE DEF Inv
      <3>2. CASE u \in Units
        BY <3>1, <3>2
      <3>3. CASE u \notin Units
        BY <3>1, <3>3
      <3>. QED
        BY <3>2, <3>3
    <2>2. archive' = archive \/ \E u : archive' = [archive EXCEPT ![u] = @ + 1]
      BY DEF GenerateFails, CompileFails, LinkBin, Panic
    <2>. QED
      BY <2>1, <2>2 DEF TypeOK
  <1>3. CASE \E s \in Sides : GenerateFails(t, s)
    <2>1. PICK s \in Sides : GenerateFails(t, s)
      BY <1>3
    <2>2. at[t][s] \in Kinds
      BY <2>1 DEF GenerateFails, HoldersPlaced
    <2>3. Cell(t, s) \in Cells
      BY <2>2, CellType
    <2>4. PICK e \in GenFate(Cell(t, s)) \ {"ok"} : Record(t, Generate, e)
      BY <2>1 DEF GenerateFails
    <2>5. e \in Outcome /\ Generate \in Phase /\ ~GoesOn(t, Generate, e)
      BY <2>3, <2>4, FateAssumption DEF Outcome, GoesOn, Phase, Generate, Check
    <2>6. results' \in [Tasks -> TestRunResults] /\ pc' = [pc EXCEPT ![t] = "done"]
      BY <2>4, <2>5, RecordType
    <2>. QED
      BY <1>1, <1>2, <2>6, LetGoKeepsInv
  <1>4. CASE \E s \in Sides : CompileFails(t, s)
    <2>1. Record(t, Build, "err")
      BY <1>4 DEF CompileFails
    <2>2. "err" \in Outcome /\ Build \in Phase /\ ~GoesOn(t, Build, "err")
      BY DEF Outcome, GoesOn, Phase, Generate, Build, Check
    <2>3. results' \in [Tasks -> TestRunResults] /\ pc' = [pc EXCEPT ![t] = "done"]
      BY <2>1, <2>2, RecordType
    <2>. QED
      BY <1>1, <1>2, <2>3, LetGoKeepsInv
  <1>5. CASE LinkBin(t)
    <2>1. PICK r \in LinkFate(KeyOf(t)) : Record(t, Link, r)
      BY <1>5 DEF LinkBin
    <2>2. r \in Outcome /\ Link \in Phase /\ Link # Generate
      BY FateAssumption DEF Outcome, Phase, Generate, Link, Check
    <2>3. /\ results' \in [Tasks -> TestRunResults] /\ pc' = [pc EXCEPT ![t] = pc'[t]]
          /\ pc'[t] \in {"link", "run", "check", "done"}
      BY <2>1, <2>2, RecordType
    <2>. QED
      BY <1>1, <1>2, <2>3, LetGoKeepsInv
  <1>6. CASE Panic(t)
    <2>1. pc' = [pc EXCEPT ![t] = "panicked"] /\ results' = results
      BY <1>6 DEF Panic
    <2>. QED
      BY <1>1, <1>2, <2>1, LetGoKeepsInv DEF TypeOK
  <1>. QED
    BY <1>3, <1>4, <1>5, <1>6

(* Steps of a task that holds nothing, before or after. *)
LEMMA QuietKeepsInv ==
  ASSUME Inv, NEW t \in Tasks, pc[t] \notin {"unspawned", "link"},
         \A s \in Sides : at[t][s] \notin Kinds,
         NEW q \in {"gen", "build", "link", "run", "check", "done"},
         pc' = [pc EXCEPT ![t] = q],
         NEW a \in [Sides -> Kinds \cup {"idle", "ready"}], at' = [at EXCEPT ![t] = a],
         q \notin {"gen", "build"} => a = Idle,
         q = "gen" => \A s \in Sides : a[s] \in GenKinds \cup {"ready"},
         q = "build" => a["caller"] = "lib" /\ a["callee"] = "idle",
         UNCHANGED <<mainVars, holds, taken, full, permits, tokens, archive>>,
         results' \in [Tasks -> TestRunResults], bad' \in [Tasks -> SUBSET Subtests]
  PROVE  Inv'
  <1>. USE DEF Inv
  <1>1. \A s \in Sides : <<t, s>> \notin holds
    BY DEF HoldersPlaced
  <1>2. t \notin tokens
    BY <1>1 DEF LimiterConserved
  <1>3. at' \in [Tasks -> [Sides -> Kinds \cup {"idle", "ready"}]]
    BY DEF TypeOK
  <1>4. \A h \in holds : at'[h[1]][h[2]] = at[h[1]][h[2]]
    BY <1>1 DEF TypeOK
  <1>5. Places'
    BY DEF Places, TypeOK
  <1>6. HoldersPlaced'
    BY <1>4 DEF HoldersPlaced
  <1>7. OneInitializer'
    BY <1>4, QuietKeepsOne
  <1>8. LimiterConserved'
    BY <1>2, QuietConserves
  <1>9. SpawnedInTurn'
    BY StepKeepsTurn DEF mainVars
  <1>10. TypeOK'
    <2>. HIDE DEF Inv
    <2>1. TypeOK /\ pc' \in [Tasks -> {"unspawned", "ready", "gen", "build", "link", "run",
                                       "check", "done", "panicked"}]
      BY DEF TypeOK, Inv
    <2>. QED
      BY <2>1, <1>3 DEF TypeOK, mainVars
  <1>. QED
    BY <1>5, <1>6, <1>7, <1>8, <1>9, <1>10

LEMMA IdleShape ==
  /\ Idle \in [Sides -> Kinds \cup {"idle", "ready"}]
  /\ \A s \in Sides : Idle[s] \notin Kinds
  BY KindsOfIdle DEF Idle

LEMMA QuietStepsKeepInv ==
  ASSUME Inv, NEW t \in Tasks, UNCHANGED mainVars,
         \/ SkipTest(t) \/ SkipInactive(t) \/ StartGenerate(t) \/ Generated(t)
         \/ Built(t) \/ RunBin(t) \/ CheckTest(t)
  PROVE  Inv'
  <1>. USE DEF Inv
  <1>1. results[t] \in TestRunResults
    BY DEF TypeOK
  <1>2. pc[t] \notin {"gen", "build"} => \A s \in Sides : at[t][s] \notin Kinds
    BY IdleShape DEF Places
  <1>3. pc[t] \notin {"gen", "build"} /\ at' = at => at' = [at EXCEPT ![t] = Idle]
    BY DEF Places, TypeOK
  <1>4. CASE SkipTest(t)
    <2>1. /\ pc[t] = "ready" /\ pc' = [pc EXCEPT ![t] = "done"]
          /\ UNCHANGED <<mainVars, at, holds, taken, full, permits, tokens, archive, results, bad>>
      BY <1>4 DEF SkipTest
    <2>. QED
      BY <2>1, <1>2, <1>3, IdleShape, QuietKeepsInv DEF TypeOK
  <1>5. CASE SkipInactive(t)
    <2>1. /\ pc[t] = "ready" /\ pc' = [pc EXCEPT ![t] = "done"]
          /\ UNCHANGED <<mainVars, at, holds, taken, full, permits, tokens, archive, bad>>
      BY <1>5 DEF SkipInactive
    <2>2. results' \in [Tasks -> TestRunResults]
      <3>1. results' = [results EXCEPT ![t].ran_to = Generate, ![t].out[Generate] = "skipped"]
        BY <1>5 DEF SkipInactive
      <3>2. [results[t] EXCEPT !.ran_to = Generate, !.out[Generate] = "skipped"]
               \in TestRunResults
        <4>1. Generate \in RunMode /\ "skipped" \in Outcome /\ Generate \in Phase
          BY DEF RunMode, Phase, Outcome, Skip, Generate, Check
        <4>2. [results[t].out EXCEPT ![Generate] = "skipped"] \in [Phase -> Outcome]
          BY <4>1, <1>1 DEF TestRunResults
        <4>. QED
          BY <4>1, <4>2, <1>1 DEF TestRunResults
      <3>. QED
        BY <3>1, <3>2 DEF TypeOK
    <2>. QED
      BY <2>1, <2>2, <1>2, <1>3, IdleShape, QuietKeepsInv DEF TypeOK
  <1>6. CASE StartGenerate(t)
    <2>. DEFINE a == [s \in Sides |-> "vals"]
    <2>1. /\ pc[t] = "ready" /\ pc' = [pc EXCEPT ![t] = "gen"]
          /\ at' = [at EXCEPT ![t] = a]
          /\ UNCHANGED <<mainVars, holds, taken, full, permits, tokens, archive, bad>>
      BY <1>6 DEF StartGenerate
    <2>2. results' \in [Tasks -> TestRunResults]
      <3>1. Generate \in RunMode
        BY DEF RunMode, Skip, Generate, Check
      <3>2. [results[t] EXCEPT !.ran_to = Generate] \in TestRunResults
        BY <3>1, <1>1 DEF TestRunResults
      <3>. QED
        BY <3>2, <1>6 DEF StartGenerate, TypeOK
    <2>3. /\ a \in [Sides -> Kinds \cup {"idle", "ready"}]
          /\ \A s \in Sides : a[s] \in GenKinds
      BY DEF Kinds, GenKinds
    <2>. HIDE DEF a
    <2>. QED
      BY <2>1, <2>2, <2>3, <1>2, QuietKeepsInv DEF TypeOK
  <1>7. CASE Generated(t)
    <2>. DEFINE a == IF results[t].run > Generate
                     THEN [caller |-> "lib", callee |-> "idle"] ELSE Idle
    <2>1. /\ pc[t] = "gen" /\ at' = [at EXCEPT ![t] = a] /\ Record(t, Generate, "ok")
          /\ \A s \in Sides : at[t][s] = "ready"
          /\ UNCHANGED <<mainVars, holds, taken, full, permits, tokens, archive, bad>>
      BY <1>7 DEF Generated, SidesReady
    <2>2. /\ results' \in [Tasks -> TestRunResults]
          /\ pc' = [pc EXCEPT ![t] = pc'[t]]
          /\ pc'[t] = IF results[t].run > Generate THEN "build" ELSE "done"
      <3>1. "ok" \in Outcome /\ Generate \in Phase
        BY DEF Outcome, Phase, Generate, Check
      <3>2. results' \in [Tasks -> TestRunResults] /\ pc' = [pc EXCEPT ![t] = pc'[t]]
        BY <2>1, <3>1, RecordType
      <3>3. pc' = [pc EXCEPT ![t] = IF GoesOn(t, Generate, "ok") THEN StageAfter(Generate)
                                    ELSE "done"]
        BY <2>1 DEF Record
      <3>4. StageAfter(Generate) = "build"
        BY DEF StageAfter, Generate, Build, Link, Run
      <3>. QED
        BY <3>2, <3>3, <3>4 DEF GoesOn, TypeOK
    <2>3. /\ a \in [Sides -> Kinds \cup {"idle", "ready"}]
          /\ pc'[t] = "build" => a["caller"] = "lib" /\ a["callee"] = "idle"
          /\ pc'[t] # "build" => a = Idle
      BY <2>2, IdleShape DEF Kinds, Sides
    <2>4. \A s \in Sides : at[t][s] \notin Kinds
      BY <2>1, KindsOfIdle
    <2>5. pc'[t] \in {"build", "done"}
      BY <2>2
    <2>. HIDE DEF a, Inv
    <2>. QED
      BY <2>1, <2>2, <2>3, <2>4, <2>5, QuietKeepsInv DEF Inv, TypeOK
  <1>8. CASE Built(t)
    <2>1. /\ pc[t] = "build" /\ at' = [at EXCEPT ![t] = Idle] /\ Record(t, Build, "ok")
          /\ \A s \in Sides : at[t][s] = "ready"
          /\ UNCHANGED <<mainVars, holds, taken, full, permits, tokens, archive, bad>>
      BY <1>8 DEF Built, SidesReady
    <2>2. /\ results' \in [Tasks -> TestRunResults]
          /\ pc' = [pc EXCEPT ![t] = pc'[t]]
          /\ pc'[t] \in {"link", "run", "check", "done"}
      <3>1. "ok" \in Outcome /\ Build \in Phase /\ Build # Generate
        BY DEF Outcome, Phase, Generate, Build, Check
      <3>. QED
        BY <2>1, <3>1, RecordType
    <2>3. \A s \in Sides : at[t][s] \notin Kinds
      BY <2>1, KindsOfIdle
    <2>. HIDE DEF Inv
    <2>. QED
      BY <2>1, <2>2, <2>3, IdleShape, QuietKeepsInv DEF Inv, TypeOK
  <1>9. CASE RunBin(t)
    <2>1. /\ pc[t] = "run"
          /\ UNCHANGED <<mainVars, at, holds, taken, full, permits, tokens, archive, bad>>
      BY <1>9 DEF RunBin
    <2>2. PICK r \in RunFate(KeyOf(t)) : Record(t, Run, r)
      BY <1>9 DEF RunBin
    <2>3. r \in Outcome /\ Run \in Phase /\ Run # Generate
      BY FateAssumption DEF Outcome, Phase, Generate, Run, Check
    <2>4. /\ results' \in [Tasks -> TestRunResults]
          /\ pc' = [pc EXCEPT ![t] = pc'[t]]
          /\ pc'[t] \in {"link", "run", "check", "done"}
      BY <2>2, <2>3, RecordType
    <2>. HIDE DEF Inv
    <2>. QED
      BY <2>1, <2>4, <1>2, <1>3, IdleShape, QuietKeepsInv DEF Inv, TypeOK
  <1>10. CASE CheckTest(t)
    <2>1. /\ pc[t] = "check"
          /\ UNCHANGED <<mainVars, at, holds, taken, full, permits, tokens, archive>>
      BY <1>10 DEF CheckTest
    <2>2. PICK b \in CheckFate(KeyOf(t)) :
            bad' = [bad EXCEPT ![t] = b] /\ Record(t, Check, IF b = {} THEN "ok" ELSE "err")
      BY <1>10 DEF CheckTest
    <2>3. b \in SUBSET Subtests
      BY FateAssumption
    <2>4. PICK r \in Outcome : Record(t, Check, r)
      BY <2>2 DEF Outcome
    <2>5. Check \in Phase /\ Check # Generate
      BY DEF Phase, Generate, Check
    <2>6. /\ results' \in [Tasks -> TestRunResults]
          /\ pc' = [pc EXCEPT ![t] = pc'[t]]
          /\ pc'[t] \in {"link", "run", "check", "done"}
      BY <2>4, <2>5, RecordType
    <2>7. bad' \in [Tasks -> SUBSET Subtests]
      BY <2>2, <2>3 DEF TypeOK
    <2>. HIDE DEF Inv
    <2>. QED
      BY <2>1, <2>6, <2>7, <1>2, <1>3, IdleShape, QuietKeepsInv DEF Inv, TypeOK
  <1>. QED
    BY <1>4, <1>5, <1>6, <1>7, <1>8, <1>9, <1>10

LEMMA AcquireKeepsInv ==
  ASSUME Inv, NEW t \in Tasks, Acquire(t), UNCHANGED mainVars
  PROVE  Inv'
  <1>. USE DEF Inv
  <1>1. /\ UNCHANGED <<mainVars, pc, at, holds, taken, full, archive, results, bad>>
        /\ permits' = permits - 1 /\ tokens' = tokens \cup {t}
        /\ t \notin tokens /\ permits > 0
        /\ pc[t] = "link" \/ (pc[t] = "build" /\ \E s \in Sides : <<t, s>> \in holds)
    BY DEF Acquire, Available
  <1>2. permits' \in Nat /\ tokens' \subseteq Tasks
    BY <1>1 DEF TypeOK
  <1>3. IsFiniteSet(tokens') /\ permits' + Cardinality(tokens') = Permits
    <2>1. /\ Cardinality(tokens) \in Nat /\ permits \in Nat
          /\ permits + Cardinality(tokens) = Permits
      BY FS_CardinalityType DEF LimiterConserved, TypeOK
    <2>2. IsFiniteSet(tokens') /\ Cardinality(tokens') = Cardinality(tokens) + 1
      BY <1>1, FS_AddElement
    <2>. QED
      BY <1>1, <2>1, <2>2
  <1>4. LimiterConserved'
    BY <1>1, <1>3 DEF LimiterConserved
  <1>5. Places' /\ HoldersPlaced' /\ SpawnedInTurn'
    BY <1>1 DEF Places, HoldersPlaced, SpawnedInTurn, mainVars
  <1>6. OneInitializer'
    BY <1>1, QuietKeepsOne
  <1>7. TypeOK'
    BY <1>1, <1>2 DEF TypeOK, mainVars
  <1>. QED
    BY <1>3, <1>4, <1>5, <1>6, <1>7

LEMMA TaskStepKeepsInv ==
  ASSUME Inv, NEW t \in Tasks, DoTest(t)
  PROVE  Inv'
  <1>1. UNCHANGED mainVars
    BY DEF DoTest
  <1>2. ASSUME NEW s \in Sides, Produce(t, s) \/ Compiled(t, s) PROVE Inv'
    BY <1>1, <1>2, FillKeepsInv, FillConserves DEF Inv
  <1>. QED
    BY <1>1, <1>2, ReuseKeepsInv, ClaimKeepsInv, StopsKeepInv, QuietStepsKeepInv,
       AcquireKeepsInv DEF DoTest

-----------------------------------------------------------------------------
(* The steps of main. *)
LEMMA SpawnKeepsInv ==
  ASSUME Inv, NEW S \in SUBSET Tasks, \A t \in S : pc[t] = "unspawned", Spawn(S),
         main' \in {"join", "minimize"},
         main' = "join" => \A t \in Minimals : t \notin S /\ pc[t] = "unspawned",
         main' = "minimize" => S \subseteq Minimals
  PROVE  Inv'
  <1>. USE DEF Inv
  <1>1. /\ pc' = [t \in Tasks |-> IF t \in S THEN "ready" ELSE pc[t]]
        /\ unjoined' = S
        /\ UNCHANGED <<report, minimized, at, holds, taken, full, permits, tokens,
                       archive, results, bad>>
    BY DEF Spawn
  <1>2. Places' /\ HoldersPlaced'
    <2>1. ASSUME NEW t \in S PROVE at[t] = Idle /\ pc'[t] = "ready"
      BY <1>1 DEF Places
    <2>. QED
      BY <2>1, <1>1 DEF Places, HoldersPlaced
  <1>3. OneInitializer'
    BY <1>1, QuietKeepsOne
  <1>4. LimiterConserved'
    <2>1. ASSUME NEW t \in tokens PROVE t \in Tasks /\ pc'[t] = pc[t]
      BY <1>1 DEF LimiterConserved, TypeOK
    <2>. QED
      BY <2>1, <1>1 DEF LimiterConserved
  <1>5. SpawnedInTurn'
    BY <1>1 DEF SpawnedInTurn, Tasks
  <1>6. TypeOK'
    BY <1>1 DEF TypeOK
  <1>. QED
    BY <1>1, <1>2, <1>3, <1>4, <1>5, <1>6

LEMMA MinimalsAreNew == Minimals \cap Originals = {}
  BY PlanAssumption DEF Minimals, Originals

LEMMA MainStepKeepsInv ==
  ASSUME Inv, Main
  PROVE  Inv'
  <1>. USE DEF Inv
  <1>1. CASE SpawnAll
    <2>1. \A t \in Tasks : pc[t] = "unspawned"
      BY <1>1 DEF SpawnAll, SpawnedInTurn
    <2>2. Originals \in SUBSET Tasks /\ Minimals \in SUBSET Tasks
      BY DEF Tasks
    <2>. HIDE DEF Inv
    <2>. QED
      BY <1>1, <2>1, <2>2, MinimalsAreNew, SpawnKeepsInv DEF SpawnAll
  <1>2. CASE MinimizeFailures
    <2>1. Failures \subseteq Minimals /\ \A t \in Failures : pc[t] = "unspawned" /\ t \in Tasks
      BY <1>2 DEF MinimizeFailures, SpawnedInTurn, Failures, Tasks
    <2>. HIDE DEF Inv
    <2>. QED
      BY <1>2, <2>1, SpawnKeepsInv DEF MinimizeFailures
  <1>3. ASSUME /\ UNCHANGED taskVars
               /\ main' \in {"join", "minimize", "passed", "failed", "panicked"}
               /\ main' # main => main' \notin {"join", "minimize"}
               /\ unjoined' \subseteq unjoined /\ minimized' \subseteq Minimals
               /\ report' \in [DOMAIN Plan -> Conclusions \cup {"none"}]
        PROVE  Inv'
    <2>1. Places' /\ HoldersPlaced' /\ LimiterConserved' /\ IsFiniteSet(tokens')
      BY <1>3 DEF Places, HoldersPlaced, LimiterConserved, taskVars
    <2>2. OneInitializer'
      BY <1>3, QuietKeepsOne DEF taskVars
    <2>3. SpawnedInTurn'
      BY <1>3 DEF SpawnedInTurn, taskVars
    <2>4. TypeOK'
      BY <1>3 DEF TypeOK, taskVars
    <2>. QED
      BY <2>1, <2>2, <2>3, <2>4
  <1>4. CASE AllPassed \/ ReportFailures \/ \E t \in Tasks : JoinPanics(t)
    BY <1>3, <1>4 DEF AllPassed, ReportFailures, JoinPanics, TypeOK
  <1>5. CASE \E t \in Tasks : Join(t)
    <2>1. PICK t \in Tasks : Join(t)
      BY <1>5
    <2>2. Conclude(results[t], RulesFor(t).check) \in Conclusions
      BY DEF Conclude, Conclusions
    <2>3. report' \in [DOMAIN Plan -> Conclusions \cup {"none"}]
      BY <2>1, <2>2 DEF Join, TypeOK
    <2>. QED
      BY <1>3, <2>1, <2>3 DEF Join, TypeOK
  <1>6. CASE \E t \in Tasks : JoinMinimized(t)
    <2>1. PICK t \in Tasks : JoinMinimized(t)
      BY <1>6
    <2>2. t \in Minimals
      BY <2>1 DEF JoinMinimized, NextToJoin, SpawnedInTurn
    <2>. QED
      BY <1>3, <2>1, <2>2 DEF JoinMinimized, TypeOK
  <1>. QED
    BY <1>1, <1>2, <1>4, <1>5, <1>6 DEF Main

-----------------------------------------------------------------------------
LEMMA InitInv == Init => Inv
  <1>. SUFFICES ASSUME Init PROVE Inv
    OBVIOUS
  <1>1. results \in [Tasks -> TestRunResults]
    <2>1. ASSUME NEW t \in Tasks PROVE NewResults(RulesFor(t)) \in TestRunResults
      <3>1. RulesFor(t).run \in RunMode /\ Skip \in RunMode /\ "none" \in Outcome
        BY TaskShape DEF TestRules, RunMode, Outcome, Skip, Check
      <3>. QED
        BY <3>1 DEF NewResults, TestRunResults
    <2>. QED
      BY <2>1 DEF Init
  <1>2. TypeOK
    BY <1>1, IdleShape, PermitsAssumption DEF Init, TypeOK
  <1>3. IsFiniteSet(tokens) /\ LimiterConserved
    BY FS_EmptySet, PermitsAssumption DEF Init, LimiterConserved
  <1>4. Places /\ HoldersPlaced /\ OneInitializer
    BY DEF Init, Places, HoldersPlaced, OneInitializer
  <1>5. SpawnedInTurn
    BY DEF Init, SpawnedInTurn, Tasks
  <1>. QED
    BY <1>2, <1>3, <1>4, <1>5 DEF Inv

LEMMA NextKeepsInv == Inv /\ [Next]_vars => Inv'
  <1>. SUFFICES ASSUME Inv, [Next]_vars PROVE Inv'
    OBVIOUS
  <1>1. CASE UNCHANGED vars
    <2>1. TypeOK' /\ IsFiniteSet(tokens') /\ Places' /\ HoldersPlaced'
          /\ LimiterConserved' /\ SpawnedInTurn'
      BY <1>1 DEF Inv, TypeOK, Places, HoldersPlaced, LimiterConserved, SpawnedInTurn,
                  vars, mainVars, taskVars
    <2>2. OneInitializer'
      BY <1>1, QuietKeepsOne DEF Inv, vars, taskVars
    <2>. QED
      BY <2>1, <2>2 DEF Inv
  <1>. QED
    BY <1>1, TaskStepKeepsInv, MainStepKeepsInv DEF Next, Exit

(* The inductive invariant, for any plan, rules, fates and permits.        *)
THEOREM Invariance == Spec => []Inv
  BY InitInv, NextKeepsInv, PTL DEF Spec

(* Every variable of the harness keeps its type: in particular the permits *)
(* of the limiter never go below zero and results stay in the shape that   *)
(* report_test reads.                                                      *)
THEOREM TypeCorrect == Spec => []TypeOK
  <1>1. Inv => TypeOK
    BY DEF Inv
  <1>. QED
    BY <1>1, Invariance, PTL

(* No source or library is made by two tasks at once or made again once it *)
(* is there, whatever the plan: get_or_try_init serializes every cell.     *)
THEOREM MutualExclusion == Spec => []OneInitializer
  <1>1. Inv => OneInitializer
    BY DEF Inv
  <1>. QED
    BY <1>1, Invariance, PTL

(* The concurrency limiter neither loses nor mints a permit, and a task    *)
(* that has one never waits for a cell while it does.                      *)
THEOREM PermitsConserved == Spec => []LimiterConserved
  <1>1. Inv => LimiterConserved
    BY DEF Inv
  <1>. QED
    BY <1>1, Invariance, PTL

-----------------------------------------------------------------------------
(* What a step does to the cells: at most one of them starts or is filled, *)
(* or those of one task are given up.                                      *)
LEMMA HolderOfLib ==
  ASSUME Inv, NEW t \in Tasks, NEW s \in Sides, pc[t] = "build", <<t, s>> \in holds
  PROVE  <<"lib", Unit(KeyOf(t), s)>> \notin full
  <1>1. at[t][s] \in Kinds
    BY DEF Inv, HoldersPlaced
  <1>2. at[t][s] = "lib"
    BY <1>1, AtCell DEF Inv
  <1>3. Cell(t, s) = <<"lib", Unit(KeyOf(t), s)>>
    BY <1>2 DEF Cell, CellOf
  <1>4. Cell(<<t, s>>[1], <<t, s>>[2]) \in taken
    BY DEF Inv, OneInitializer
  <1>. QED
    BY <1>3, <1>4 DEF Inv, OneInitializer

LEMMA StepKeepsLibs ==
  ASSUME Inv, [Next]_vars, NEW u \in Units, <<"lib", u>> \in full
  PROVE  archive'[u] = archive[u] /\ <<"lib", u>> \in full'
  <1>1. CASE UNCHANGED <<full, archive>>
    BY <1>1
  <1>2. ASSUME NEW t \in Tasks, NEW s \in Sides, Compiled(t, s) \/ CompileFails(t, s)
        PROVE  archive'[u] = archive[u] /\ full \subseteq full'
    <2>1. <<"lib", Unit(KeyOf(t), s)>> \notin full
      BY <1>2, HolderOfLib DEF Compiled, CompileFails
    <2>2. u # Unit(KeyOf(t), s) /\ archive \in [Units -> Nat]
      BY <2>1 DEF Inv, TypeOK
    <2>3. \/ archive' = archive
          \/ archive' = [archive EXCEPT ![Unit(KeyOf(t), s)] = @ + 1]
      BY <1>2 DEF Compiled, CompileFails
    <2>4. full \subseteq full'
      BY <1>2 DEF Compiled, CompileFails
    <2>. QED
      BY <2>2, <2>3, <2>4
  <1>3. ASSUME NEW t \in Tasks, NEW s \in Sides, Produce(t, s)
        PROVE  archive' = archive /\ full \subseteq full'
    BY <1>3 DEF Produce
  <1>4. ASSUME NEW t \in Tasks, DoTest(t),
               ~ \E s \in Sides : Compiled(t, s) \/ CompileFails(t, s) \/ Produce(t, s)
        PROVE  UNCHANGED <<full, archive>>
    BY <1>4 DEF DoTest, SkipTest, SkipInactive, StartGenerate, Reuse, Claim, GenerateFails,
                Generated, Acquire, Built, LinkBin, RunBin, CheckTest, Panic
  <1>5. ASSUME Main PROVE UNCHANGED <<full, archive>>
    BY <1>5 DEF Main, SpawnAll, AllPassed, MinimizeFailures, ReportFailures, Spawn, Join,
                JoinPanics, JoinMinimized, taskVars
  <1>6. UNCHANGED vars => UNCHANGED <<full, archive>>
    BY DEF vars, taskVars
  <1>. QED
    BY <1>1, <1>2, <1>3, <1>4, <1>5, <1>6 DEF Next, Exit

(* A library in its cell is the one every later linker gets: its archive   *)
(* is never written again, by no interleaving of any number of tests.      *)
THEOREM LibsStable == Spec => CachedLibStable
  <1>1. Inv /\ [Next]_vars =>
          [\A u \in Units : <<"lib", u>> \in full =>
             archive'[u] = archive[u] /\ <<"lib", u>> \in full']_vars
    BY StepKeepsLibs
  <1>. QED
    BY <1>1, Invariance, PTL DEF Spec, CachedLibStable

-----------------------------------------------------------------------------
(* The refinement: what a step of the harness is for the abstract memo.    *)
MemoState == [c \in Cells |-> CellState(c)]

LEMMA ClaimBegins ==
  ASSUME Inv, NEW t \in Tasks, NEW s \in Sides, Claim(t, s)
  PROVE  \E c \in Cells : M!Begin(c)
  <1>1. Cell(t, s) \in Cells /\ Cell(t, s) \notin full \cup taken
    BY CellType DEF Claim, Vacant
  <1>2. taken' = taken \cup {Cell(t, s)} /\ full' = full
    BY DEF Claim
  <1>3. CellState(Cell(t, s)) = "empty"
    BY <1>1 DEF CellState
  <1>4. MemoState' = [MemoState EXCEPT ![Cell(t, s)] = "running"]
    BY <1>1, <1>2 DEF MemoState, CellState
  <1>5. M!Begin(Cell(t, s))
    BY <1>1, <1>3, <1>4 DEF M!Begin, MemoState
  <1>. QED
    BY <1>1, <1>5

LEMMA FillFinishes ==
  ASSUME Inv, NEW t \in Tasks, NEW s \in Sides, Produce(t, s) \/ Compiled(t, s)
  PROVE  \E c \in Cells : M!Finish(c)
  <1>1. /\ <<t, s>> \in holds /\ taken' = taken \ {Cell(t, s)}
        /\ full' = full \cup {Cell(t, s)}
    BY DEF Produce, Compiled
  <1>2. Cell(<<t, s>>[1], <<t, s>>[2]) \in taken
    BY <1>1 DEF Inv, OneInitializer
  <1>3. Cell(t, s) \in Cells /\ Cell(t, s) \in taken \ full
    BY <1>2 DEF Inv, OneInitializer, TypeOK
  <1>4. CellState(Cell(t, s)) = "running"
    BY <1>3 DEF CellState
  <1>5. MemoState' = [MemoState EXCEPT ![Cell(t, s)] = "set"]
    BY <1>1, <1>3 DEF MemoState, CellState
  <1>6. M!Finish(Cell(t, s))
    BY <1>3, <1>4, <1>5 DEF M!Finish, MemoState
  <1>. QED
    BY <1>3, <1>6

LEMMA LetGoAbandons ==
  ASSUME Inv, NEW t \in Tasks, LetGo(t), full' = full
  PROVE  \E S \in SUBSET {c \in Cells : MemoState[c] = "running"} : M!Abandon(S)
  <1>1. taken' = taken \ HeldBy(t)
    BY DEF LetGo, TakenWithout
  <1>2. ASSUME NEW c \in HeldBy(t) PROVE c \in Cells /\ c \in taken \ full
    <2>1. PICK s \in Sides : <<t, s>> \in holds /\ c = Cell(t, s)
      BY DEF HeldBy
    <2>2. Cell(<<t, s>>[1], <<t, s>>[2]) \in taken
      BY <2>1 DEF Inv, OneInitializer
    <2>. QED
      BY <2>1, <2>2 DEF Inv, OneInitializer, TypeOK
  <1>3. HeldBy(t) \in SUBSET {c \in Cells : MemoState[c] = "running"}
    BY <1>2 DEF MemoState, CellState
  <1>4. M!Abandon(HeldBy(t))
    BY <1>1, <1>2 DEF M!Abandon, CellState
  <1>. QED
    BY <1>3, <1>4

LEMMA StepRefines ==
  ASSUME Inv, [Next]_vars
  PROVE  [M!Next]_MemoState
  <1>1. ASSUME UNCHANGED <<full, taken>> PROVE UNCHANGED MemoState
    BY <1>1 DEF MemoState, CellState
  <1>2. ASSUME NEW t \in Tasks, DoTest(t) PROVE [M!Next]_MemoState
    <2>1. ASSUME NEW s \in Sides, Claim(t, s) \/ Produce(t, s) \/ Compiled(t, s)
          PROVE  M!Next
      BY <2>1, ClaimBegins, FillFinishes DEF M!Next
    <2>2. ASSUME LetGo(t), full' = full PROVE M!Next
      BY <2>2, LetGoAbandons DEF M!Next, MemoState
    <2>3. CASE (\E s \in Sides : GenerateFails(t, s) \/ CompileFails(t, s)) \/ LinkBin(t) \/ Panic(t)
      BY <2>2, <2>3 DEF GenerateFails, CompileFails, LinkBin, Panic
    <2>4. CASE (\E s \in Sides : Reuse(t, s)) \/ SkipTest(t) \/ SkipInactive(t)
               \/ StartGenerate(t) \/ Generated(t) \/ Acquire(t) \/ Built(t) \/ RunBin(t)
               \/ CheckTest(t)
      BY <1>1, <2>4 DEF Reuse, SkipTest, SkipInactive, StartGenerate, Generated, Acquire,
                        Built, RunBin, CheckTest
    <2>. QED
      BY <1>2, <2>1, <2>3, <2>4 DEF DoTest
  <1>3. ASSUME Main PROVE UNCHANGED <<full, taken>>
    BY <1>3 DEF Main, SpawnAll, AllPassed, MinimizeFailures, ReportFailures, Spawn, Join,
                JoinPanics, JoinMinimized, taskVars
  <1>4. UNCHANGED vars => UNCHANGED <<full, taken>>
    BY DEF vars, taskVars
  <1>. QED
    BY <1>1, <1>2, <1>3, <1>4 DEF Next, Exit

(* The memo maps of the harness implement the abstract memo, whatever the  *)
(* tasks do with them.                                                     *)
THEOREM MemoRefinement == Spec => ImplementsMemo
  <1>1. Init => M!Init
    BY DEF Init, M!Init, CellState
  <1>2. Inv /\ [Next]_vars => [M!Next]_MemoState
    BY StepRefines
  <1>. QED
    BY <1>1, <1>2, Invariance, PTL DEF Spec, ImplementsMemo, M!Spec, MemoState
=============================================================================
