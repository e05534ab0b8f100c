------------------------------- MODULE Triage -------------------------------
(***************************************************************************)
(* Keeping CI green.  A run of the suite grades every test by the rules    *)
(* that match its key (get_test_rules, report_test); for those that failed *)
(* it prints rules the user may add (compute_final_report, possible_rules).*)
(* Then the user adds them, or the tools under test change, and the suite  *)
(* runs again.  How the tests of one run interleave is Harness' subject:   *)
(* here a run of the suite is one step.                                    *)
(***************************************************************************)
EXTENDS Rules, Sequences, SequencesExt

CONSTANTS
  Plan,     \* the test keys, in the order of the loops of main
  Builtin,  \* the rules that apply on this target, in the order they are read
  Fates(_)  \* Fates(i): what the tools may make of Plan[i], a set of [Phase -> Outcome]

(* "none" stands for a phase that did not run.  Only the source of a test  *)
(* can be left out on purpose.                                             *)
ASSUME PlanAssumption == Plan \in Seq({Plan[i] : i \in DOMAIN Plan})
ASSUME BuiltinAssumption ==
  /\ Builtin \in Seq({Builtin[i] : i \in DOMAIN Builtin})
  /\ \A i \in DOMAIN Builtin : /\ Builtin[i].rules.run \subseteq RunMode
                               /\ Builtin[i].rules.check \subseteq CheckMode
ASSUME FatesAssumption ==
  \A i \in DOMAIN Plan : \A f \in Fates(i) :
    /\ f \in [Phase -> Outcome \ {"none"}]
    /\ \A p \in Phase \ {Generate} : f[p] \in {"ok", "err"}

(* What a pattern can fix of a key; opts stands for convention and repr.   *)
Parts == {"test", "opts", "variadics", "gen", "caller", "callee"}

(* TestKeyPattern::matches *)
Matches(p, k) ==
  /\ \A f \in Parts : p[f] \subseteq {k[f]}
  /\ p.toolchain \subseteq {k.caller, k.callee}

(* The pattern that parsing base_id(key) gives: what base_id leaves out as *)
(* the default becomes a wildcard.                                         *)
PatternOf_Reversed(k) ==
  [test |-> {k.test}, opts |-> {k.opts}, caller |-> {k.callee}, callee |-> {k.caller},
   toolchain |-> {}, variadics |-> {k.variadics} \ {"normal"}, gen |-> {k.gen} \ {"graffiti"}]
PatternOf(k) ==
  [test |-> {k.test}, opts |-> {k.opts}, caller |-> {k.caller}, callee |-> {k.callee},
   toolchain |-> {}, variadics |-> {k.variadics} \ {"normal"}, gen |-> {k.gen} \ {"graffiti"}]

(* A pattern has no syntax for function selectors and value writers, and   *)
(* base_id does not leave them out.                                        *)
Parses(k) == k.func = 0 /\ k.writer = "harness"

(* get_test_rules: each field comes from the last matching rule that sets it. *)
Resolve_AnyPattern(k, rules) ==
  LET set(f)  == {i \in DOMAIN rules : rules[i].rules[f] # {}}
      last(f) == CHOOSE i \in set(f) : \A j \in set(f) : j <= i
      get(f)  == IF set(f) = {} THEN DefaultRules[f] ELSE CHOOSE x \in rules[last(f)].rules[f] : TRUE
  IN  [run |-> get("run"), check |-> get("check")]
Resolve(k, rules) ==
  LET set(f)  == {i \in DOMAIN rules : Matches(rules[i].pattern, k) /\ rules[i].rules[f] # {}}
      last(f) == CHOOSE i \in set(f) : \A j \in set(f) : j <= i
      get(f)  == IF set(f) = {} THEN DefaultRules[f] ELSE CHOOSE x \in rules[last(f)].rules[f] : TRUE
  IN  [run |-> get("run"), check |-> get("check")]

(* do_test of a test that runs alone. *)
RunTest_UnsupportedIsAnError(rules, fate) ==
  LET stops  == {p \in Phase : p <= rules.run /\ fate[p] # "ok"}
      ran_to == IF stops = {} THEN rules.run ELSE CHOOSE p \in stops : \A q \in stops : p <= q
  IN  IF rules.run = Skip THEN NewResults(rules)
      ELSE [run |-> rules.run, ran_to |-> ran_to,
            out |-> [p \in Phase |-> IF p <= ran_to THEN fate[p] ELSE "none"]]
RunTest(rules, fate) ==
  LET stops  == {p \in Phase : p <= rules.run /\ fate[p] # "ok"}
      ran_to == IF stops = {} THEN rules.run ELSE CHOOSE p \in stops : \A q \in stops : p <= q
  IN  IF rules.run = Skip THEN NewResults(rules)
      ELSE [run    |-> IF fate[ran_to] = "unsupported" THEN Skip ELSE rules.run,
            ran_to |-> ran_to,
            out    |-> [p \in Phase |-> IF p <= ran_to THEN fate[p] ELSE "none"]]

-----------------------------------------------------------------------------
VARIABLES
  stage,    \* "idle", or "reported" once the suite has run
  fate,     \* fate[i]: what the tools make of Plan[i] now
  added,    \* the rules the user added, after the built-in ones
  reports,  \* reports[i]: the TestReport of Plan[i] in the last run
  last      \* whether there was a run before, and its rules, fates and reports

vars == <<stage, fate, added, reports, last>>

Unreported == [results |-> NewResults(DefaultRules), check |-> DefaultRules.check,
               conclusion |-> "Skipped"]

Init ==
  /\ stage = "idle"
  /\ fate \in {f \in [DOMAIN Plan -> UNION {Fates(i) : i \in DOMAIN Plan}] :
                 \A i \in DOMAIN Plan : f[i] \in Fates(i)}
  /\ added = <<>>
  /\ reports = [i \in DOMAIN Plan |-> Unreported]
  /\ last = [ran |-> FALSE, fate |-> fate, added |-> added, reports |-> reports]

Report(i) ==
  LET rules   == Resolve(Plan[i], Builtin \o added)
      results == RunTest(rules, fate[i])
  IN  [results |-> results, check |-> rules.check, conclusion |-> Conclude(results, rules.check)]

(* One run of abi-cafe. *)
RunSuite ==
  /\ stage = "idle"
  /\ stage' = "reported"
  /\ reports' = [i \in DOMAIN Plan |-> Report(i)]
  /\ UNCHANGED <<fate, added, last>>

Failing(rs) == {i \in DOMAIN Plan : rs[i].conclusion = "Failed"}
Suggested(rs) == {i \in Failing(rs) : Parses(Plan[i])}

(* The elements of seq that are in S, in their order.                      *)
Only(seq, S) ==
  LET prefix[n \in 0 .. Len(seq)] ==
        IF n = 0 THEN <<>>
        ELSE IF seq[n] \in S THEN Append(prefix[n - 1], seq[n]) ELSE prefix[n - 1]
  IN  prefix[Len(seq)]

(* possible_rules, in the order of the reports. *)
PossibleRules(rs) ==
  LET in_turn == Only([i \in DOMAIN Plan |-> i], Suggested(rs))
  IN  [n \in DOMAIN in_turn |->
         [pattern |-> PatternOf(Plan[in_turn[n]]), rules |-> CouldBe(rs[in_turn[n]].results)]]

Remember ==
  last' = [ran |-> TRUE, fate |-> fate, added |-> added, reports |-> reports]

(* The user adds what the report suggests, in place of what an earlier one *)
(* suggested for the same key: a TOML table has a key only once.           *)
Adopt ==
  LET new  == PossibleRules(reports)
      kept == {r \in ToSet(added) : \A n \in DOMAIN new : new[n].pattern # r.pattern}
  IN  /\ stage = "reported" /\ new # <<>>
      /\ stage' = "idle"
      /\ added' = Only(added, kept) \o new
      /\ Remember
      /\ UNCHANGED <<fate, reports>>

(* A compiler is fixed, or broken. *)
Upgrade(i) ==
  /\ stage = "reported"
  /\ \E f \in Fates(i) \ {fate[i]} : fate' = [fate EXCEPT ![i] = f]
  /\ stage' = "idle"
  /\ Remember
  /\ UNCHANGED <<added, reports>>

Next == RunSuite \/ Adopt \/ \E i \in DOMAIN Plan : Upgrade(i)
Spec == Init /\ [][Next]_vars

-----------------------------------------------------------------------------
(* Properties: what the reports of two consecutive runs have to do with    *)
(* each other.                                                             *)

Rerun   == stage = "reported" /\ last.ran
Adopted == Rerun /\ last.fate = fate /\ last.added # added
AdoptedFor(k) == {i \in Suggested(last.reports) : Matches(PatternOf(Plan[i]), k)}

(* A failure in the last phase its rules allow is settled by the rule that *)
(* the report suggested for it, unless the key of another failed test      *)
(* speaks for this test too.                                               *)
LastPhaseSettles ==
  Adopted => \A i \in Suggested(last.reports) :
    /\ last.reports[i].results.ran_to = last.reports[i].results.run
    /\ AdoptedFor(Plan[i]) \subseteq {i}
    => reports[i].conclusion \in {"Passed", "Busted"}

(* Adding rules for some tests leaves the verdict on all others alone.     *)
OnlyMatchedMove ==
  Adopted => \A i \in DOMAIN Plan :
    reports[i].conclusion # last.reports[i].conclusion => AdoptedFor(Plan[i]) # {}

(* A test that was as expected and whose graded phase now ends in another  *)
(* way, is skipped or never reached, is never reported as expected again:  *)
(* neither a regression nor a fix of a known failure goes by in silence.   *)
ChangeIsNoticed ==
  Rerun /\ last.added = added => \A i \in DOMAIN Plan :
    LET phase == reports[i].check.phase
    IN  /\ last.reports[i].conclusion \in {"Passed", "Busted"}
        /\ reports[i].check.kind # "random" /\ phase # Skip
        /\ reports[i].results.out[phase] # last.reports[i].results.out[phase]
        => reports[i].conclusion \in {"Failed", "Skipped"}

(* What a toolchain does not support is never a failure, whatever rules    *)
(* pile up.                                                                *)
UnsupportedNeverFails ==
  stage = "reported" => \A i \in DOMAIN Plan :
    fate[i][Generate] \in {"unsupported", "skipped"} => reports[i].conclusion = "Skipped"

(* "Compute what the annotation *could* be to make CI green": once every   *)
(* failure got the rule that was suggested for it, a run with the same     *)
(* tools has no failure.  (Checked where every key names one test.)        *)
SuggestionsMakeGreen == Adopted => Failing(reports) = {}
=============================================================================
