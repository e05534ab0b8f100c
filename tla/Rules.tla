------------------------------- MODULE Rules -------------------------------
(***************************************************************************)
(* The vocabulary the harness and the report share: the phases a test goes *)
(* through, what a test run records (TestRunResults), what a rule expects  *)
(* of it (TestRules), and how report_test grades the one with the other.   *)
(*                                                                         *)
(* An Option of the code is a set of at most one element: {} is None.      *)
(***************************************************************************)
EXTENDS Integers

Skip     == 0
Generate == 1
Build    == 2
Link     == 3
Run      == 4
Check    == 5

RunMode == Skip .. Check        \* ordered as the derived PartialOrd orders it
Phase   == Generate .. Check    \* the modes that have a result of their own

CheckMode ==
  [kind : {"pass", "fail", "busted"}, phase : RunMode] \cup
  [kind : {"random"}, phase : {Skip}]

TestRules == [run : RunMode, check : CheckMode]

DefaultRules == [run |-> Check, check |-> [kind |-> "pass", phase |-> Check]]

(* What one phase records: nothing, an Ok, or one of its errors.  Only the *)
(* source field can hold GenerateError::Skipped or ::Unsupported.          *)
Outcome == {"none", "ok", "err", "skipped", "unsupported"}

TestRunResults == [run : RunMode, ran_to : RunMode, out : [Phase -> Outcome]]

NewResults(rules) ==
  [run |-> rules.run, ran_to |-> Skip, out |-> [p \in Phase |-> "none"]]

SuccessAtStep(r, step, wants_pass) ==
  IF step = Skip THEN {TRUE}
  ELSE IF r.out[step] = "none" THEN {}
  ELSE {(r.out[step] = "ok") = wants_pass}

Meets_NoneIsMet(r, check) ==
  CASE check.kind = "pass"              -> FALSE \notin SuccessAtStep(r, check.phase, TRUE)
    [] check.kind \in {"fail", "busted"} -> FALSE \notin SuccessAtStep(r, check.phase, FALSE)
    [] check.kind = "random"            -> TRUE
Meets(r, check) ==
  CASE check.kind = "pass"              -> TRUE \in SuccessAtStep(r, check.phase, TRUE)
    [] check.kind \in {"fail", "busted"} -> TRUE \in SuccessAtStep(r, check.phase, FALSE)
    [] check.kind = "random"            -> TRUE

Conclusions == {"Skipped", "Passed", "Busted", "Failed"}

(* r.run is rules.run as do_test left it: an unsupported test was turned   *)
(* into a skipped one.                                                     *)
Conclude(r, check) ==
  IF r.run = Skip \/ r.out[Generate] = "skipped" THEN "Skipped"
  ELSE IF ~Meets(r, check) THEN "Failed"
  ELSE IF check.kind = "busted" THEN "Busted" ELSE "Passed"

CouldBe(r) ==
  [ run   |-> IF r.run # Check THEN {r.run} ELSE {},
    check |-> {[ kind  |-> IF TRUE \in SuccessAtStep(r, r.ran_to, TRUE)
                           THEN "pass" ELSE "busted",
                 phase |-> r.run ]} ]
=============================================================================
