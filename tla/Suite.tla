-------------------------------- MODULE Suite --------------------------------
(***************************************************************************)
(* What a run of abi-cafe promises: every test is done once, with results  *)
(* that it could get if there were no other tests, and they never change;  *)
(* the exit code says whether all of them are as the rules expect.  It     *)
(* knows of no tasks, cells, permits or schedules.  Harness implements it. *)
(***************************************************************************)
EXTENDS Rules

CONSTANTS
  Tests,    \* the tests to run
  Rule(_),  \* Rule(t): the TestRules of t
  May(_, _),\* May(t, p): what phase p of t may come to, if t gets there
  MayPanic  \* whether the process may panic

VARIABLES
  results,  \* results[t]: the TestRunResults of t, {} until it is done
  exit      \* "none" until the process ends

vars == <<results, exit>>

(* The phases that t may get to, and the results it may end with in p. *)
Reach(t) == {p \in Phase : p <= Rule(t).run /\ \A q \in Phase : q < p => "ok" \in May(t, q)}
EndsIn(t, p) ==
  {[run    |-> IF r = "unsupported" THEN Skip ELSE Rule(t).run,
    ran_to |-> p,
    out    |-> [q \in Phase |-> IF q < p THEN "ok" ELSE IF q = p THEN r ELSE "none"]] :
     r \in {x \in May(t, p) : x = "ok" => p = Rule(t).run}}
Alone(t) == IF Rule(t).run = Skip THEN {NewResults(Rule(t))}
            ELSE UNION {EndsIn(t, p) : p \in Reach(t)}

Init ==
  /\ results = [t \in Tests |-> {}]
  /\ exit = "none"

Do(t) ==
  /\ results[t] = {}
  /\ \E r \in Alone(t) : results' = [results EXCEPT ![t] = {r}]
  /\ UNCHANGED exit

(* The number of failed tests decides the exit code. *)
HasFailed(t) == \E r \in results[t] : Conclude(r, Rule(t).check) = "Failed"
Finish ==
  /\ exit = "none" /\ \A t \in Tests : results[t] # {}
  /\ exit' = IF \E t \in Tests : HasFailed(t) THEN "failed" ELSE "passed"
  /\ UNCHANGED results

Panic ==
  /\ exit = "none" /\ MayPanic
  /\ exit' = "panicked"
  /\ UNCHANGED results

Next == (\E t \in Tests : Do(t)) \/ Finish \/ Panic
Spec == Init /\ [][Next]_vars
=============================================================================
