------------------------------ MODULE MCTriage ------------------------------
(***************************************************************************)
(* Small instances of Triage: three keys of one test (its normal and its   *)
(* variadic functions, another pairing), with built-in rules.              *)
(***************************************************************************)
EXTENDS Triage, TLC

Key(variadics, caller, callee) ==
  [test |-> "t", opts |-> "conv_c", variadics |-> variadics, gen |-> "graffiti",
   func |-> 0, writer |-> "harness", caller |-> caller, callee |-> callee]

AnyPattern == [f \in Parts \cup {"toolchain"} |-> {}]
Rule(pattern, run, kind, phase) ==
  [pattern |-> pattern, rules |-> [run   |-> run,
                                   check |-> {[kind |-> kind, phase |-> phase]}]]

(* The way of a test whose phases succeed before p and give r in p. *)
Stops(p, r) == [q \in Phase |-> IF q = p THEN r ELSE "ok"]
Works == [q \in Phase |-> "ok"]

CafePlan == <<Key("normal", "rustc", "cc"), Key("variadic", "rustc", "cc"),
              Key("normal", "cc", "rustc"),
              [Key("normal", "cc", "cc") EXCEPT !.gen = "random7"],
              [Key("normal", "cc", "cc") EXCEPT !.writer = "print"]>>
CafeBuiltin ==
  <<Rule([AnyPattern EXCEPT !.toolchain = {"rustc"}], {Link}, "pass", Link),
    Rule([AnyPattern EXCEPT !.caller = {"rustc"}], {Check}, "pass", Check),
    Rule([AnyPattern EXCEPT !.variadics = {"variadic"}], {}, "random", Skip),
    Rule([AnyPattern EXCEPT !.gen = {"random7"}], {}, "fail", Check)>>
CafeFates(i) ==
  CASE i = 1 -> {Works, Stops(Check, "err"), Stops(Build, "err")}
    [] i = 2 -> {Works, Stops(Check, "err")}
    [] i = 3 -> {Works, Stops(Link, "err"), Stops(Generate, "unsupported")}
    [] i = 4 -> {Works, Stops(Check, "err")}
    [] i = 5 -> {Stops(Run, "err")}

OnePlan == <<Key("normal", "rustc", "cc"), Key("normal", "cc", "rustc")>>
NoRules == <<>>
AnyFate(i) == {Works} \cup {Stops(p, "err") : p \in Phase}
=============================================================================
