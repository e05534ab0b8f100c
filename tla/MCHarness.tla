----------------------------- MODULE MCHarness -----------------------------
(***************************************************************************)
(* Small instances of Harness for TLC: the plans, the rules and the fates  *)
(* the .cfg files choose from.                                             *)
(***************************************************************************)
EXTENDS Harness, TLC

Key(test, caller, callee) ==
  [test |-> test, opts |-> "conv_c", writer |-> "harness", func |-> 0,
   caller |-> caller, callee |-> callee]

(* Two toolchains under one test: rustc_calls_cc shares its caller side    *)
(* with rustc_calls_rustc and its callee side with cc_calls_cc.            *)
PairsPlan == <<Key("t", "rustc", "rustc"), Key("t", "rustc", "cc"), Key("t", "cc", "cc")>>
SharedPlan == <<Key("t", "rustc", "rustc"), Key("t", "rustc", "cc")>>

DefaultRulesOf(plan) == [i \in DOMAIN plan |-> DefaultRules]
PairsRules == DefaultRulesOf(PairsPlan)
SharedRules == DefaultRulesOf(SharedPlan)

AlwaysOk(c) == {"ok"}
None == {}
One == {1}
Two == {1, 2}

(* Everything that can go wrong may go wrong, at any attempt. *)
AnyGen(c) == IF c[1] = "src" THEN {"ok", "err", "unsupported"} ELSE {"ok", "err"}
AnyBuild(u) == {"ok", "err", "late"}
AnyResult(k) == {"ok", "err"}
AnyMismatch(k) == SUBSET Subtests
AnyPanic == {"gen", "build", "run", "check"}

(* Failures that the tools repeat at every attempt: cc does not support    *)
(* the callee side, cc's caller side does not compile, rustc disagrees     *)
(* with itself on both subtests and the second one cannot be minimized.    *)
FixedPlan == <<Key("t", "rustc", "rustc"), Key("t", "rustc", "cc"), Key("t", "cc", "rustc")>>
FixedRules == [DefaultRulesOf(FixedPlan) EXCEPT
                 ![3].check = [kind |-> "busted", phase |-> Build]]
FixedGen(c) ==
  CASE c[1] = "src" /\ c[2].tc = "cc" /\ c[2].side = "callee" -> {"unsupported"}
    [] c[1] = "src" /\ c[2].func = 2 /\ c[2].side = "caller" -> {"err"}
    [] OTHER -> {"ok"}
FixedBuild(u) == IF u.tc = "cc" /\ u.side = "caller" THEN {"err"} ELSE {"ok"}
AllMismatch(k) == {Subtests}

(* With three tests that run (two only as far as their rules say), one      *)
(* that its rules skip and one whose key selects no function.              *)
FlakyGen(c) == CASE c[1] = "vals" -> {"ok"} [] c[1] = "tc"  -> {"ok", "err"}
                 [] OTHER -> {"ok", "unsupported"}
StopAt(p) == [run |-> p, check |-> [kind |-> "pass", phase |-> p]]
FlakyPlan == PairsPlan \o <<Key("t", "cc", "rustc"), [Key("u", "cc", "cc") EXCEPT !.func = 1]>>
FlakyRules == [DefaultRulesOf(FlakyPlan) EXCEPT ![2] = StopAt(Link), ![3] = StopAt(Generate),
                                               ![4] = StopAt(Skip)]
FlakyInactive == {FlakyPlan[5]}
=============================================================================
