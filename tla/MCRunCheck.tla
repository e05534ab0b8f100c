----------------------------- MODULE MCRunCheck -----------------------------
(***************************************************************************)
(* A small instance of RunCheck: functions 0 and 2 of a program (1 is not  *)
(* selected).  Function 0 takes a tagged union with one field and returns  *)
(* a plain value, function 2 takes a long double and a plain value.        *)
(***************************************************************************)
EXTENDS RunCheck, TLC

TwoFuncs == <<0, 2>>
ArgsOf(f) == IF f = 0 THEN <<2, 1>> ELSE <<1, 1>>
InputsOf(f) == IF f = 0 THEN 1 ELSE 2
TypeOf(f, v) ==
  CASE f = 0 /\ v = 0 -> "tag"
    [] f = 2 /\ v = 0 -> "long double"
    [] OTHER -> "plain"
InsideOf(f, v) == IF f = 0 /\ v = 0 THEN {1} ELSE {}
=============================================================================
