------------------------------ MODULE RunCheck ------------------------------
(***************************************************************************)
(* One run of a test binary and what the harness makes of it.  The binary  *)
(* is the generated caller and callee: for each function the caller says   *)
(* set_func and reports its inputs, the callee says set_func and reports   *)
(* inputs and outputs, the caller reports the outputs; a last line says    *)
(* that all is done.  The lines go through stdout, which is read when the  *)
(* process is over (run_bin_test), into one buffer per side, and the two   *)
(* buffers are compared value by value (check_test).  It is the disagreeing*)
(* and the crashing binaries that the harness exists for.                  *)
(***************************************************************************)
EXTENDS Integers, Sequences, FiniteSets, SequencesExt

CONSTANTS
  Desired,      \* active_funcs: the indices of the functions under test, in order
  Args(_),      \* Args(f): the value counts of the arguments of f, outputs last
  Inputs(_),    \* how many of them are inputs
  Type(_, _),   \* Type(f, v): "tag", "long double" or "plain" type of a value of f
  Inside(_, _), \* Inside(f, v): the values in the variant that tag v selects
  X87,          \* has_x87_long_double
  Noise         \* how many lines of others (a runner, say) may be mixed in

Sides == {"caller", "callee"}
Funcs == ToSet(Desired)

(* absolute_val_idx counts the values of a function through its arguments. *)
Before_PerArg(f, a) == 0
Before(f, a) ==
  LET upto[n \in 0 .. Len(Args(f))] == IF n = 0 THEN 0 ELSE upto[n - 1] + Args(f)[n]
  IN  upto[a - 1]
ValsOf(f, a) == {Before(f, a) + n : n \in 0 .. Args(f)[a] - 1}
Vals(f) == UNION {ValsOf(f, a) : a \in DOMAIN Args(f)}

(* all_funcs is in order.  The fields of a variant come after its tag.     *)
ASSUME DesiredAssumption ==
  /\ Desired \in Seq(Nat)
  /\ \A m, n \in DOMAIN Desired : m < n => Desired[m] < Desired[n]
ASSUME ArgsAssumption ==
  \A f \in Funcs : Args(f) \in Seq(Nat) /\ Inputs(f) \in 0 .. Len(Args(f))
ASSUME TypeAssumption ==
  \A f \in Funcs : \A v \in Vals(f) :
    /\ Type(f, v) \in {"tag", "long double", "plain"}
    /\ Inside(f, v) \subseteq {w \in Vals(f) : v < w}
ASSUME X87Assumption == X87 \in BOOLEAN
ASSUME NoiseAssumption == Noise \in Nat

(* What the bytes of a value can be: as the generator gave them, other     *)
(* bytes (u32::MAX for a tag), and for a long double also other padding.   *)
Bytes(f, v) ==
  CASE Type(f, v) = "tag"         -> {"expected", "poison"}
    [] Type(f, v) = "long double" -> {"expected", "other padding", "other"}
    [] Type(f, v) = "plain"       -> {"expected", "other"}

(* The lines of the generated code, in the order they are executed.        *)
FuncLine(s, f)   == [info |-> "func", id |-> s, func |-> f]
ValLine(s, f, v) == [info |-> "val", id |-> s, func |-> f, val |-> v]

ArgLines(s, f, args) ==
  FlattenSeq([a \in DOMAIN args |->
    [n \in 1 .. Args(f)[args[a]] |-> ValLine(s, f, Before(f, args[a]) + n - 1)]])

CallLines(f) ==
  LET ins  == [a \in 1 .. Inputs(f) |-> a]
      outs == [a \in 1 .. Len(Args(f)) - Inputs(f) |-> Inputs(f) + a]
  IN  <<FuncLine("caller", f)>> \o ArgLines("caller", f, ins)
      \o <<FuncLine("callee", f)>> \o ArgLines("callee", f, ins \o outs)
      \o ArgLines("caller", f, outs)

Program == FlattenSeq([n \in DOMAIN Desired |-> CallLines(Desired[n])])
           \o <<[info |-> "done"]>>

VARIABLES
  at,        \* the next line of Program
  saw,       \* saw[s]: what side s saw, a set of <<f, v, bytes>>
  status,    \* of the process: "running", "success" or "failure"
  stdout,    \* the lines it wrote
  cut,       \* whether lines of the program were lost with the process
  buf,       \* buf[s]: the TestBuffer of side s
  clean,     \* finished_clean
  run,       \* the result of run_bin_test, "none" while it reads
  blame,     \* blame[s]: the function and value index a bad exit is blamed on
  check      \* check[f]: the set of values check_test found mismatched (one at most)

childVars == <<at, saw, status, stdout, cut>>
vars == <<childVars, buf, clean, run, blame, check>>

(* vals holds the bytes written, len the length of vals of each function.  *)
NewBuffer == [vals |-> {}, len |-> [f \in Funcs |-> 0], cur_func |-> {},
              missing_set_func |-> FALSE, double_writes |-> {}]

Init ==
  /\ at = 1
  /\ saw = [s \in Sides |-> {}]
  /\ status = "running"
  /\ stdout = <<>>
  /\ cut = FALSE
  /\ buf = [s \in Sides |-> NewBuffer]
  /\ clean = FALSE
  /\ run = "none"
  /\ blame = [s \in Sides |-> <<>>]
  /\ check = [f \in Funcs |-> {}]

-----------------------------------------------------------------------------
(* The process *)

(* A side that reads another variant than the expected one reports nothing *)
(* of the variant's fields.                                                *)
Hidden(line) ==
  \E t \in Vals(line.func) : /\ line.val \in Inside(line.func, t)
                             /\ <<line.func, t, "poison">> \in saw[line.id]

Report ==
  /\ status = "running" /\ at <= Len(Program) /\ Program[at].info = "val"
  /\ LET line == Program[at]
     IN  IF Hidden(line) THEN UNCHANGED <<saw, stdout>>
         ELSE \E b \in Bytes(line.func, line.val) :
                /\ saw' = [saw EXCEPT ![line.id] = @ \cup {<<line.func, line.val, b>>}]
                /\ stdout' = Append(stdout, [info |-> "val", id |-> line.id,
                                             val |-> line.val, bytes |-> b])
  /\ at' = at + 1
  /\ UNCHANGED <<status, cut>>

SayFuncOrDone ==
  /\ status = "running" /\ at <= Len(Program) /\ Program[at].info # "val"
  /\ stdout' = Append(stdout, Program[at])
  /\ at' = at + 1
  /\ UNCHANGED <<saw, status, cut>>

(* Something else writes a line to the same stdout. *)
Interject ==
  /\ status = "running"
  /\ Len(SelectSeq(stdout, LAMBDA l : l.info = "noise")) < Noise
  /\ stdout' = Append(stdout, [info |-> "noise"])
  /\ UNCHANGED <<at, saw, status, cut>>

Return ==
  /\ status = "running" /\ at > Len(Program)
  /\ status' = "success"
  /\ UNCHANGED <<at, saw, stdout, cut>>

(* The process is gone, and with it what stdout still buffered: nothing    *)
(* when main is Rust (line buffered), any number of lines when it is C.    *)
LoseBuffered ==
  \E n \in 0 .. Len(stdout) :
    /\ stdout' = SubSeq(stdout, 1, n)
    /\ cut' = \E i \in n + 1 .. Len(stdout) : stdout[i].info # "noise"

Crash ==
  /\ status = "running"
  /\ status' = "failure"
  /\ LoseBuffered
  /\ UNCHANGED <<at, saw>>

(* It ends, with a good status, where it should not: exit in the called    *)
(* code, or a runner that does not pass the status of a crash on.          *)
EndEarly ==
  /\ status = "running"
  /\ status' = "success"
  /\ LoseBuffered
  /\ UNCHANGED <<at, saw>>

Child ==
  /\ Report \/ SayFuncOrDone \/ Interject \/ Return \/ Crash \/ EndEarly
  /\ UNCHANGED <<buf, clean, run, blame, check>>

-----------------------------------------------------------------------------
(* run_bin_test *)

BytesOf(b, f, v) == {x \in {"expected", "other", "other padding", "poison"} :
                       <<f, v, x>> \in b.vals}

SetFunc_Once(b, f) == IF b.cur_func = {} THEN [b EXCEPT !.cur_func = {f}] ELSE b
SetFunc(b, f) == [b EXCEPT !.cur_func = {f}]

WriteVal_Pushes(b, v, bytes) ==
  IF b.cur_func = {} THEN [b EXCEPT !.missing_set_func = TRUE]
  ELSE LET f == CHOOSE x \in b.cur_func : TRUE
       IN  [b EXCEPT !.len[f] = @ + 1, !.vals = @ \cup {<<f, b.len[f], bytes>>}]
WriteVal(b, v, bytes) ==
  IF b.cur_func = {} THEN [b EXCEPT !.missing_set_func = TRUE]
  ELSE LET f == CHOOSE x \in b.cur_func : TRUE
           wider == [b EXCEPT !.len[f] = IF @ > v THEN @ ELSE v + 1]
       IN  IF BytesOf(b, f, v) # {} THEN [wider EXCEPT !.double_writes = @ \cup {<<f, v>>}]
           ELSE [wider EXCEPT !.vals = @ \cup {<<f, v, bytes>>}]

ReadLine ==
  /\ status # "running" /\ run = "none" /\ stdout # <<>>
  /\ LET line == Head(stdout)
     IN  CASE line.info = "func" ->
                /\ buf' = [buf EXCEPT ![line.id] = SetFunc(@, line.func)]
                /\ UNCHANGED clean
           [] line.info = "val" ->
                /\ buf' = [buf EXCEPT ![line.id] = WriteVal(@, line.val, line.bytes)]
                /\ UNCHANGED clean
           [] line.info = "done"  -> clean' = TRUE /\ UNCHANGED buf
           [] line.info = "noise" -> clean' = FALSE /\ UNCHANGED buf
  /\ stdout' = Tail(stdout)
  /\ UNCHANGED <<at, saw, status, cut, run, blame, check>>

(* best_vals: the last function a side announced (0 if none) and the last  *)
(* value it reported there.                                                *)
BestVals(b) ==
  LET f   == IF b.cur_func = {} THEN 0 ELSE CHOOSE x \in b.cur_func : TRUE
      len == IF b.cur_func = {} THEN 0 ELSE b.len[f]
  IN  <<f, IF len = 0 THEN 0 ELSE len - 1>>

Decided_TrustsStatus ==
  IF status = "failure" THEN "bad exit"
  ELSE IF \E s \in Sides : buf[s].missing_set_func THEN "missing set_func"
  ELSE IF \E s \in Sides : buf[s].double_writes # {} THEN "double write"
  ELSE "ok"
Decided ==
  IF status = "failure" THEN "bad exit"
  ELSE IF ~clean THEN "invalid messages"
  ELSE IF \E s \in Sides : buf[s].missing_set_func THEN "missing set_func"
  ELSE IF \E s \in Sides : buf[s].double_writes # {} THEN "double write"
  ELSE "ok"

-----------------------------------------------------------------------------
(* check_test *)

(* bytes_agree and the three tag cases of check_val. *)
ValAgrees_CallerOnly(f, v, caller, callee) ==
  IF Type(f, v) = "tag" THEN caller = {"expected"} ELSE caller = callee
ValAgrees(f, v, caller, callee) ==
  CASE Type(f, v) = "tag"   -> caller = {"expected"} /\ callee = {"expected"}
    [] Type(f, v) = "long double" /\ X87 ->
         LET value(bs) == {IF b = "other padding" THEN "expected" ELSE b : b \in bs}
         IN  value(caller) = value(callee)
    [] OTHER                -> caller = callee

(* The values that stand out; check_func stops at the first one.           *)
Mismatches(f) ==
  {v \in Vals(f) : ~ValAgrees(f, v, BytesOf(buf["caller"], f, v), BytesOf(buf["callee"], f, v))}
CheckFunc_Last(f) == {v \in Mismatches(f) : \A w \in Mismatches(f) : w <= v}
CheckFunc(f) == {v \in Mismatches(f) : \A w \in Mismatches(f) : v <= w}

(* The end of run_bin_test, and check_test when there is something to check. *)
Conclude ==
  /\ status # "running" /\ run = "none" /\ stdout = <<>>
  /\ run' = Decided
  /\ blame' = IF Decided = "bad exit" THEN [s \in Sides |-> BestVals(buf[s])] ELSE blame
  /\ check' = IF Decided = "ok" THEN [f \in Funcs |-> CheckFunc(f)] ELSE check
  /\ UNCHANGED <<childVars, buf, clean>>

(* The verdict is there. *)
Over == run # "none" /\ UNCHANGED vars

Next == Child \/ ReadLine \/ Conclude \/ Over
Spec == Init /\ [][Next]_vars

-----------------------------------------------------------------------------
(* Properties *)

(* What side s saw of a value: nothing, or its bytes. *)
Seen(s, f, v) == {b \in Bytes(f, v) : <<f, v, b>> \in saw[s]}

(* A run is only graded if the program ran to its end: no crash, no early  *)
(* end with a good status and no lost line passes for a run with a result. *)
GradedRunsAreComplete == run = "ok" => at > Len(Program) /\ status = "success" /\ ~cut

(* The buffers hold what each side saw, value by value: the interleaving   *)
(* of the two sides, of the functions and of foreign lines in one stdout   *)
(* mixes nothing up.                                                       *)
BuffersFaithful ==
  run = "ok" => \A s \in Sides : buf[s].vals = saw[s]

(* MissingSetFunc and DoubleWrite accuse the generated code of a mistake   *)
(* it cannot make, even when it is cut off anywhere.                       *)
ProtocolKept ==
  \A s \in Sides : ~buf[s].missing_set_func /\ buf[s].double_writes = {}

(* A function passes exactly if both sides saw every one of its values     *)
(* alike, padding apart, and took the expected variants: a mismatch in one *)
(* function neither hides nor causes one in another.                       *)
Alike(f, v) ==
  LET caller == Seen("caller", f, v)
      callee == Seen("callee", f, v)
      pads   == {{"expected"}, {"other padding"}}
  IN  \/ caller = callee /\ caller # {"poison"}
      \/ X87 /\ Type(f, v) = "long double" /\ caller \in pads /\ callee \in pads
VerdictsExact ==
  run = "ok" => \A f \in Funcs : (check[f] = {}) = (\A v \in Vals(f) : Alike(f, v))

(* The one value a failure is minimized to is where it starts: both sides  *)
(* reported it, and agreed on all that comes before it.                    *)
BlamesRootCause ==
  run = "ok" => \A f \in Funcs : \A v \in check[f] :
    /\ Seen("caller", f, v) # {} /\ Seen("callee", f, v) # {}
    /\ \A w \in Vals(f) : w < v => Alike(f, w)

(* The function a crash is blamed on is the one that was running, and the  *)
(* value is the last one the side reported of it (0 if none); when lines   *)
(* were lost the function is that one or an earlier one, never a later one,*)
(* and the value still is one the side did report of it.                   *)
Executed(s, upto) == {n \in 1 .. upto : Program[n].info # "done" /\ Program[n].id = s}
RunningFunc(s) ==
  LET n == CHOOSE x \in Executed(s, at - 1) : \A y \in Executed(s, at - 1) : y <= x
  IN  Program[n].func
Place(f) == CHOOSE n \in DOMAIN Desired : Desired[n] = f
SeenVals(s, f) == {v \in Vals(f) : Seen(s, f, v) # {}}
CrashBlamed ==
  run = "bad exit" => \A s \in Sides :
    LET f == blame[s][1]
        v == blame[s][2]
    IN  Executed(s, at - 1) # {} =>
          /\ v = 0 \/ v \in SeenVals(s, f)
          /\ ~cut => f = RunningFunc(s) /\ \A w \in SeenVals(s, f) : w <= v
          /\ cut /\ f \in Funcs => Place(f) <= Place(RunningFunc(s))
=============================================================================
