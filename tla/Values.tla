------------------------------- MODULE Values -------------------------------
(***************************************************************************)
(* The values of a test and the code that makes and reports them.  The     *)
(* harness visits the type of every argument once, to generate values for  *)
(* its leaves (ValueTree).  Each side's code generator visits the types    *)
(* again, in its own language, with its own blocks of the puns: to write   *)
(* code that initializes an argument (init_value) and code that reports it *)
(* (write_fields), each time taking values off the list as it goes.        *)
(* Nothing but the order of these visits ties a leaf to its value and to   *)
(* the index it is reported and checked under.                             *)
(***************************************************************************)
EXTENDS Integers, Sequences, FiniteSets, SequencesExt

CONSTANTS
  Ty,        \* the types: [kind, cases, ...], by index
  Programs,  \* the test programs: sequences of functions [ins, outs, variadic]
  Draws,     \* the ways generate_idx may draw, by the number of the value
  Depth,     \* calls of build_values and of a visit that fit on the stack
  MinWriters \* minimizing_write_impl: what --minimize-vals may be

Languages == {"c", "rust"}
Sides == {"caller", "callee"}
Leaves == {"primitive", "bool", "enum"}
Unions == {"union", "tagged"}
Taking == Leaves \cup Unions
Kinds == Taking \cup {"empty", "alias", "ref", "struct", "array", "pun"}

(* cases[c] are the parts of a type in case c.  A union, tagged or enum has *)
(* a case per variant, a bool has two, a pun has one per block, the rest    *)
(* has one.                                                                *)
Kind(t) == Ty[t].kind
Cases(t) == Ty[t].cases
Parts(t, case) == IF case \in DOMAIN Cases(t) THEN Cases(t)[case] ELSE <<>>

(* resolve_pun: the first block that matches the language. *)
Matching(t, l) == {b \in DOMAIN Cases(t) : l \in Ty[t].langs[b]}
Resolved(t, l) == CHOOSE b \in Matching(t, l) : \A x \in Matching(t, l) : b <= x

(* The parts of a type are types, and a pun has a block of one type for    *)
(* every language: without, the program has no definition graph and no     *)
(* code is generated.  An enum or a tagged union has a variant: without,   *)
(* it has no values, and neither C nor Rust compiles what initializes one. *)
ASSUME TypesAssumption ==
  /\ Ty \in Seq([kind : Kinds, cases : Seq(Seq(Nat)), refs : BOOLEAN, width : Nat,
                 lacking : SUBSET Languages, langs : Seq(SUBSET Languages)])
  /\ \A t \in DOMAIN Ty : \A c \in DOMAIN Cases(t) : Cases(t)[c] \in Seq(DOMAIN Ty)
  /\ \A t \in DOMAIN Ty : Kind(t) \in {"enum", "tagged"} => Cases(t) # <<>>
  /\ \A t \in {x \in DOMAIN Ty : Kind(x) = "pun"} :
       /\ DOMAIN Ty[t].langs = DOMAIN Cases(t)
       /\ \A b \in DOMAIN Cases(t) : Len(Cases(t)[b]) = 1
       /\ \A l \in Languages : Matching(t, l) # {}
ASSUME ProgramsAssumption ==
  Programs \subseteq Seq([ins : Seq(DOMAIN Ty), outs : Seq(DOMAIN Ty), variadic : BOOLEAN])
ASSUME DrawsAssumption == Draws \subseteq Seq(Nat) /\ Depth \in Nat
ASSUME WritersAssumption == MinWriters \subseteq {"harness", "assert", "print", "noop"}

VARIABLES
  funcs,    \* the program
  draw,     \* what generate_idx draws
  lang,     \* lang[s]: the language of side s
  variadics, \* whether the test is of the variadic functions or of the others
  gen,      \* the number of the generator's next value
  tree,     \* tree[f]: the ArgValues of function f, outputs last
  err,      \* the error of ValueTree::new, <<>> if there is none
  sel,      \* FunctionSelector: <<>> for all, or one <<function, argument, value>>
  writer,   \* val_writer
  prog,     \* prog[s]: the bodies side s has generated
  status,   \* status[s]: of its generator
  ran,      \* whether the binary was run
  bad,      \* the leaves that the calls do not pass on
  saw,      \* saw[s]: what side s reported: <<function, absolute index, bytes>>
  verdict,  \* verdict[f]: the value check_test reports, <<>> if none
  full      \* the sources before they were minimized

given == <<funcs, draw, lang, variadics>>
values == <<gen, tree, err>>
sources == <<sel, writer, prog, status, full>>
results == <<ran, bad, saw, verdict>>
vars == <<given, values, sources, results>>

NoBodies == [s \in Sides |-> <<>>]

(* The functions of the test: Variadics::matches.  The harness has no test *)
(* without one (has_functions).  Values are built for the others, too.     *)
Active == {f \in DOMAIN funcs : funcs[f].variadic = variadics}

Init ==
  /\ funcs \in Programs /\ draw \in Draws /\ lang \in [Sides -> Languages]
  /\ variadics \in BOOLEAN /\ Active # {}
  /\ gen = 0 /\ tree = [f \in DOMAIN funcs |-> <<>>] /\ err = <<>>
  /\ sel = <<>> /\ writer = "harness" /\ full = NoBodies
  /\ prog = NoBodies /\ status = [s \in Sides |-> "generating"]
  /\ ran = FALSE /\ bad = {} /\ saw = [s \in Sides |-> {}] /\ verdict = <<>>

Args(f) == funcs[f].ins \o funcs[f].outs
Inputs(f) == DOMAIN funcs[f].ins

-----------------------------------------------------------------------------
(* The value tree *)

(* Every value has a generator of its own, which draws the same whenever   *)
(* it is asked: generate_idx, among len options.                           *)
Pick(d, g) == IF g < Len(d) THEN d[g + 1] ELSE 0
Idx(val, len) == IF len = 0 THEN 0 ELSE val.pick % len

(* A step of a path: none for a mere change of type. *)
Segment(t, case, k) == IF Kind(t) \in {"alias", "pun"} THEN <<>> ELSE <<<<case, k>>>>
Under(segment, list) == [n \in DOMAIN list |-> [list[n] EXCEPT !.path = segment \o @]]

(* build_values: the values of type t, starting with number g, where sub   *)
(* are the calls for its parts.                                            *)
Start(g) == [vals |-> <<>>, next |-> g, err |-> <<>>]

BuildPart(sub, t, case, acc, k) ==
  IF acc.err # <<>> THEN acc
  ELSE LET new == sub[Parts(t, case)[k]][acc.next]
       IN  [new EXCEPT !.vals = acc.vals \o Under(Segment(t, case, k), @)]
BuildParts(sub, t, case, r) ==
  FoldLeftDomain(LAMBDA acc, k : BuildPart(sub, t, case, acc, k), r, Parts(t, case))

(* Every block of a pun starts with the generator the pun was entered      *)
(* with; the pun gets the values of its last block, types and paths too.   *)
BuildBlock(sub, t, g, acc, b) ==
  IF acc.err # <<>> THEN acc
  ELSE LET new == sub[Cases(t)[b][1]][g]
       IN  IF new.err = <<>> /\ b > 1 /\ Len(acc.vals) # Len(new.vals)
           THEN [acc EXCEPT !.err = <<[error |-> "MismatchedPunVals", pun |-> t,
                    block1 |-> b,     block1_val_count |-> Len(acc.vals),
                    block2 |-> b - 1, block2_val_count |-> Len(acc.vals)]>>]
           ELSE new
BuildBlocks(sub, t, g) ==
  FoldLeftDomain(LAMBDA acc, b : BuildBlock(sub, t, g, acc, b), Start(g), Cases(t))

BuildAt(d, sub, t, g) ==
  LET val == [num |-> g, pick |-> Pick(d, g), ty |-> t, path |-> <<>>]
      one == [vals |-> <<val>>, next |-> g + 1, err |-> <<>>]
  IN  CASE Kind(t) \in Leaves -> one
        [] Kind(t) \in Unions -> BuildParts(sub, t, Idx(val, Len(Cases(t))) + 1, one)
        [] Kind(t) = "empty"  -> Start(g)
        [] Kind(t) = "pun"    -> BuildBlocks(sub, t, g)
        [] OTHER              -> BuildParts(sub, t, 1, Start(g))

(* The calls that have room for n more below them.  A type that holds      *)
(* itself and no variant to end with overflows the stack.                  *)
Builds(d) ==
  LET build[n \in 0 .. Depth] ==
        [t \in DOMAIN Ty |-> [g \in Nat |->
           IF n = 0 THEN [Start(g) EXCEPT !.err = <<[error |-> "overflow"]>>]
           ELSE BuildAt(d, build[n - 1], t, g)]]
  IN  build
BuildValues(d, ty, from) == Builds(d)[Depth][ty][from]

(* absolute_val_idx_start: the values of a function are numbered through. *)
StartAfter_PerArg(args) == 0
StartAfter(args) == IF args = <<>> THEN 0 ELSE Last(args).start + Len(Last(args).vals)

Unvalued == {f \in DOMAIN funcs : Len(tree[f]) < Len(Args(f))}
Built == Unvalued = {} /\ err = <<>>

(* The next argument in the loops of ValueTree::new. *)
BuildArg ==
  /\ err = <<>>
  /\ \E f \in Unvalued :
       /\ \A x \in Unvalued : f <= x
       /\ LET ty  == Args(f)[Len(tree[f]) + 1]
              new == BuildValues(draw, ty, gen)
          IN  IF new.err # <<>> THEN err' = new.err /\ UNCHANGED <<gen, tree>>
              ELSE /\ tree' = [tree EXCEPT ![f] =
                                 Append(@, [ty |-> ty, vals |-> new.vals, start |-> StartAfter(@)])]
                   /\ gen' = new.next
                   /\ UNCHANGED err
  /\ UNCHANGED <<given, sources, results>>

-----------------------------------------------------------------------------
(* The visits of the code generators *)

(* init_leaf_value: each language lacks some primitives.                   *)
LeafFails(l, t) == Kind(t) = "primitive" /\ l \in Ty[t].lacking

(* A visit goes through type ty and takes the values of its leaves and of  *)
(* its choices off the list vals.  It has, for each value it meets, the    *)
(* type it meets it at, the path the code has for it and the tags in whose *)
(* variants it is.  how tells the visits apart: the language l, the kinds  *)
(* of type there is no code for, the kinds that take a value, and whether  *)
(* leaves are initialized.  The visit of type t from value k on:           *)
Nothing(k) == [lines |-> <<>>, next |-> k, res |-> "ok"]
Refused(how, t) == Kind(t) \in how.refuses \/ (how.inits /\ LeafFails(how.l, t))
Wrapped(segment, within, lines) ==
  [i \in DOMAIN lines |-> [val    |-> lines[i].val,             ty     |-> lines[i].ty,
                            path   |-> segment \o lines[i].path,
                            inside |-> within \cup lines[i].inside]]

VisitPart(sub, t, case, within, acc, n) ==
  IF acc.res # "ok" THEN acc
  ELSE LET new == sub[Parts(t, case)[n]][acc.next]
       IN  [lines |-> acc.lines \o Wrapped(Segment(t, case, n), within, new.lines),
            next  |-> new.next, res |-> new.res]
VisitParts(sub, t, case, within, r) ==
  FoldLeftDomain(LAMBDA acc, n : VisitPart(sub, t, case, within, acc, n), r, Parts(t, case))

VisitAt(how, vals, sub, t, k) ==
  LET takes  == Kind(t) \in how.takes
      one    == [lines |-> <<[val |-> k, ty |-> t, path |-> <<>>, inside |-> {}]>>,
                 next |-> k + 1, res |-> "ok"]
      within == IF Kind(t) = "tagged" THEN {k} ELSE {}
  IN  IF Refused(how, t) THEN [Nothing(k) EXCEPT !.res = "unsupported"]
      ELSE IF takes /\ k >= Len(vals) THEN [Nothing(k) EXCEPT !.res = "exceeded"]
      ELSE CASE Kind(t) \in Leaves -> one
             [] Kind(t) \in Unions -> VisitParts(sub, t, Idx(vals[k + 1], Len(Cases(t))) + 1,
                                                 within, IF takes THEN one ELSE Nothing(k))
             [] Kind(t) = "empty"  -> Nothing(k)
             [] Kind(t) = "pun"    -> sub[Cases(t)[Resolved(t, how.l)][1]][k]
             [] OTHER              -> VisitParts(sub, t, 1, {}, Nothing(k))

Visits(how, vals) ==
  LET visit[n \in 0 .. Depth] ==
        [t \in DOMAIN Ty |-> [k \in Nat |->
           IF n = 0 THEN [Nothing(k) EXCEPT !.res = "overflow"]
           ELSE VisitAt(how, vals, visit[n - 1], t, k)]]
  IN  visit
Visit(how, ty, vals) == Visits(how, vals)[Depth][ty][0]

CInitValue_NoUnionTag(ty, vals) ==
  Visit([l |-> "c", refuses |-> {"tagged", "empty"}, takes |-> Taking \ {"union"},
         inits |-> TRUE], ty, vals)
CInitValue(ty, vals) ==
  Visit([l |-> "c", refuses |-> {"tagged", "empty"}, takes |-> Taking, inits |-> TRUE], ty, vals)
RustInitValue(ty, vals) ==
  Visit([l |-> "rust", refuses |-> {}, takes |-> Taking, inits |-> TRUE], ty, vals)
CWriteFields(ty, vals) ==
  Visit([l |-> "c", refuses |-> {"tagged"}, takes |-> Taking, inits |-> FALSE], ty, vals)
RustWriteFields(ty, vals) ==
  Visit([l |-> "rust", refuses |-> {}, takes |-> Taking, inits |-> FALSE], ty, vals)

(* What the generator of side s works on (TestState). *)
Job(s) == [side |-> s, lang |-> lang[s], funcs |-> funcs, tree |-> tree,
           sel |-> sel, writer |-> writer]

(* The functions and values that are selected. *)
DesiredFuncs == IF sel = <<>> THEN Active ELSE {sel[1]} \cap Active
ShouldWriteArg(job, f, a) == job.sel = <<>> \/ <<job.sel[1], job.sel[2]>> = <<f, a>>
ShouldWriteVal_All(job, f, a, v) == ShouldWriteArg(job, f, a)
ShouldWriteVal(job, f, a, v) == job.sel = <<>> \/ job.sel = <<f, a, v>>

(* write_leaf_field, write_tag_field: the fields that are shown, as output *)
(* or as an assertion of their own.  (That another variant than the chosen *)
(* one is unreachable!, as the other writers say of it, shows no field.)   *)
IsShown(job, f, a, line) ==
  /\ ShouldWriteVal(job, f, a, line.val)
  /\ job.writer = "harness" \/ Kind(line.ty) = "primitive"

(* An assertion is written with the type the value has in the tree, which  *)
(* has to be a leaf the language has.                                      *)
AssertResult(job, shown, vals) ==
  LET types == {vals[line.val + 1].ty : line \in shown}
  IN  IF job.writer # "assert" THEN "ok"
      ELSE IF \E t \in types : Kind(t) \notin Leaves THEN "not_leaf"
      ELSE IF \E t \in types : LeafFails(job.lang, t) THEN "unsupported"
      ELSE "ok"

InitValue(l, arg) ==
  IF l = "c" THEN CInitValue(arg.ty, arg.vals) ELSE RustInitValue(arg.ty, arg.vals)
WriteFields(l, arg) ==
  IF l = "c" THEN CWriteFields(arg.ty, arg.vals) ELSE RustWriteFields(arg.ty, arg.vals)

InitVar(job, f, a) ==
  LET visit == InitValue(job.lang, job.tree[f][a])
  IN  [fields |-> ToSet(visit.lines), next |-> visit.next, res |-> visit.res]

WriteVar(job, f, a) ==
  LET arg   == job.tree[f][a]
      visit == WriteFields(job.lang, arg)
      shown == {line \in ToSet(visit.lines) : IsShown(job, f, a, line)}
  IN  IF ~ShouldWriteArg(job, f, a) \/ job.writer = "noop"
      THEN [fields |-> {}, next |-> Len(arg.vals), res |-> "ok"]
      ELSE [fields |-> shown, next |-> visit.next,
            res |-> IF visit.res = "ok" THEN AssertResult(job, shown, arg.vals) ELSE visit.res]

(* check_returns *)
ReturnsResult(func) ==
  IF (\E a \in DOMAIN func.outs : Ty[func.outs[a]].refs) \/ Len(func.outs) > 1
  THEN "unsupported" ELSE "ok"

(* The statements of the body of a function: generate_caller_body and      *)
(* generate_callee_body.  The callee's outputs are its own.  Its variadic  *)
(* inputs are the last ones and are written after the fixed ones.          *)
WriteAll(after, n) == [i \in 1 .. n |-> <<"write", after + i>>]
InitAndWriteAll(after, n) ==
  [i \in 1 .. 2 * n |-> <<IF i % 2 = 1 THEN "init" ELSE "write", after + (i + 1) \div 2>>]
Statements(side, func) ==
  LET ins  == Len(func.ins)
      outs == Len(func.outs)
  IN  IF side = "caller"
      THEN InitAndWriteAll(0, ins) \o <<<<"call", 0>>>> \o WriteAll(ins, outs)
      ELSE WriteAll(0, ins) \o InitAndWriteAll(ins, outs) \o <<<<"return", 0>>>>

(* What a statement writes: the fields and where its visit ended. *)
Perform(job, f, op, a) ==
  CASE op = "init"  -> InitVar(job, f, a)
    [] op = "write" -> WriteVar(job, f, a)
    [] OTHER        -> [fields |-> {}, next |-> 0, res |-> ReturnsResult(job.funcs[f])]
Written(job, f) ==
  [n \in DOMAIN Statements(job.side, job.funcs[f]) |->
     LET st == Statements(job.side, job.funcs[f])[n]
     IN  [op |-> st[1], arg |-> st[2], visit |-> Perform(job, f, st[1], st[2])]]

(* The statements of f, up to the first that fails. *)
UpToFirstFailure(all) ==
  LET fails == {n \in DOMAIN all : all[n].visit.res # "ok"}
  IN  SubSeq(all, 1, IF fails = {} THEN Len(all) ELSE Min(fails))
Body(job, f) == UpToFirstFailure(Written(job, f))

Pending(s) == {f \in DesiredFuncs : \A n \in DOMAIN prog[s] : prog[s][n].func # f}

(* The next function in the loops of generate_caller and generate_callee. *)
GenerateBody(s) ==
  /\ Built /\ status[s] = "generating"
  /\ \E f \in Pending(s) : \E body \in {Body(Job(s), f)} :
       /\ \A x \in Pending(s) : f <= x
       /\ prog' = [prog EXCEPT ![s] = Append(@, [func |-> f, code |-> body])]
       /\ status' = [status EXCEPT ![s] =
            IF Last(body).visit.res # "ok" THEN Last(body).visit.res
            ELSE IF Pending(s) = {f} THEN "done" ELSE @]
  /\ UNCHANGED <<given, values, sel, writer, full, results>>

-----------------------------------------------------------------------------
(* The run and the check *)

Owner(f, a) == IF a \in Inputs(f) THEN "caller" ELSE "callee"
Val(f, a, v) == tree[f][a].vals[v + 1]

(* The fields that bodies initialize or write in f, with their argument. *)
Code(bodies, f) == UNION {ToSet(b.code) : b \in {x \in ToSet(bodies) : x.func = f}}
Inits(bodies, f) == {st \in Code(bodies, f) : st.op = "init"}
Fields(bodies, f, op) ==
  UNION {{<<st.arg, line>> : line \in st.visit.fields} : st \in {x \in Code(bodies, f) : x.op = op}}

(* What a field of type t holds that is made from val: bytes or a variant. *)
Content(t, val) ==
  IF Kind(t) = "primitive" THEN <<"primitive", Ty[t].width, val.num>>
  ELSE <<Kind(t), Len(Cases(t)), Idx(val, Len(Cases(t)))>>

(* Whether side s finds in a field what belongs there.  The owner of the   *)
(* argument has made it, the other side gets it unless it is lost on the   *)
(* way, and it must be the same thing to both.                             *)
Finds(s, f, a, line, lost) ==
  LET val == Val(f, a, line.val)
  IN  /\ s = Owner(f, a) \/ <<f, a, line.val>> \notin lost
      /\ \A made \in Fields(prog[Owner(f, a)], f, "init") :
           made[1] = a /\ made[2].val = line.val => Content(made[2].ty, val) = Content(line.ty, val)

(* The argument of write_val: the bytes of a primitive, or the number of   *)
(* the expected variant, or u32::MAX.  No variant is looked for in a union.*)
Bytes(t, val, found) ==
  IF ~found /\ Kind(t) # "union" THEN <<"other", 0, 0>>
  ELSE IF Kind(t) = "primitive" THEN <<"bytes", Ty[t].width, val.num>>
  ELSE <<"tag", 4, Idx(val, Len(Cases(t)))>>

(* What is inside a variant is reported only if the variant is found.      *)
Reached(s, f, a, line, lost) ==
  \A x \in Fields(prog[s], f, "write") :
    x[1] = a /\ x[2].val \in line.inside => Finds(s, f, a, x[2], lost)

Index(f, x) == tree[f][x[1]].start + x[2].val
Reports(s, f, lost) ==
  {<<f, Index(f, x), Bytes(x[2].ty, Val(f, x[1], x[2].val), Finds(s, f, x[1], x[2], lost))>> :
     x \in {y \in Fields(prog[s], f, "write") : Reached(s, f, y[1], y[2], lost)}}

(* The values of f, their order, and the data of the calls: all but the    *)
(* tags of unions are in memory.                                           *)
ValsOf(f) ==
  UNION {{<<f, a, n - 1>> : n \in DOMAIN tree[f][a].vals} : a \in DOMAIN tree[f]}
AllVals == UNION {ValsOf(f) : f \in DOMAIN funcs}
Earlier(x, y) ==
  \/ x[1] < y[1]
  \/ x[1] = y[1] /\ x[2] < y[2]
  \/ x[1] = y[1] /\ x[2] = y[2] /\ x[3] < y[3]
Data == {x \in AllVals : x[1] \in Active /\ Kind(Val(x[1], x[2], x[3]).ty) # "union"}

(* The binary runs, and the calls pass on all data but one leaf at most.   *)
Run ==
  /\ ~ran /\ \A s \in Sides : status[s] = "done"
  /\ ran' = TRUE
  /\ bad' \in {{}} \cup {{d} : d \in Data}
  /\ saw' = [s \in Sides |-> UNION {Reports(s, f, bad') : f \in DOMAIN funcs}]
  /\ UNCHANGED <<given, values, sources, verdict>>

(* check_val, by the type that the value has in the tree.                  *)
Tags == {"tagged", "enum", "bool"}
Agrees_CallerOnly(val, caller, callee) ==
  LET tag == <<"tag", 4, Idx(val, Len(Cases(val.ty)))>>
  IN  IF Kind(val.ty) \in Tags THEN caller = {tag} ELSE caller = callee
Agrees(val, caller, callee) ==
  LET tag == <<"tag", 4, Idx(val, Len(Cases(val.ty)))>>
  IN  IF Kind(val.ty) \in Tags THEN caller = {tag} /\ callee = {tag} ELSE caller = callee

Vals(s, f, i) == {x[3] : x \in {y \in saw[s] : y[1] = f /\ y[2] = i}}
Mismatch_Relative(f, a, v) ==
  ~Agrees(Val(f, a, v), Vals("caller", f, v), Vals("callee", f, v))
Mismatch(f, a, v) ==
  LET i == tree[f][a].start + v
  IN  ~Agrees(Val(f, a, v), Vals("caller", f, i), Vals("callee", f, i))

(* check_test: the first value of each function that does not agree.       *)
Wrong(f) == {x \in ValsOf(f) : Mismatch(f, x[2], x[3])}
FirstOf(xs) == CHOOSE x \in xs : \A y \in xs : x = y \/ Earlier(x, y)
FirstMismatch_Absolute(f) ==
  IF Wrong(f) = {} THEN <<>>
  ELSE LET x == FirstOf(Wrong(f)) IN <<f, x[2], tree[f][x[2]].start + x[3]>>
FirstMismatch(f) == IF Wrong(f) = {} THEN <<>> ELSE FirstOf(Wrong(f))

Check ==
  /\ ran /\ verdict = <<>>
  /\ verdict' = [f \in DesiredFuncs |-> FirstMismatch(f)]
  /\ UNCHANGED <<given, values, sources, ran, bad, saw>>

(* generate_minimized_failures, of one failure: the sources once more, for *)
(* one value.                                                              *)
Minimize ==
  /\ verdict # <<>> /\ sel = <<>>
  /\ \E f \in DOMAIN verdict : verdict[f] # <<>> /\ sel' = verdict[f]
  /\ writer' \in MinWriters
  /\ full' = prog
  /\ prog' = NoBodies
  /\ status' = [s \in Sides |-> "generating"]
  /\ UNCHANGED <<given, values, results>>

(* Nothing is left to do: an error, a pass or the minimized sources.       *)
Over ==
  /\ \/ err # <<>>
     \/ /\ \A s \in Sides : status[s] # "generating"
        /\ \/ \E s \in Sides : status[s] # "done"
           \/ sel # <<>>
           \/ verdict # <<>> /\ \A f \in DOMAIN verdict : verdict[f] = <<>>
  /\ UNCHANGED vars

Next == BuildArg \/ (\E s \in Sides : GenerateBody(s)) \/ Run \/ Check \/ Minimize \/ Over
Spec == Init /\ [][Next]_vars

-----------------------------------------------------------------------------
(* Properties *)

Value == [num : Nat, pick : Nat, ty : DOMAIN Ty, path : Seq(Nat \X Nat)]
ArgValues == [ty : DOMAIN Ty, vals : Seq(Value), start : Nat]
TypeOK ==
  /\ gen \in Nat /\ tree \in [DOMAIN funcs -> Seq(ArgValues)]
  /\ sel = <<>> \/ sel \in AllVals
  /\ writer \in {"harness"} \cup MinWriters
  /\ status \in [Sides -> {"generating", "done", "unsupported", "not_leaf", "exceeded", "overflow"}]
  /\ bad \subseteq Data

(* The values are numbered through, so that no two are made alike.  Every  *)
(* visit of an argument, in either language and whichever blocks its puns  *)
(* resolve to, takes exactly the values that were built for it: next_val   *)
(* never runs past the list, no later leaf gets the value of an earlier,   *)
(* and no visit recurses deeper than build_values did.  An assertion       *)
(* panics on its value's type only if the blocks of a pun do not have      *)
(* their leaves in common.                                                 *)
LinesAlike(l, arg) ==
  \A line \in ToSet(WriteFields(l, arg).lines) :
    LET val == arg.vals[line.val + 1] IN Content(line.ty, val) = Content(val.ty, val)
Alike(f) == \A s \in Sides, a \in DOMAIN tree[f] : LinesAlike(lang[s], tree[f][a])
NumberedThrough ==
  /\ {Val(x[1], x[2], x[3]).num : x \in AllVals} = 0 .. gen - 1
  /\ \A x, y \in AllVals :
       Earlier(x, y) => Val(x[1], x[2], x[3]).num < Val(y[1], y[2], y[3]).num
VisitsAgree ==
  /\ NumberedThrough
  /\ \A s \in Sides :
       /\ status[s] \notin {"exceeded", "overflow"}
       /\ status[s] = "not_leaf" => \E f \in Active : ~Alike(f)
       /\ status[s] \in {"generating", "done"} =>
            \A body \in ToSet(prog[s]) : \A st \in ToSet(body.code) :
              st.op \in {"init", "write"} => st.visit.next = Len(tree[body.func][st.arg].vals)

(* Each side reports every value of a function once, under indices that    *)
(* count from 0 without a gap, so that the harness never sees a double     *)
(* write; and where no pun gives a type two shapes, the field reported     *)
(* under an index is the one that a failure will name by path.             *)
AllParts == [t \in DOMAIN Ty |-> UNION {ToSet(parts) : parts \in ToSet(Cases(t))}]
Reachable(ty) ==
  LET grow[n \in 0 .. Len(Ty)] ==
        IF n = 0 THEN {ty}
        ELSE LET had == grow[n - 1] IN had \cup UNION {AllParts[t] : t \in had}
  IN  grow[Len(Ty)]
Punned(ty) == \E t \in Reachable(ty) : Kind(t) = "pun"
IndicesFaithful ==
  (sel = <<>> /\ \A s \in Sides : status[s] = "done") =>
    \A s \in Sides, f \in Active :
      LET fields == Fields(prog[s], f, "write")
          count  == Cardinality(ValsOf(f))
      IN  /\ {Index(f, x) : x \in fields} = 0 .. count - 1
          /\ Cardinality(fields) = count
          /\ \A x \in fields : \/ Punned(tree[f][x[1]].ty)
                               \/ x[2].path = Val(f, x[1], x[2].val).path

(* No false alarm: if the calls pass everything on, every function passes, *)
(* in every mix of languages and with every choice of variants, as long as *)
(* the blocks of its puns have their leaves in common.                     *)
FaithfulPasses ==
  (verdict # <<>> /\ bad = {}) => \A f \in Active : Alike(f) => verdict[f] = <<>>

(* No missed and no misplaced one: if one leaf is lost on the way, wherever*)
(* in whatever type, its function fails with that very value and the others*)
(* pass, even when the leaf is a tag and all inside its variant goes       *)
(* unreported.                                                             *)
LostLeafBlamed ==
  verdict # <<>> => \A x \in bad, f \in Active :
                      Alike(f) => verdict[f] = IF f = x[1] THEN x ELSE <<>>

(* The minimized sources still make all the data of the failing function,  *)
(* of the same values and variants as before, and show only the one value  *)
(* that failed (docs/src/harness/combos/selectors.md).                     *)
MinimizedShowsOne ==
  sel # <<>> => \A s \in Sides : status[s] = "done" =>
    LET f == sel[1]
        shown == {<<f, x[1], x[2].val>> : x \in Fields(prog[s], f, "write")}
    IN  /\ {b.func : b \in ToSet(prog[s])} = {f}
        /\ Inits(prog[s], f) = Inits(full[s], f)
        /\ shown \subseteq {sel}
        /\ writer = "harness" => shown = {sel}

(* What the message of MismatchedPunVals says: two different counts.       *)
(* (error.rs: "pun {pun} had blocks with different numbers of values")     *)
PunCountsDiffer ==
  \A e \in ToSet(err) :
    e.error = "MismatchedPunVals" => e.block1_val_count # e.block2_val_count
=============================================================================
