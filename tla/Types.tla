------------------------------- MODULE Types -------------------------------
(***************************************************************************)
(* From the declarations of a test to the type definitions in a generated  *)
(* source: typeck gives every type an index, compute_ty_facts rejects types*)
(* of infinite size, definition_graph sorts the types that the selected    *)
(* functions need, and a toolchain walks over the sorted definitions,      *)
(* interning the names of the types as it goes.  The types may refer to    *)
(* each other in cycles, which is where the order is hard to get right.    *)
(*                                                                         *)
(* A source program has decls, a sequence of records with name, kind and   *)
(* fields (of a pun: blocks, each with applies, whether its selector       *)
(* matches the environment, and a decl); funcs, the argument types of each *)
(* function; and desired, the indices of the functions to emit.  A written *)
(* type is a base name under a sequence of "ref" and "array", the          *)
(* innermost first.  Lengths of arrays, names of fields and attributes are *)
(* left out, and so are puns inside puns.                                  *)
(***************************************************************************)
EXTENDS Integers, Sequences, FiniteSets, SequencesExt, TLC

CONSTANTS
  Programs,   \* the source programs
  Langs       \* the toolchains: "rust", "c"

VARIABLES
  source,     \* the program
  lang,       \* the toolchain
  phase,      \* "typeck", "facts", "graph", "emit" or "over"
  result,     \* "none" until it is over
  tys,        \* TyCtx::tys
  args,       \* args[f]: the TyIdx of the arguments of function f
  to_compute, \* the worklist of compute_ty_facts
  visited,    \* already_visited
  known,      \* the types that have a TypeFact
  refs,       \* those whose fact is contains_ref
  reachable,  \* the types the desired functions need
  todo,       \* the definitions left of the current component
  declared,   \* the types that were forward declared
  defined,    \* the types that were defined
  names,      \* the keys of tynames
  incomplete  \* history: by-value uses in C of a type not yet defined, <<user, used>>

ctxVars  == <<tys, args>>
factVars == <<to_compute, visited, known, refs>>
emitVars == <<todo, declared, defined, names, incomplete>>
vars == <<source, lang, phase, result, ctxVars, factVars, reachable, emitVars>>

Nominals == {"struct", "union", "enum", "tagged", "alias", "pun"}
Aggregates == {"struct", "union", "tagged", "alias", "pun", "array"}

WrittenTypes == [base : STRING, mods : Seq({"ref", "array"})]
PlainDecls == [name : STRING, kind : Nominals \ {"pun"}, fields : Seq(WrittenTypes)]
PunDecls == [name : STRING, kind : {"pun"},
             blocks : Seq([applies : BOOLEAN, decl : PlainDecls])]

(* What the parser makes of a file, and the functions of a selection.      *)
ASSUME ProgramsAssumption ==
  \A p \in Programs :
    /\ p.decls \in Seq(PlainDecls \cup PunDecls)
    /\ p.funcs \in Seq(Seq(WrittenTypes))
    /\ p.desired \subseteq DOMAIN p.funcs

(* parts are the types it is made of (of a pun, those of all its blocks);  *)
(* real is what resolve_pun makes of a pun, 0 if no block applies.         *)
Ty(kind, parts) == [kind |-> kind, parts |-> parts, real |-> 0]

Init ==
  /\ source \in Programs
  /\ lang \in Langs
  /\ phase = "typeck" /\ result = "none"
  /\ tys = <<>> /\ args = <<>>
  /\ to_compute = <<>> /\ visited = {} /\ known = {} /\ refs = {}
  /\ reachable = {}
  /\ todo = <<>> /\ declared = {} /\ defined = {} /\ names = {} /\ incomplete = {}

-----------------------------------------------------------------------------
(* typeck *)

(* memoize_inner: structural types are interned.  ty_map is tys restricted *)
(* to "ref", "array" and "empty".                                          *)
MemoizeInner_IndexAfterPush(ts, ty) ==
  IF \E i \in DOMAIN ts : ts[i] = ty
  THEN [tys |-> ts, idx |-> CHOOSE i \in DOMAIN ts : ts[i] = ty]
  ELSE [tys |-> Append(ts, ty), idx |-> Len(ts) + 2]
MemoizeInner(ts, ty) ==
  IF \E i \in DOMAIN ts : ts[i] = ty
  THEN [tys |-> ts, idx |-> CHOOSE i \in DOMAIN ts : ts[i] = ty]
  ELSE [tys |-> Append(ts, ty), idx |-> Len(ts) + 1]

MemoizeTy(ts, env, written) ==
  FoldLeft(LAMBDA acc, mod : MemoizeInner(acc.tys, Ty(mod, <<acc.idx>>)),
           IF written.base = "()" THEN MemoizeInner(ts, Ty("empty", <<>>))
           ELSE [tys |-> ts, idx |-> env[written.base]],
           written.mods)

MemoizeAll(ts, env, list) ==
  FoldLeft(LAMBDA acc, written :
             LET one == MemoizeTy(acc.tys, env, written)
             IN  [tys |-> one.tys, idxs |-> Append(acc.idxs, one.idx)],
           [tys |-> ts, idxs |-> <<>>], list)

(* push_nominal_decl_incomplete: an index, and a type to be filled in.     *)
Push(ts) == Append(ts, Ty("incomplete", <<>>))

CompletePlain(ts, env, idx, decl) ==
  LET parts == MemoizeAll(ts, env, decl.fields)
  IN  [parts.tys EXCEPT ![idx] = Ty(decl.kind, parts.idxs)]

Bind(name, idx, env) ==
  [x \in {name} \cup DOMAIN env |-> IF x = name THEN idx ELSE env[x]]

(* Every block of a pun declares its type in a scope of its own, where the *)
(* name of the pun is that of the block.                                   *)
CompletePun(ts, env, idx, decl) ==
  LET all == FoldLeft(LAMBDA acc, block :
                        LET real == Len(acc.tys) + 1
                        IN  [tys |-> CompletePlain(Push(acc.tys), Bind(decl.name, real, env),
                                                   real, block.decl),
                             idxs |-> Append(acc.idxs, real)],
                      [tys |-> ts, idxs |-> <<>>], decl.blocks)
      first == SelectInSeq(decl.blocks, LAMBDA block : block.applies)
  IN  [all.tys EXCEPT ![idx] = [kind |-> "pun", parts |-> all.idxs,
                                real |-> IF first = 0 THEN 0 ELSE all.idxs[first]]]

CompleteNominal(ts, env, idx, decl) ==
  IF decl.kind = "pun" THEN CompletePun(ts, env, idx, decl)
  ELSE CompletePlain(ts, env, idx, decl)

(* The builtins, here u32, come first, then the declared types.            *)
Builtins == <<Ty("prim", <<>>)>>
IndexOf(n) == Len(Builtins) + n

PushAll(decls) == FoldLeft(LAMBDA ts, decl : Push(ts), Builtins, decls)
CompleteAll(ts, env, decls) ==
  FoldLeftDomain(LAMBDA acc, n : CompleteNominal(acc, env, IndexOf(n), decls[n]), ts, decls)
MemoizeFuncs(ts, env, funcs) ==
  FoldLeft(LAMBDA acc, list : LET one == MemoizeAll(acc.tys, env, list)
                              IN  [tys |-> one.tys, args |-> Append(acc.args, one.idxs)],
           [tys |-> ts, args |-> <<>>], funcs)

Declared == {source.decls[n].name : n \in DOMAIN source.decls}
GlobalEnv ==
  [x \in Declared \cup {"u32"} |->
     IF x \in Declared THEN IndexOf(CHOOSE n \in DOMAIN source.decls : source.decls[n].name = x)
     ELSE 1]

Written(decl) ==
  IF decl.kind = "pun" THEN UNION {ToSet(decl.blocks[b].decl.fields) : b \in DOMAIN decl.blocks}
  ELSE ToSet(decl.fields)
Undefined ==
  \E w \in (UNION {Written(source.decls[n]) : n \in DOMAIN source.decls})
           \cup (UNION {ToSet(source.funcs[f]) : f \in DOMAIN source.funcs}) :
     w.base \notin DOMAIN GlobalEnv \cup {"()"}

Ends(r) == phase' = "over" /\ result' = r

Typeck ==
  /\ phase = "typeck"
  /\ IF Undefined THEN Ends("undefined") /\ UNCHANGED <<ctxVars, to_compute>>
     ELSE LET filled == CompleteAll(PushAll(source.decls), GlobalEnv, source.decls)
              typed  == MemoizeFuncs(filled, GlobalEnv, source.funcs)
          IN  /\ tys' = typed.tys
              /\ args' = typed.args
              /\ to_compute' = [i \in 1 .. Len(typed.tys) |-> i]
              /\ phase' = "facts"
              /\ UNCHANGED result
  /\ UNCHANGED <<source, lang, visited, known, refs, reachable, emitVars>>

-----------------------------------------------------------------------------
(* compute_ty_facts *)

Children(t) == IF tys[t].kind \in Aggregates THEN tys[t].parts ELSE <<>>
Outside(list, S) == FoldLeft(LAMBDA acc, c : IF c \in S THEN acc ELSE Append(acc, c), <<>>, list)
Missing(t)  == Outside(Children(t), known)

ContainsRef_All(t) ==
  tys[t].kind = "ref" \/ (Children(t) # <<>> /\ ToSet(Children(t)) \subseteq refs)
ContainsRef(t) == tys[t].kind = "ref" \/ ToSet(Children(t)) \cap refs # {}

(* A type that is on the worklist for its children already, and misses one *)
(* of them again.                                                          *)
Restacked_IfPending(t) == \E n \in 1 .. Len(to_compute) - 1 : to_compute[n] = t
Restacked_Never(t) == FALSE
Restacked(t) == t \in visited

ComputeFact ==
  /\ phase = "facts" /\ to_compute # <<>>
  /\ LET t == Last(to_compute)
         missing == Missing(t)
     IN  CASE missing = <<>> ->
                /\ known' = known \cup {t}
                /\ refs' = IF ContainsRef(t) THEN refs \cup {t} ELSE refs
                /\ to_compute' = Front(to_compute)
                /\ UNCHANGED <<visited, phase, result>>
           [] missing # <<>> /\ Restacked(t) ->
                Ends("infinite") /\ UNCHANGED factVars
           [] OTHER ->
                /\ visited' = visited \cup {t}
                /\ to_compute' = to_compute \o missing
                /\ UNCHANGED <<known, refs, phase, result>>
  /\ UNCHANGED <<source, lang, ctxVars, reachable, emitVars>>

FactsDone ==
  /\ phase = "facts" /\ to_compute = <<>>
  /\ phase' = "graph"
  /\ UNCHANGED <<source, lang, result, ctxVars, factVars, reachable, emitVars>>

-----------------------------------------------------------------------------
(* definition_graph and definitions *)

(* What can be reached from S in at most as many steps as there are types. *)
Reach(succ, S) ==
  LET within[n \in 0 .. Len(tys)] ==
        IF n = 0 THEN S
        ELSE LET closer == within[n - 1] IN closer \cup UNION {succ[t] : t \in closer}
  IN  within[Len(tys)]

Edges_NotOfAliases(t) ==
  CASE tys[t].kind = "pun" -> {tys[t].real}
    [] tys[t].kind \in {"struct", "union", "tagged", "array", "ref"} -> ToSet(tys[t].parts)
    [] OTHER -> {}
Edges(t) ==
  CASE tys[t].kind = "pun" -> {tys[t].real}
    [] tys[t].kind \in {"struct", "union", "tagged", "alias", "array", "ref"} ->
         ToSet(tys[t].parts)
    [] OTHER -> {}
Graph == [t \in DOMAIN tys |-> Edges(t)]

Component(t) == {u \in Reach(Graph, {t}) : t \in Reach(Graph, {u})}

Roots_AllFunctions == UNION {ToSet(args[f]) : f \in DOMAIN args}
Roots == UNION {ToSet(args[f]) : f \in source.desired}

DefinitionGraph ==
  /\ phase = "graph"
  /\ IF \E t \in DOMAIN tys : tys[t].kind = "pun" /\ tys[t].real = 0
     THEN Ends("no_pun") /\ UNCHANGED reachable
     ELSE /\ phase' = "emit" /\ UNCHANGED result
          /\ reachable' = Reach(Graph, Roots)
  /\ UNCHANGED <<source, lang, ctxVars, factVars, emitVars>>

(* The order in a component: nominal types first, then by index; it is     *)
(* emitted from the end.                                                   *)
IsNominal(t) == tys[t].kind \in Nominals
SortsBefore(t, u) == (IsNominal(t) /\ ~IsNominal(u)) \/ (IsNominal(t) = IsNominal(u) /\ t < u)
SortedAfter(comp, t) == {u \in comp : SortsBefore(t, u)}
Emitted(comp) ==
  [i \in 1 .. Cardinality(comp) |->
     CHOOSE t \in comp : Cardinality(SortedAfter(comp, t)) = i - 1]

(* Forward declare all but the first one, then define all. *)
Definitions(comp) ==
  LET nodes == Emitted(comp)
      as(op, list) == [n \in DOMAIN list |-> <<op, list[n]>>]
  IN  as("declare", Tail(nodes)) \o as("define", nodes)

(* kosaraju_scc promises the components in reverse topological order, and  *)
(* no more: the next one is any that depends on finished ones only.        *)
NextComponent ==
  /\ phase = "emit" /\ todo = <<>>
  /\ \E t \in reachable \ defined :
       LET comp == Component(t)
       IN  /\ \A u \in comp : Edges(u) \subseteq comp \cup defined
           /\ todo' = Definitions(comp)
  /\ UNCHANGED <<source, lang, phase, result, ctxVars, factVars, reachable,
                 declared, defined, names, incomplete>>

-----------------------------------------------------------------------------
(* generate_definitions of the two toolchains *)

(* The names that intern_tyname builds the name of t from. *)
NamedAfter(t) ==
  CASE tys[t].kind \in {"array", "ref"} -> ToSet(tys[t].parts)
    [] tys[t].kind = "pun" -> {tys[t].real}
    [] OTHER -> {}

(* The names that the text of a declaration or definition mentions. *)
Mentions(op, t) ==
  IF \/ op = "define" /\ tys[t].kind \in {"struct", "union", "tagged", "alias"}
     \/ op = "declare" /\ tys[t].kind = "alias" /\ lang = "c"
  THEN ToSet(tys[t].parts) ELSE {}

Unsupported(op, t) ==
  /\ lang = "c"
  /\ tys[t].kind = "empty" \/ (op = "define" /\ tys[t].kind = "tagged")

LookupFails(op, t) ==
  \/ t \notin names /\ ~(NamedAfter(t) \subseteq names)
  \/ ~(Mentions(op, t) \subseteq names \cup {t})

(* What a C compiler asks of a field that is no pointer: the struct, union *)
(* or enum it is in the end has been defined.                              *)
Behind(t) ==
  IF tys[t].kind \in {"array", "alias"} THEN ToSet(tys[t].parts)
  ELSE IF tys[t].kind = "pun" THEN {tys[t].real} ELSE {}
Sized(t) ==
  LET through == [u \in DOMAIN tys |-> Behind(u)]
  IN  {u \in Reach(through, {t}) : tys[u].kind \in {"struct", "union", "enum"}}

EmitDefinition ==
  /\ phase = "emit" /\ todo # <<>>
  /\ LET op == Head(todo)[1]
         t  == Head(todo)[2]
     IN  CASE Unsupported(op, t) -> Ends("unsupported") /\ UNCHANGED emitVars
           [] ~Unsupported(op, t) /\ LookupFails(op, t) -> Ends("panic") /\ UNCHANGED emitVars
           [] OTHER ->
                /\ names' = names \cup {t}
                /\ declared' = IF op = "declare" THEN declared \cup {t} ELSE declared
                /\ defined' = IF op = "define" THEN defined \cup {t} ELSE defined
                /\ incomplete' =
                     IF lang = "c" /\ op = "define" /\ tys[t].kind \in {"struct", "union"}
                     THEN LET sized == UNION {Sized(p) : p \in ToSet(tys[t].parts)}
                          IN  incomplete \cup {<<t, u>> : u \in sized \ defined}
                     ELSE incomplete
                /\ todo' = Tail(todo)
                /\ UNCHANGED <<phase, result>>
  /\ UNCHANGED <<source, lang, ctxVars, factVars, reachable>>

(* After the definitions come the signatures of the desired functions,     *)
(* which look up the names of their arguments.                             *)
GenerateFunctions ==
  /\ phase = "emit" /\ todo = <<>> /\ reachable \subseteq defined
  /\ Ends(IF \A f \in source.desired : ToSet(args[f]) \subseteq names THEN "ok" ELSE "panic")
  /\ UNCHANGED <<source, lang, ctxVars, factVars, reachable, emitVars>>

Over == phase = "over" /\ UNCHANGED vars

Next == \/ Typeck \/ ComputeFact \/ FactsDone
        \/ DefinitionGraph \/ NextComponent \/ EmitDefinition \/ GenerateFunctions
        \/ Over
Spec == Init /\ [][Next]_vars

-----------------------------------------------------------------------------
(* Properties *)

Idxs == DOMAIN tys
TypeOK ==
  /\ source \in Programs /\ lang \in Langs
  /\ phase \in {"typeck", "facts", "graph", "emit", "over"}
  /\ result \in {"none", "undefined", "infinite", "no_pun", "unsupported", "panic", "ok"}
  /\ \A t \in Idxs : /\ tys[t].kind \in Nominals \cup {"prim", "empty", "array", "ref"}
                     /\ tys[t].parts \in Seq(Idxs)
                     /\ tys[t].real \in Idxs \cup {0}
  /\ \A f \in DOMAIN args : args[f] \in Seq(Idxs)
  /\ to_compute \in Seq(Idxs)
  /\ visited \cup known \cup refs \cup reachable \cup declared \cup defined \cup names
       \subseteq Idxs
  /\ todo \in Seq({"declare", "define"} \X Idxs)
  /\ incomplete \subseteq Idxs \X Idxs

(* Types that hold each other by value, through every block of a pun. *)
Holds == [t \in Idxs |-> IF tys[t].kind \in Aggregates THEN ToSet(tys[t].parts) ELSE {}]
SelfHolding == {t \in Idxs : t \in Reach(Holds, Holds[t])}

(* compute_ty_facts rejects a program exactly if a type holds itself by    *)
(* value: neither sharing, nor the order of declarations, nor a type that  *)
(* is on the worklist twice is taken for a cycle, and no cycle slips by.   *)
RejectedIffSelfHolding ==
  /\ result = "infinite" => SelfHolding # {}
  /\ phase = "graph" => SelfHolding = {}

(* contains_ref, which decides on lifetimes in Rust, is exact: it is set   *)
(* where a reference is somewhere inside by value, and nowhere else, in    *)
(* whatever order the worklist gets to the types.                          *)
ContainsRefExact ==
  phase = "graph" =>
    /\ known = Idxs
    /\ refs = {t \in Idxs : \E u \in Reach(Holds, {t}) : tys[u].kind = "ref"}

(* The worklist is restacked at most once for every type, so it ends.      *)
PartCount(ts) == FoldLeft(LAMBDA sum, ty : sum + Len(ty.parts), 0, ts)
WorklistBounded == Len(to_compute) <= Len(tys) + PartCount(tys)

(* What is emitted for some of the functions is a program of its own: it   *)
(* defines every type they mention, directly or not, and no type that only *)
(* other functions mention.                                                *)
Needs == [t \in Idxs |-> NamedAfter(t) \cup Mentions("define", t)]
SubsetIsClosed ==
  result = "ok" => defined = Reach(Needs, UNION {ToSet(args[f]) : f \in source.desired})

(* A name that is looked up is there, unless the definitions are tangled:  *)
(* a cycle goes through two references or arrays, or, in C, through an     *)
(* alias.                                                                  *)
Tangled(comp) ==
  /\ Cardinality(comp) > 1
  /\ \/ Cardinality({t \in comp : ~IsNominal(t)}) > 1
     \/ lang = "c" /\ \E t \in comp : tys[t].kind = "alias"
LookupsFailOnlyInTangles ==
  result = "panic" => \E t \in reachable : Tangled(Component(t))

(* "We need all the nominal types to come first" so that a declaration     *)
(* never refers to an undeclared type (definition_graph): no lookup of a   *)
(* name fails.                                                             *)
NamesDeclaredFirst == result # "panic"

(* "Languages like C and C++ require types to be defined before they're    *)
(* used" (definitions): no struct or union of the C source has a field of  *)
(* a type that is only forward declared at that point.                     *)
DefinedBeforeUsed == incomplete = {}
=============================================================================
