---------------------------- MODULE TypesProofs ----------------------------
(***************************************************************************)
(* Proofs about Types: what kdl-script makes of a program, for every       *)
(* program that can be written with the names of Programs, and for both    *)
(* languages.                                                              *)
(*                                                                         *)
(* The first part shows that typeck keeps a table of types closed: what a  *)
(* type is made of is in the table, and every slot that was reserved for a *)
(* nominal type is filled in at the end.  Typeck is a handful of nested    *)
(* folds, so the part starts with what a fold preserves.  The second part  *)
(* is about Reach, the least set that is closed under a relation.  From    *)
(* these follows the invariant of compute_ty_facts: a type that was        *)
(* stacked for its children has them above itself on the worklist, with    *)
(* nothing but what it holds by value in between, so that meeting it again *)
(* unfinished means that it holds itself (FactsInv).  EmitInv adds what    *)
(* the generators of the definitions keep.  NamesInv says that the         *)
(* definitions that are still to be emitted look up no name before it is   *)
(* there, if none of their components is tangled: types that need each     *)
(* other do so through a reference, since none of them holds itself, so    *)
(* that the one that is not declared first is not nominal.  The last part  *)
(* bounds the worklist.                                                    *)
(***************************************************************************)
EXTENDS Types, DataLemmas

-----------------------------------------------------------------------------
(* Folds *)

(* A fold of steps G over the numbers up to n exists, if each step leads   *)
(* from what it may be given, A, to what it may give.                      *)
Steps(n, A, G) ==
  \A s \in SUBSET (1 .. n) : s # {} =>
    \A a \in A[s \ {Max(s)}] : G[Max(s)][a] \in A[s]

IsFold(f, n, base, G) ==
  f = [s \in SUBSET (1 .. n) |-> IF s = {} THEN base ELSE G[Max(s)][f[s \ {Max(s)}]]]

LEMMA FoldExists ==
  ASSUME NEW n \in Nat, NEW A, NEW base, base \in A[{}], NEW G, Steps(n, A, G)
  PROVE  \E f : IsFold(f, n, base, G) /\ \A s \in SUBSET (1 .. n) : f[s] \in A[s]
<1> DEFINE Eq(f, m) == /\ f = [s \in SUBSET (1 .. m) |->
                                 IF s = {} THEN base ELSE G[Max(s)][f[s \ {Max(s)}]]]
                       /\ \A s \in SUBSET (1 .. m) : f[s] \in A[s]
           I == {m \in Nat : m <= n => \E f : Eq(f, m)}
<1>1. 0 \in I
  <2>1. SUBSET (1 .. 0) = {{}}
    OBVIOUS
  <2>2. Eq([s \in {{}} |-> base], 0)
    BY <2>1
  <2> HIDE DEF Eq
  <2> QED
    BY <2>2
<1>2. ASSUME NEW m \in Nat, m \in I PROVE m + 1 \in I
  <2> SUFFICES ASSUME m + 1 <= n PROVE \E g : Eq(g, m + 1)
    <3> HIDE DEF Eq
    <3> QED OBVIOUS
  <2>1. PICK f : Eq(f, m)
    <3> HIDE DEF Eq
    <3> QED BY <1>2
  <2>2. PICK g : g = [s \in SUBSET (1 .. m + 1) |->
                        IF s = {} THEN base ELSE G[Max(s)][f[s \ {Max(s)}]]]
    OBVIOUS
  <2>3. ASSUME NEW s \in SUBSET (1 .. m + 1), s # {}
        PROVE  /\ s \in SUBSET (1 .. n) /\ s \ {Max(s)} \in SUBSET (1 .. m)
               /\ s \ {Max(s)} \in SUBSET (1 .. m + 1)
    <3>1. s \in SUBSET (1 .. n) /\ 1 .. m \subseteq 1 .. m + 1
      OBVIOUS
    <3> QED
      BY <2>3, <3>1, MaxIs
  <2>4. ASSUME NEW s \in SUBSET (1 .. m) PROVE g[s] = f[s] /\ s \in SUBSET (1 .. m + 1)
    <3>1. s \in SUBSET (1 .. m + 1)
      OBVIOUS
    <3> QED
      BY <2>1, <2>2, <3>1
  <2>5. ASSUME NEW s \in SUBSET (1 .. m + 1)
        PROVE  g[s] = IF s = {} THEN base ELSE G[Max(s)][g[s \ {Max(s)}]]
    <3>1. CASE s = {}
      BY <2>2, <3>1
    <3>2. CASE s # {}
      <4>1. g[s] = G[Max(s)][f[s \ {Max(s)}]]
        BY <2>2, <3>2
      <4>2. g[s \ {Max(s)}] = f[s \ {Max(s)}]
        BY <2>3, <2>4, <3>2
      <4> QED
        BY <3>2, <4>1, <4>2
    <3> QED
      BY <3>1, <3>2
  <2>6. ASSUME NEW s \in SUBSET (1 .. m + 1) PROVE g[s] \in A[s]
    <3>1. CASE s = {}
      BY <2>2, <3>1
    <3>2. CASE s # {}
      <4>1. f[s \ {Max(s)}] \in A[s \ {Max(s)}]
        BY <2>1, <2>3, <3>2
      <4>2. g[s] = G[Max(s)][f[s \ {Max(s)}]]
        BY <2>2, <3>2
      <4> QED
        BY <2>3, <3>2, <4>1, <4>2 DEF Steps
    <3> QED
      BY <3>1, <3>2
  <2>7. g = [s \in SUBSET (1 .. m + 1) |->
               IF s = {} THEN base ELSE G[Max(s)][g[s \ {Max(s)}]]]
    <3>1. g = [s \in SUBSET (1 .. m + 1) |-> g[s]]
      BY <2>2
    <3> QED
      BY <2>5, <3>1
  <2> QED
    BY <2>6, <2>7
<1>3. n \in I
  <2> HIDE DEF I
  <2> QED BY <1>1, <1>2, SetInduction
<1>4. \E f : Eq(f, n)
  <2> HIDE DEF Eq
  <2> QED BY <1>3
<1> QED
  BY <1>4 DEF IsFold

LEMMA FoldStays ==
  ASSUME NEW n \in Nat, NEW A, NEW h, h[{}] \in A[{}],
         \A s \in SUBSET (1 .. n) :
           s # {} /\ h[s \ {Max(s)}] \in A[s \ {Max(s)}] => h[s] \in A[s]
  PROVE  \A s \in SUBSET (1 .. n) : h[s] \in A[s]
<1> DEFINE I == {m \in Nat : m <= n => \A s \in SUBSET (1 .. m) : h[s] \in A[s]}
<1>1. 0 \in I
  <2>1. SUBSET (1 .. 0) = {{}}
    OBVIOUS
  <2> QED
    BY <2>1
<1>2. ASSUME NEW m \in Nat, m \in I PROVE m + 1 \in I
  <2> SUFFICES ASSUME m + 1 <= n, NEW s \in SUBSET (1 .. m + 1) PROVE h[s] \in A[s]
    OBVIOUS
  <2>1. CASE s = {}
    BY <2>1
  <2>2. CASE s # {}
    <3>1. s \in SUBSET (1 .. n)
      OBVIOUS
    <3>2. s \ {Max(s)} \in SUBSET (1 .. m)
      BY <2>2, <3>1, MaxIs
    <3>3. \A r \in SUBSET (1 .. m) : h[r] \in A[r]
      BY <1>2
    <3> QED
      BY <2>2, <3>1, <3>2, <3>3
  <2> QED
    BY <2>1, <2>2
<1>3. n \in I
  <2> HIDE DEF I
  <2> QED BY <1>1, <1>2, SetInduction
<1> QED
  BY <1>3

-----------------------------------------------------------------------------
(* Tables of types *)

Kinds == Nominals \cup {"prim", "empty", "array", "ref", "incomplete"}
AnyTy == [kind : Kinds, parts : Seq(Nat), real : Nat]

Unfilled(ts) == {t \in DOMAIN ts : ts[t].kind = "incomplete"}
Slots(ts) == {t \in DOMAIN ts : ts[t].kind \in Nominals \cup {"incomplete"}}

(* What a type is made of is in the table.  No reference and no array is   *)
(* made of itself, and what a pun is resolved to is one of its parts, a    *)
(* nominal type that comes after it.                                       *)
Fits(ts, t, ty) ==
  /\ ty.parts \in Seq(DOMAIN ts) /\ ty.real \in DOMAIN ts \cup {0}
  /\ ty.kind \in {"ref", "array"} => t \notin ToSet(ty.parts)
  /\ ty.kind = "pun" /\ ty.real # 0 =>
       ty.real \in Slots(ts) /\ t < ty.real /\ ty.real \in ToSet(ty.parts)
Closed(ts) == \A t \in DOMAIN ts : Fits(ts, t, ts[t])

(* Tables with at least n types, of which those of open are still to be    *)
(* filled in and those of slots are, or will be, nominal.                  *)
Tables(n, open, slots) ==
  {ts \in Seq(AnyTy) : /\ Closed(ts) /\ Len(ts) >= n
                       /\ Unfilled(ts) = open /\ slots \subseteq Slots(ts)}
Memos(n, open, slots) == {r \in [tys : Tables(n, open, slots), idx : Nat] : r.idx \in DOMAIN r.tys}
MemoLists(n, open, slots) ==
  {r \in [tys : Tables(n, open, slots), idxs : Seq(Nat)] : r.idxs \in Seq(DOMAIN r.tys)}

LEMMA OneSeq ==
  ASSUME NEW S, NEW x \in S
  PROVE  <<x>> \in Seq(S)
OBVIOUS

LEMMA TableFacts ==
  ASSUME NEW n \in Nat, NEW open, NEW slots, NEW ts \in Tables(n, open, slots)
  PROVE  /\ ts \in Seq(AnyTy) /\ Len(ts) \in Nat /\ DOMAIN ts = 1 .. Len(ts) /\ n <= Len(ts)
         /\ \A t \in DOMAIN ts :
              ts[t] \in AnyTy /\ ts[t].parts \in Seq(DOMAIN ts) /\ ts[t].real \in DOMAIN ts \cup {0}
         /\ ts \in Tables(Len(ts), open, slots)
         /\ \A m \in Nat : m <= Len(ts) => ts \in Tables(m, open, slots)
         /\ Slots(ts) \in SUBSET DOMAIN ts /\ slots \subseteq Slots(ts)
         /\ \A less \in SUBSET Slots(ts) : ts \in Tables(n, open, less)
<1>1. /\ ts \in Seq(AnyTy) /\ Closed(ts) /\ Len(ts) >= n /\ Unfilled(ts) = open
      /\ slots \subseteq Slots(ts)
  BY DEF Tables
<1>2. /\ Len(ts) \in Nat /\ DOMAIN ts = 1 .. Len(ts) /\ n <= Len(ts)
      /\ \A t \in DOMAIN ts : ts[t] \in AnyTy
  BY <1>1
<1>3. \A t \in DOMAIN ts : ts[t].parts \in Seq(DOMAIN ts) /\ ts[t].real \in DOMAIN ts \cup {0}
  BY <1>1 DEF Closed, Fits
<1>4. /\ ts \in Tables(Len(ts), open, slots)
      /\ \A m \in Nat : m <= Len(ts) => ts \in Tables(m, open, slots)
      /\ \A less \in SUBSET Slots(ts) : ts \in Tables(n, open, less)
  BY <1>1, <1>2 DEF Tables
<1>5. Slots(ts) \in SUBSET DOMAIN ts
  BY DEF Slots
<1> QED
  BY <1>1, <1>2, <1>3, <1>4, <1>5

LEMMA SeqWider ==
  ASSUME NEW a \in Nat, NEW b \in Nat, a <= b, NEW s \in Seq(1 .. a)
  PROVE  s \in Seq(1 .. b)
<1>1. Len(s) \in Nat /\ \A i \in 1 .. Len(s) : s[i] \in 1 .. b
  OBVIOUS
<1>2. s = [i \in 1 .. Len(s) |-> s[i]]
  OBVIOUS
<1> QED
  BY <1>1, <1>2

(* What fits one table fits another with as many types and slots. *)
LEMMA FitsMore ==
  ASSUME NEW n \in Nat, NEW m \in Nat, n <= m, NEW ts, NEW new, NEW t, NEW ty,
         DOMAIN ts = 1 .. n, DOMAIN new = 1 .. m, Slots(ts) \subseteq Slots(new), Fits(ts, t, ty)
  PROVE  Fits(new, t, ty)
<1>1. ty.parts \in Seq(1 .. n) /\ ty.real \in (1 .. n) \cup {0}
  BY DEF Fits
<1>2. ty.parts \in Seq(1 .. m) /\ ty.real \in (1 .. m) \cup {0}
  BY <1>1, SeqWider
<1> QED
  BY <1>2 DEF Fits

(* A type more at the end of a table. *)
LEMMA AppendTy ==
  ASSUME NEW n \in Nat, NEW open, NEW slots, NEW ts \in Tables(n, open, slots),
         NEW ty \in AnyTy, ty.parts \in Seq(DOMAIN ts), ty.real \in DOMAIN ts \cup {0},
         ty.kind # "pun"
  PROVE  /\ ty.kind # "incomplete" => Append(ts, ty) \in Tables(Len(ts) + 1, open, slots)
         /\ ty.kind = "incomplete"
              => Append(ts, ty) \in Tables(Len(ts) + 1, open \cup {Len(ts) + 1}, slots)
         /\ Len(Append(ts, ty)) = Len(ts) + 1
<1> DEFINE new == Append(ts, ty)
<1>1. /\ new \in Seq(AnyTy) /\ Len(new) = Len(ts) + 1 /\ DOMAIN new = 1 .. Len(ts) + 1
      /\ new[Len(ts) + 1] = ty /\ \A t \in 1 .. Len(ts) : new[t] = ts[t]
  BY TableFacts
<1> HIDE DEF new
<1>2. PICK k \in Nat : k = Len(ts) /\ DOMAIN ts = 1 .. k
  BY TableFacts
<1>3. Slots(ts) \subseteq Slots(new)
  BY <1>1, <1>2 DEF Slots
<1>4. Fits(ts, k + 1, ty)
  <2>1. \A i \in DOMAIN ty.parts : ty.parts[i] \in 1 .. k
    BY <1>2
  <2>2. k + 1 \notin ToSet(ty.parts)
    BY <2>1 DEF ToSet
  <2> QED
    BY <2>2 DEF Fits
<1>5. ASSUME NEW t \in DOMAIN new PROVE Fits(new, t, new[t])
  <2>1. t \in 1 .. k \/ t = k + 1
    BY <1>1, <1>2
  <2>2. Fits(ts, t, new[t])
    <3>1. \A u \in DOMAIN ts : Fits(ts, u, ts[u])
      BY DEF Tables, Closed
    <3> QED
      BY <1>1, <1>2, <1>4, <2>1, <3>1
  <2>3. k + 1 \in Nat /\ k <= k + 1 /\ DOMAIN new = 1 .. k + 1
    BY <1>1, <1>2
  <2> QED
    BY <1>2, <1>3, <2>2, <2>3, FitsMore
<1>6. Closed(new)
  BY <1>5 DEF Closed
<1>7. Unfilled(ts) = open /\ slots \subseteq Slots(ts)
  BY DEF Tables
<1>8. /\ ty.kind # "incomplete" => Unfilled(new) = open
      /\ ty.kind = "incomplete" => Unfilled(new) = open \cup {Len(ts) + 1}
  <2>1. DOMAIN new = DOMAIN ts \cup {Len(ts) + 1}
    BY <1>1, <1>2
  <2>2. \A t \in DOMAIN ts : new[t].kind = ts[t].kind
    BY <1>1, <1>2
  <2>3. new[Len(ts) + 1].kind = ty.kind
    BY <1>1
  <2> QED
    BY <1>7, <2>1, <2>2, <2>3 DEF Unfilled
<1>9. Len(new) >= Len(ts) + 1 /\ slots \subseteq Slots(new)
  BY <1>1, <1>2, <1>3, <1>7
<1> QED
  BY <1>1, <1>6, <1>8, <1>9 DEF Tables, new

(* A nominal type of a table filled in. *)
LEMMA FillTy ==
  ASSUME NEW n \in Nat, NEW open, NEW slots, NEW ts \in Tables(n, open, slots),
         NEW idx \in DOMAIN ts, NEW ty \in AnyTy, Fits(ts, idx, ty), ty.kind \in Nominals
  PROVE  [ts EXCEPT ![idx] = ty] \in Tables(n, open \ {idx}, slots \cup {idx})
<1>1. PICK new : new = [ts EXCEPT ![idx] = ty]
  OBVIOUS
<1>2. /\ new \in Seq(AnyTy) /\ Len(new) = Len(ts) /\ DOMAIN new = DOMAIN ts
      /\ new[idx] = ty /\ \A t \in DOMAIN ts : t # idx => new[t] = ts[t]
  BY <1>1, TableFacts
<1>3. Slots(ts) \cup {idx} \subseteq Slots(new)
  BY <1>2 DEF Slots
<1>4. Closed(new)
  <2>1. PICK k \in Nat : k = Len(ts) /\ DOMAIN ts = 1 .. k
    BY TableFacts
  <2>2. ASSUME NEW t \in DOMAIN new PROVE Fits(new, t, new[t])
    <3>1. \A u \in DOMAIN ts : Fits(ts, u, ts[u])
      BY DEF Tables, Closed
    <3>2. Fits(ts, t, new[t])
      BY <1>2, <3>1
    <3> QED
      BY <1>2, <1>3, <2>1, <3>2, FitsMore
  <2> QED
    BY <2>2 DEF Closed
<1>5. Unfilled(new) = open \ {idx}
  <2>1. Unfilled(ts) = open
    BY DEF Tables
  <2>2. ty.kind # "incomplete"
    BY DEF Nominals
  <2> QED
    BY <1>2, <2>1, <2>2 DEF Unfilled
<1>6. Len(new) >= n /\ slots \subseteq Slots(ts)
  BY <1>2, TableFacts
<1>7. slots \cup {idx} \subseteq Slots(new)
  BY <1>3, <1>6
<1> QED
  BY <1>1, <1>2, <1>4, <1>5, <1>6, <1>7 DEF Tables

LEMMA MemoizeInnerTyped ==
  ASSUME NEW n \in Nat, NEW open, NEW slots, NEW ts \in Tables(n, open, slots),
         NEW ty \in AnyTy, ty.parts \in Seq(DOMAIN ts), ty.real \in DOMAIN ts \cup {0},
         ty.kind \notin {"incomplete", "pun"}
  PROVE  MemoizeInner(ts, ty) \in Memos(n, open, slots)
<1>1. CASE \E i \in DOMAIN ts : ts[i] = ty
  <2>1. PICK i \in DOMAIN ts : i = CHOOSE j \in DOMAIN ts : ts[j] = ty
    BY <1>1
  <2>2. MemoizeInner(ts, ty) = [tys |-> ts, idx |-> i]
    BY <1>1, <2>1 DEF MemoizeInner
  <2>3. i \in Nat
    BY TableFacts
  <2> QED
    BY <2>2, <2>3 DEF Memos
<1>2. CASE ~ \E i \in DOMAIN ts : ts[i] = ty
  <2>1. MemoizeInner(ts, ty) = [tys |-> Append(ts, ty), idx |-> Len(ts) + 1]
    BY <1>2 DEF MemoizeInner
  <2>2. PICK new : new = Append(ts, ty)
    OBVIOUS
  <2>3. new \in Tables(Len(ts) + 1, open, slots) /\ Len(new) = Len(ts) + 1
    <3>1. ty.kind # "pun" /\ ty.kind # "incomplete"
      OBVIOUS
    <3>2. Append(ts, ty) \in Tables(Len(ts) + 1, open, slots)
      BY <3>1, AppendTy
    <3>3. Len(Append(ts, ty)) = Len(ts) + 1
      BY <3>1, AppendTy
    <3> QED
      BY <2>2, <3>2, <3>3
  <2>4. Len(ts) \in Nat /\ n <= Len(ts)
    BY TableFacts
  <2>5. n <= Len(new) /\ Len(ts) + 1 \in Nat
    BY <2>3, <2>4
  <2>6. new \in Tables(n, open, slots) /\ Len(ts) + 1 \in DOMAIN new
    BY <2>3, <2>4, <2>5, TableFacts
  <2> QED
    BY <2>1, <2>2, <2>5, <2>6 DEF Memos
<1> QED
  BY <1>1, <1>2

-----------------------------------------------------------------------------
(* The folds of typeck *)

Resolves(n, env, w) == w.base = "()" \/ (w.base \in DOMAIN env /\ env[w.base] \in 1 .. n)

LEMMA MemoizeTyTyped ==
  ASSUME NEW n \in Nat, NEW open, NEW slots, NEW ts \in Tables(n, open, slots),
         NEW env, NEW w \in WrittenTypes, Resolves(Len(ts), env, w)
  PROVE  MemoizeTy(ts, env, w) \in Memos(n, open, slots)
<1> DEFINE M == Memos(n, open, slots)
           k == Len(w.mods)
           base == IF w.base = "()" THEN MemoizeInner(ts, Ty("empty", <<>>))
                   ELSE [tys |-> ts, idx |-> env[w.base]]
           op(acc, i) == MemoizeInner(acc.tys, Ty(w.mods[i], <<acc.idx>>))
           A == [s \in SUBSET (1 .. k) |-> M]
           G == [i \in 1 .. k |-> [acc \in M |-> op(acc, i)]]
           Is(f) == f = [s \in SUBSET (1 .. k) |->
                           IF s = {} THEN base ELSE op(f[s \ {Max(s)}], Max(s))]
           h == CHOOSE f : Is(f)
<1>1. w.mods \in Seq({"ref", "array"}) /\ k \in Nat /\ DOMAIN w.mods = 1 .. k
  BY DEF WrittenTypes
<1>2. base \in M
  <2>1. CASE w.base = "()"
    <3>1. Ty("empty", <<>>) \in AnyTy /\ Ty("empty", <<>>).parts = <<>>
          /\ Ty("empty", <<>>).real = 0 /\ Ty("empty", <<>>).kind = "empty"
      BY DEF Ty, AnyTy, Kinds
    <3>2. <<>> \in Seq(DOMAIN ts)
      OBVIOUS
    <3>3. MemoizeInner(ts, Ty("empty", <<>>)) \in M
      BY <3>1, <3>2, MemoizeInnerTyped
    <3> QED
      BY <2>1, <3>3
  <2>2. CASE w.base # "()"
    <3>1. env[w.base] \in 1 .. Len(ts)
      BY <2>2 DEF Resolves
    <3>2. env[w.base] \in DOMAIN ts /\ env[w.base] \in Nat
      BY <3>1, TableFacts
    <3> QED
      BY <2>2, <3>2 DEF Memos
  <2> QED
    BY <2>1, <2>2
<1>3. ASSUME NEW i \in 1 .. k, NEW acc \in M PROVE op(acc, i) \in M
  <2>1. acc.tys \in Tables(n, open, slots) /\ acc.idx \in Nat /\ acc.idx \in DOMAIN acc.tys
    BY DEF Memos
  <2>2. PICK ty : ty = Ty(w.mods[i], <<acc.idx>>)
    OBVIOUS
  <2>3. w.mods[i] \in {"ref", "array"}
    BY <1>1
  <2>4. /\ ty \in AnyTy /\ ty.parts = <<acc.idx>> /\ ty.real = 0
        /\ ty.kind \notin {"incomplete", "pun"}
    BY <2>1, <2>2, <2>3 DEF Ty, AnyTy, Kinds
  <2>5. ty.parts \in Seq(DOMAIN acc.tys)
    BY <2>1, <2>4, OneSeq
  <2>6. MemoizeInner(acc.tys, ty) \in Memos(n, open, slots)
    BY <2>1, <2>4, <2>5, MemoizeInnerTyped
  <2> QED
    BY <2>2, <2>6
<1> HIDE DEF base, op, M
<1>4. Steps(k, A, G)
  <2> SUFFICES ASSUME NEW s \in SUBSET (1 .. k), s # {}, NEW a \in A[s \ {Max(s)}]
               PROVE  G[Max(s)][a] \in A[s]
    BY DEF Steps
  <2>1. Max(s) \in 1 .. k /\ s \ {Max(s)} \in SUBSET (1 .. k)
    BY <1>1, MaxIs
  <2> QED
    BY <1>3, <2>1
<1>5. PICK f : IsFold(f, k, base, G) /\ \A s \in SUBSET (1 .. k) : f[s] \in A[s]
  <2>1. base \in A[{}]
    BY <1>2
  <2> HIDE DEF A, G, k
  <2> QED
    BY <1>1, <1>4, <2>1, FoldExists
<1>6. Is(f)
  <2>1. ASSUME NEW s \in SUBSET (1 .. k), s # {}
        PROVE  G[Max(s)][f[s \ {Max(s)}]] = op(f[s \ {Max(s)}], Max(s))
    <3>1. Max(s) \in 1 .. k /\ s \ {Max(s)} \in SUBSET (1 .. k)
      BY <1>1, <2>1, MaxIs
    <3>2. f[s \ {Max(s)}] \in M
      BY <1>5, <3>1
    <3> QED
      BY <3>1, <3>2
  <2>2. [s \in SUBSET (1 .. k) |-> IF s = {} THEN base ELSE G[Max(s)][f[s \ {Max(s)}]]]
        = [s \in SUBSET (1 .. k) |-> IF s = {} THEN base ELSE op(f[s \ {Max(s)}], Max(s))]
    BY <2>1
  <2> QED
    BY <1>5, <2>2 DEF IsFold
<1>7. Is(h)
  <2> HIDE DEF Is
  <2> QED BY <1>6
<1> HIDE DEF h
<1>8. \A s \in SUBSET (1 .. k) : h[s] \in A[s]
  <2>1. h[{}] \in A[{}]
    BY <1>2, <1>7
  <2>2. ASSUME NEW s \in SUBSET (1 .. k), s # {}, h[s \ {Max(s)}] \in A[s \ {Max(s)}]
        PROVE  h[s] \in A[s]
    <3>1. Max(s) \in 1 .. k /\ s \ {Max(s)} \in SUBSET (1 .. k)
      BY <1>1, <2>2, MaxIs
    <3>2. h[s] = op(h[s \ {Max(s)}], Max(s))
      BY <1>7, <2>2
    <3> QED
      BY <1>3, <2>2, <3>1, <3>2
  <2> HIDE DEF A
  <2> QED
    BY <1>1, <2>1, <2>2, FoldStays
<1>9. MemoizeTy(ts, env, w) = h[1 .. k]
  BY <1>1 DEF MemoizeTy, FoldLeft, MapThenFoldSet, h, Is, base, op
<1> QED
  BY <1>8, <1>9 DEF M

LEMMA MemoizeAllTyped ==
  ASSUME NEW n \in Nat, NEW open, NEW slots, NEW ts \in Tables(n, open, slots),
         NEW env, NEW list \in Seq(WrittenTypes), \A i \in DOMAIN list : Resolves(n, env, list[i])
  PROVE  MemoizeAll(ts, env, list) \in MemoLists(n, open, slots)
<1> DEFINE M == MemoLists(n, open, slots)
           k == Len(list)
           base == [tys |-> ts, idxs |-> <<>>]
           op(acc, i) == LET one == MemoizeTy(acc.tys, env, list[i])
                         IN  [tys |-> one.tys, idxs |-> Append(acc.idxs, one.idx)]
           A == [s \in SUBSET (1 .. k) |-> M]
           G == [i \in 1 .. k |-> [acc \in M |-> op(acc, i)]]
           Is(f) == f = [s \in SUBSET (1 .. k) |->
                           IF s = {} THEN base ELSE op(f[s \ {Max(s)}], Max(s))]
           h == CHOOSE f : Is(f)
<1>1. k \in Nat /\ DOMAIN list = 1 .. k /\ \A i \in 1 .. k : list[i] \in WrittenTypes
  OBVIOUS
<1>2. base \in M
  <2>1. PICK e : e = <<>>
    OBVIOUS
  <2>2. e \in Seq(Nat) /\ e \in Seq(DOMAIN ts)
    BY <2>1
  <2>3. [tys |-> ts, idxs |-> e] \in M
    BY <2>2 DEF MemoLists
  <2> QED
    BY <2>1, <2>3
<1>3. ASSUME NEW i \in 1 .. k, NEW acc \in M PROVE op(acc, i) \in M
  <2>1. PICK at : at = acc.tys
    OBVIOUS
  <2>2. at \in Tables(n, open, slots) /\ acc.idxs \in Seq(DOMAIN at)
    BY <2>1 DEF MemoLists
  <2>3. Len(at) \in Nat /\ n <= Len(at) /\ at \in Tables(Len(at), open, slots) /\ DOMAIN at = 1 .. Len(at)
    BY <2>2, TableFacts
  <2>4. Resolves(n, env, list[i])
    BY <1>1
  <2>5. Resolves(Len(at), env, list[i])
    BY <2>3, <2>4 DEF Resolves
  <2>6. PICK one : one = MemoizeTy(at, env, list[i])
    OBVIOUS
  <2>7. one \in Memos(Len(at), open, slots)
    BY <1>1, <2>3, <2>5, <2>6, MemoizeTyTyped
  <2>8. PICK new : new = one.tys
    OBVIOUS
  <2>9. new \in Tables(Len(at), open, slots) /\ one.idx \in Nat /\ one.idx \in DOMAIN new
    BY <2>7, <2>8 DEF Memos
  <2>10. /\ Len(new) \in Nat /\ Len(at) <= Len(new) /\ DOMAIN new = 1 .. Len(new)
         /\ new \in Tables(n, open, slots)
    <3>1. Len(new) \in Nat /\ Len(at) <= Len(new) /\ DOMAIN new = 1 .. Len(new)
      BY <2>3, <2>9, TableFacts
    <3>2. n <= Len(new)
      BY <2>3, <3>1
    <3> QED
      BY <2>3, <2>9, <3>1, <3>2, TableFacts
  <2>11. acc.idxs \in Seq(DOMAIN new)
    BY <2>2, <2>3, <2>10, SeqWider
  <2>12. PICK idxs : idxs = Append(acc.idxs, one.idx)
    OBVIOUS
  <2>13. idxs \in Seq(DOMAIN new)
    BY <2>9, <2>11, <2>12
  <2>14. idxs \in Seq(Nat)
    BY <2>10, <2>13
  <2>15. op(acc, i) = [tys |-> new, idxs |-> idxs]
    BY <2>1, <2>6, <2>8, <2>12
  <2> QED
    BY <2>10, <2>13, <2>14, <2>15 DEF MemoLists
<1> HIDE DEF base, op, M
<1>4. Steps(k, A, G)
  <2> SUFFICES ASSUME NEW s \in SUBSET (1 .. k), s # {}, NEW a \in A[s \ {Max(s)}]
               PROVE  G[Max(s)][a] \in A[s]
    BY DEF Steps
  <2>1. Max(s) \in 1 .. k /\ s \ {Max(s)} \in SUBSET (1 .. k)
    BY <1>1, MaxIs
  <2> QED
    BY <1>3, <2>1
<1>5. PICK f : IsFold(f, k, base, G) /\ \A s \in SUBSET (1 .. k) : f[s] \in A[s]
  <2>1. base \in A[{}]
    BY <1>2
  <2> HIDE DEF A, G, k
  <2> QED
    BY <1>1, <1>4, <2>1, FoldExists
<1>6. Is(f)
  <2>1. ASSUME NEW s \in SUBSET (1 .. k), s # {}
        PROVE  G[Max(s)][f[s \ {Max(s)}]] = op(f[s \ {Max(s)}], Max(s))
    <3>1. Max(s) \in 1 .. k /\ s \ {Max(s)} \in SUBSET (1 .. k)
      BY <1>1, <2>1, MaxIs
    <3>2. f[s \ {Max(s)}] \in M
      BY <1>5, <3>1
    <3> QED
      BY <3>1, <3>2
  <2>2. [s \in SUBSET (1 .. k) |-> IF s = {} THEN base ELSE G[Max(s)][f[s \ {Max(s)}]]]
        = [s \in SUBSET (1 .. k) |-> IF s = {} THEN base ELSE op(f[s \ {Max(s)}], Max(s))]
    BY <2>1
  <2> QED
    BY <1>5, <2>2 DEF IsFold
<1>7. Is(h)
  <2> HIDE DEF Is
  <2> QED BY <1>6
<1> HIDE DEF h
<1>8. \A s \in SUBSET (1 .. k) : h[s] \in A[s]
  <2>1. h[{}] \in A[{}]
    BY <1>2, <1>7
  <2>2. ASSUME NEW s \in SUBSET (1 .. k), s # {}, h[s \ {Max(s)}] \in A[s \ {Max(s)}]
        PROVE  h[s] \in A[s]
    <3>1. Max(s) \in 1 .. k /\ s \ {Max(s)} \in SUBSET (1 .. k)
      BY <1>1, <2>2, MaxIs
    <3>2. h[s] = op(h[s \ {Max(s)}], Max(s))
      BY <1>7, <2>2
    <3> QED
      BY <1>3, <2>2, <3>1, <3>2
  <2> HIDE DEF A
  <2> QED
    BY <1>1, <2>1, <2>2, FoldStays
<1>9. MemoizeAll(ts, env, list) = h[1 .. k]
  BY <1>1 DEF MemoizeAll, FoldLeft, MapThenFoldSet, h, Is, base, op
<1> QED
  BY <1>8, <1>9 DEF M

(* A name for an index of its own. *)
LEMMA ResolvesMore ==
  ASSUME NEW n \in Nat, NEW m \in Nat, n <= m, NEW env, NEW name, NEW real \in 1 .. m,
         NEW w, Resolves(n, env, w)
  PROVE  Resolves(m, Bind(name, real, env), w) /\ Resolves(m, env, w)
<1>1. PICK new : new = Bind(name, real, env)
  OBVIOUS
<1>2. \A x \in DOMAIN env : x \in DOMAIN new /\ new[x] \in {real, env[x]}
  BY <1>1 DEF Bind
<1> QED
  BY <1>1, <1>2 DEF Resolves

LEMMA CompletePlainTyped ==
  ASSUME NEW n \in Nat, NEW open, NEW slots, NEW ts \in Tables(n, open, slots), NEW env, NEW idx \in 1 .. n,
         NEW decl \in PlainDecls,
         \A i \in DOMAIN decl.fields : Resolves(n, env, decl.fields[i])
  PROVE  CompletePlain(ts, env, idx, decl) \in Tables(n, open \ {idx}, slots \cup {idx})
<1>1. decl.fields \in Seq(WrittenTypes) /\ decl.kind \in Nominals \ {"pun"}
  BY DEF PlainDecls
<1>2. PICK parts : parts = MemoizeAll(ts, env, decl.fields)
  OBVIOUS
<1>3. parts \in MemoLists(n, open, slots)
  BY <1>1, <1>2, MemoizeAllTyped
<1>4. PICK new : new = parts.tys
  OBVIOUS
<1>5. /\ new \in Tables(n, open, slots) /\ parts.idxs \in Seq(DOMAIN new) /\ parts.idxs \in Seq(Nat)
  BY <1>3, <1>4 DEF MemoLists
<1>6. idx \in DOMAIN new
  BY <1>5, TableFacts
<1>7. PICK ty : ty = Ty(decl.kind, parts.idxs)
  OBVIOUS
<1>8. ty \in AnyTy /\ ty.parts = parts.idxs /\ ty.real = 0 /\ ty.kind \in Nominals \ {"pun"}
  BY <1>1, <1>5, <1>7 DEF Ty, AnyTy, Kinds
<1>9. [new EXCEPT ![idx] = ty] \in Tables(n, open \ {idx}, slots \cup {idx})
  <2>1. Fits(new, idx, ty)
    BY <1>5, <1>8 DEF Fits, Nominals
  <2> QED
    BY <1>5, <1>6, <1>8, <2>1, FillTy
<1>10. CompletePlain(ts, env, idx, decl) = [new EXCEPT ![idx] = ty]
  BY <1>2, <1>4, <1>7 DEF CompletePlain
<1> QED
  BY <1>9, <1>10

LEMMA PushTyped ==
  ASSUME NEW n \in Nat, NEW open, NEW slots, NEW ts \in Tables(n, open, slots)
  PROVE  Push(ts) \in Tables(Len(ts) + 1, open \cup {Len(ts) + 1}, slots) /\ Len(Push(ts)) = Len(ts) + 1
<1>1. PICK e : e = <<>>
  OBVIOUS
<1>2. e \in Seq(Nat) /\ e \in Seq(DOMAIN ts)
  BY <1>1
<1>3. PICK ty : ty = Ty("incomplete", e)
  OBVIOUS
<1>4. ty \in AnyTy /\ ty.parts = e /\ ty.real = 0 /\ ty.kind = "incomplete"
  BY <1>2, <1>3 DEF Ty, AnyTy, Kinds
<1>5. Push(ts) = Append(ts, ty)
  BY <1>1, <1>3 DEF Push
<1> QED
  BY <1>2, <1>4, <1>5, AppendTy

LEMMA LessOne ==
  ASSUME NEW n \in Nat, NEW s \in SUBSET (1 .. n), s # {}
  PROVE  Cardinality(s) = Cardinality(s \ {Max(s)}) + 1 /\ Cardinality(s \ {Max(s)}) \in Nat
<1>1. IsFiniteSet(1 .. n)
  BY FS_Interval
<1>2. IsFiniteSet(s)
  BY <1>1, FS_Subset
<1>3. PICK x : x = Max(s)
  OBVIOUS
<1>4. x \in s
  BY <1>3, MaxIs
<1>5. IsFiniteSet(s \ {x})
  BY <1>2, FS_RemoveElement
<1>6. Cardinality(s \ {x}) = Cardinality(s) - 1
  BY <1>2, <1>4, FS_RemoveElement
<1>7. Cardinality(s) \in Nat /\ Cardinality(s \ {x}) \in Nat
  BY <1>2, <1>5, FS_CardinalityType
<1> QED
  BY <1>3, <1>6, <1>7

(* The indices in idxs are those of nominal types after the first n.       *)
LaterSlots(n, ts, idxs) == \A j \in DOMAIN idxs : n < idxs[j] /\ idxs[j] \in Slots(ts)

LEMMA CompletePunTyped ==
  ASSUME NEW n \in Nat, NEW open, NEW slots, NEW ts \in Tables(n, open, slots), NEW env, NEW idx \in 1 .. n,
         NEW decl \in PunDecls,
         \A b \in DOMAIN decl.blocks : \A i \in DOMAIN decl.blocks[b].decl.fields :
           Resolves(n, env, decl.blocks[b].decl.fields[i])
  PROVE  CompletePun(ts, env, idx, decl) \in Tables(n, open \ {idx}, slots)
<1> DEFINE U == MemoLists(n, open, slots)
           k == Len(decl.blocks)
           base == [tys |-> ts, idxs |-> <<>>]
           op(acc, i) == LET real == Len(acc.tys) + 1
                         IN  [tys |-> CompletePlain(Push(acc.tys), Bind(decl.name, real, env),
                                                    real, decl.blocks[i].decl),
                              idxs |-> Append(acc.idxs, real)]
           A == [s \in SUBSET (1 .. k) |->
                   {r \in U : Len(r.idxs) = Cardinality(s) /\ LaterSlots(n, r.tys, r.idxs)}]
           G == [i \in 1 .. k |-> [acc \in U |-> op(acc, i)]]
           Is(f) == f = [s \in SUBSET (1 .. k) |->
                           IF s = {} THEN base ELSE op(f[s \ {Max(s)}], Max(s))]
           h == CHOOSE f : Is(f)
<1>1. /\ k \in Nat /\ DOMAIN decl.blocks = 1 .. k
      /\ \A i \in 1 .. k : decl.blocks[i].decl \in PlainDecls
  <2>1. decl.blocks \in Seq([applies : BOOLEAN, decl : PlainDecls])
    BY DEF PunDecls
  <2>2. PICK B : B = [applies : BOOLEAN, decl : PlainDecls]
    OBVIOUS
  <2>3. PICK blocks : blocks = decl.blocks
    OBVIOUS
  <2>4. Len(blocks) \in Nat /\ DOMAIN blocks = 1 .. Len(blocks)
        /\ \A i \in 1 .. Len(blocks) : blocks[i] \in B
    <3>1. blocks \in Seq(B)
      BY <2>1, <2>2, <2>3
    <3> QED
      BY <3>1
  <2>5. \A b \in B : b.decl \in PlainDecls
    BY <2>2
  <2> QED
    BY <2>3, <2>4, <2>5
<1>2. base \in A[{}]
  <2>1. PICK e : e = <<>>
    OBVIOUS
  <2>2. e \in Seq(Nat) /\ e \in Seq(DOMAIN ts) /\ Len(e) = 0
    BY <2>1
  <2>3. [tys |-> ts, idxs |-> e] \in U
    BY <2>2 DEF MemoLists
  <2>4. Len(e) = Cardinality({}) /\ LaterSlots(n, ts, e)
    BY <2>1, <2>2, FS_EmptySet DEF LaterSlots
  <2> HIDE DEF U
  <2> QED
    BY <2>1, <2>3, <2>4
<1>3. ASSUME NEW s \in SUBSET (1 .. k), s # {}, NEW acc \in A[s \ {Max(s)}]
      PROVE  op(acc, Max(s)) \in A[s]
  <2>1. PICK i : i = Max(s)
    OBVIOUS
  <2>2. i \in 1 .. k /\ s \ {Max(s)} \in SUBSET (1 .. k)
    BY <1>1, <1>3, <2>1, MaxIs
  <2>3. /\ acc \in U /\ Len(acc.idxs) = Cardinality(s \ {Max(s)})
        /\ LaterSlots(n, acc.tys, acc.idxs)
    BY <2>2
  <2>4. PICK at : at = acc.tys
    OBVIOUS
  <2>5. at \in Tables(n, open, slots) /\ acc.idxs \in Seq(DOMAIN at)
    BY <2>3, <2>4 DEF MemoLists
  <2>6. /\ Len(at) \in Nat /\ n <= Len(at) /\ DOMAIN at = 1 .. Len(at)
    BY <2>5, TableFacts
  <2>7. PICK real \in Nat : real = Len(at) + 1
    BY <2>6
  <2>8. PICK pushed : pushed = Push(at)
    OBVIOUS
  <2>9. /\ pushed \in Tables(real, open \cup {real}, Slots(at)) /\ slots \subseteq Slots(at)
        /\ Slots(at) \in SUBSET DOMAIN at
    <3>1. at \in Tables(n, open, Slots(at))
      BY <2>5, TableFacts
    <3> QED
      BY <2>5, <2>7, <2>8, <3>1, PushTyped, TableFacts
  <2>10. PICK d : d = decl.blocks[i].decl
    OBVIOUS
  <2>11. d \in PlainDecls
    BY <1>1, <2>2, <2>10
  <2>12. real \in 1 .. real /\ n <= real
    BY <2>6, <2>7
  <2>13. PICK scope : scope = Bind(decl.name, real, env)
    OBVIOUS
  <2>14. ASSUME NEW j \in DOMAIN d.fields PROVE Resolves(real, scope, d.fields[j])
    <3>1. Resolves(n, env, d.fields[j])
      BY <1>1, <2>2, <2>10
    <3> QED
      BY <2>12, <2>13, <3>1, ResolvesMore
  <2>15. PICK new : new = CompletePlain(pushed, scope, real, d)
    OBVIOUS
  <2>16. new \in Tables(real, (open \cup {real}) \ {real}, Slots(at) \cup {real})
    BY <2>9, <2>11, <2>12, <2>14, <2>15, CompletePlainTyped
  <2>17. real \notin open
    <3>1. open = Unfilled(at)
      BY <2>5 DEF Tables
    <3> QED
      BY <2>6, <2>7, <3>1 DEF Unfilled
  <2>18. (open \cup {real}) \ {real} = open
    BY <2>17
  <2>19. /\ new \in Tables(real, open, slots)
         /\ Slots(at) \subseteq Slots(new) /\ real \in Slots(new)
    <3>1. new \in Tables(real, open, Slots(at) \cup {real})
      BY <2>16, <2>18
    <3>2. Slots(at) \cup {real} \subseteq Slots(new)
      BY <3>1, TableFacts
    <3> QED
      BY <2>9, <3>1, <3>2, TableFacts
  <2>20. Len(new) \in Nat /\ real <= Len(new) /\ DOMAIN new = 1 .. Len(new)
    BY <2>19, TableFacts
  <2>21. n <= Len(new) /\ Len(at) <= Len(new) /\ real \in DOMAIN new
    BY <2>6, <2>7, <2>12, <2>20
  <2>22. new \in Tables(n, open, slots)
    BY <2>19, <2>21, TableFacts
  <2>23. acc.idxs \in Seq(DOMAIN new)
    BY <2>5, <2>6, <2>20, <2>21, SeqWider
  <2>24. PICK idxs : idxs = Append(acc.idxs, real)
    OBVIOUS
  <2>25. idxs \in Seq(DOMAIN new) /\ Len(idxs) = Len(acc.idxs) + 1
    BY <2>21, <2>23, <2>24
  <2>26. LaterSlots(n, new, idxs)
    <3>1. PICK was : was = acc.idxs
      OBVIOUS
    <3>2. \A j \in DOMAIN was : n < was[j] /\ was[j] \in Slots(at)
      BY <2>3, <2>4, <3>1 DEF LaterSlots
    <3>3. /\ Len(was) \in Nat /\ DOMAIN was = 1 .. Len(was)
          /\ DOMAIN idxs = 1 .. Len(was) + 1 /\ idxs[Len(was) + 1] = real
          /\ \A j \in 1 .. Len(was) : idxs[j] = was[j]
      BY <2>21, <2>23, <2>24, <3>1
    <3>4. n < real
      BY <2>6, <2>7
    <3>5. ASSUME NEW j \in DOMAIN idxs PROVE n < idxs[j] /\ idxs[j] \in Slots(new)
      <4>1. j \in 1 .. Len(was) \/ j = Len(was) + 1
        BY <3>3
      <4> QED
        BY <2>19, <3>2, <3>3, <3>4, <4>1
    <3> QED
      BY <3>5 DEF LaterSlots
  <2>27. idxs \in Seq(Nat)
    BY <2>20, <2>25
  <2>28. Len(idxs) = Cardinality(s)
    BY <1>1, <1>3, <2>3, <2>25, LessOne
  <2>29. op(acc, Max(s)) = [tys |-> new, idxs |-> idxs]
    BY <2>1, <2>4, <2>7, <2>8, <2>10, <2>13, <2>15, <2>24
  <2>30. [tys |-> new, idxs |-> idxs] \in U
    BY <2>22, <2>25, <2>27 DEF MemoLists
  <2> HIDE DEF op, U
  <2> QED
    BY <2>26, <2>28, <2>29, <2>30
<1> HIDE DEF base, op, U
<1>4. \A s \in SUBSET (1 .. k) : A[s] \subseteq U
  OBVIOUS
<1>5. Steps(k, A, G)
  <2> SUFFICES ASSUME NEW s \in SUBSET (1 .. k), s # {}, NEW a \in A[s \ {Max(s)}]
               PROVE  G[Max(s)][a] \in A[s]
    BY DEF Steps
  <2>1. Max(s) \in 1 .. k /\ s \ {Max(s)} \in SUBSET (1 .. k)
    BY <1>1, MaxIs
  <2>2. a \in U
    BY <1>4, <2>1
  <2>3. op(a, Max(s)) \in A[s]
    BY <1>3
  <2> HIDE DEF A, U
  <2> QED
    BY <2>1, <2>2, <2>3
<1>6. PICK f : IsFold(f, k, base, G) /\ \A s \in SUBSET (1 .. k) : f[s] \in A[s]
  <2> HIDE DEF A, G, k
  <2> QED
    BY <1>1, <1>2, <1>5, FoldExists
<1>7. Is(f)
  <2>1. ASSUME NEW s \in SUBSET (1 .. k), s # {}
        PROVE  G[Max(s)][f[s \ {Max(s)}]] = op(f[s \ {Max(s)}], Max(s))
    <3>1. Max(s) \in 1 .. k /\ s \ {Max(s)} \in SUBSET (1 .. k)
      BY <1>1, <2>1, MaxIs
    <3>2. f[s \ {Max(s)}] \in A[s \ {Max(s)}]
      BY <1>6, <3>1
    <3>3. f[s \ {Max(s)}] \in U
      BY <1>4, <3>1, <3>2
    <3> HIDE DEF U
    <3> QED
      BY <3>1, <3>3
  <2>2. [s \in SUBSET (1 .. k) |-> IF s = {} THEN base ELSE G[Max(s)][f[s \ {Max(s)}]]]
        = [s \in SUBSET (1 .. k) |-> IF s = {} THEN base ELSE op(f[s \ {Max(s)}], Max(s))]
    BY <2>1
  <2> QED
    BY <1>6, <2>2 DEF IsFold
<1>8. Is(h)
  <2> HIDE DEF Is
  <2> QED BY <1>7
<1> HIDE DEF h
<1>9. \A s \in SUBSET (1 .. k) : h[s] \in A[s]
  <2>1. h[{}] \in A[{}]
    <3>1. h[{}] = base
      BY <1>8
    <3> QED
      BY <1>2, <3>1
  <2>2. ASSUME NEW s \in SUBSET (1 .. k), s # {}, h[s \ {Max(s)}] \in A[s \ {Max(s)}]
        PROVE  h[s] \in A[s]
    <3>1. h[s] = op(h[s \ {Max(s)}], Max(s))
      BY <1>8, <2>2
    <3> QED
      BY <1>3, <2>2, <3>1
  <2> HIDE DEF A
  <2> QED
    BY <1>1, <2>1, <2>2, FoldStays
<1>10. PICK all : all = h[1 .. k]
  OBVIOUS
<1>11. /\ all \in MemoLists(n, open, slots) /\ Len(all.idxs) = k
       /\ LaterSlots(n, all.tys, all.idxs)
  <2>1. all \in A[1 .. k]
    BY <1>9, <1>10
  <2>2. /\ all \in U /\ Len(all.idxs) = Cardinality(1 .. k)
        /\ LaterSlots(n, all.tys, all.idxs)
    BY <2>1
  <2>3. Cardinality(1 .. k) = k
    BY <1>1, FS_Interval
  <2> QED
    BY <2>2, <2>3 DEF U
<1>12. PICK first : first = SelectInSeq(decl.blocks, LAMBDA block : block.applies)
  OBVIOUS
<1>13. first \in 0 .. k
  <2>1. PICK I : I = {i \in 1 .. k : decl.blocks[i].applies}
    OBVIOUS
  <2>2. first = IF I # {} THEN Min(I) ELSE 0
    BY <1>12, <2>1 DEF SelectInSeq
  <2>3. CASE I = {}
    BY <1>1, <2>2, <2>3
  <2>4. CASE I # {}
    <3> I \subseteq Nat
      BY <1>1, <2>1
    <3>1. PICK m \in I : \A j \in I : m <= j
      BY <2>4, LeastExists
    <3>2. Min(I) \in I
      BY <3>1 DEF Min
    <3> QED
      BY <1>1, <2>1, <2>2, <2>4, <3>2
  <2> QED
    BY <2>3, <2>4
<1>14. PICK new : new = all.tys
  OBVIOUS
<1>15. new \in Tables(n, open, slots) /\ all.idxs \in Seq(DOMAIN new) /\ all.idxs \in Seq(Nat)
  BY <1>11, <1>14 DEF MemoLists
<1>16. DOMAIN new = 1 .. Len(new) /\ Len(new) \in Nat /\ n <= Len(new)
  BY <1>15, TableFacts
<1>17. PICK real : real = IF first = 0 THEN 0 ELSE all.idxs[first]
  OBVIOUS
<1>18. real \in DOMAIN new \cup {0} /\ real \in Nat
  BY <1>1, <1>11, <1>13, <1>15, <1>16, <1>17
<1>19. PICK ty : ty = [kind |-> "pun", parts |-> all.idxs, real |-> real]
  OBVIOUS
<1>20. /\ ty \in AnyTy /\ ty.parts = all.idxs /\ ty.real = real /\ ty.kind = "pun"
       /\ ty.kind \in Nominals
  BY <1>15, <1>18, <1>19 DEF AnyTy, Kinds, Nominals
<1>21. idx \in DOMAIN new
  BY <1>16
<1>22. [new EXCEPT ![idx] = ty] \in Tables(n, open \ {idx}, slots)
  <2>1. PICK idxs : idxs = all.idxs
    OBVIOUS
  <2>2. ASSUME real # 0 PROVE real \in Slots(new) /\ idx < real /\ real \in ToSet(idxs)
    <3>1. first \in DOMAIN idxs /\ real = idxs[first]
      BY <1>1, <1>11, <1>13, <1>15, <1>17, <2>1, <2>2
    <3>2. n < real /\ real \in Slots(new)
      BY <1>11, <1>14, <2>1, <3>1 DEF LaterSlots
    <3> QED
      BY <1>18, <3>1, <3>2 DEF ToSet
  <2>3. Fits(new, idx, ty)
    BY <1>15, <1>18, <1>20, <2>1, <2>2 DEF Fits
  <2>4. [new EXCEPT ![idx] = ty] \in Tables(n, open \ {idx}, slots \cup {idx})
    BY <1>15, <1>20, <1>21, <2>3, FillTy
  <2> QED
    BY <2>4 DEF Tables
<1>23. PICK walked : walked = FoldLeft(LAMBDA acc, block :
                        LET re == Len(acc.tys) + 1
                        IN  [tys |-> CompletePlain(Push(acc.tys), Bind(decl.name, re, env),
                                                   re, block.decl),
                             idxs |-> Append(acc.idxs, re)],
                      [tys |-> ts, idxs |-> <<>>], decl.blocks)
  OBVIOUS
<1>24. walked = h[1 .. k]
  BY <1>1, <1>23 DEF FoldLeft, MapThenFoldSet, h, Is, base, op
<1>25. CompletePun(ts, env, idx, decl)
       = [walked.tys EXCEPT ![idx] = [kind |-> "pun", parts |-> walked.idxs,
                                      real |-> IF first = 0 THEN 0 ELSE walked.idxs[first]]]
  BY <1>12, <1>23 DEF CompletePun
<1>26. CompletePun(ts, env, idx, decl) = [new EXCEPT ![idx] = ty]
  BY <1>10, <1>14, <1>17, <1>19, <1>24, <1>25
<1> QED
  BY <1>22, <1>26

LEMMA CompleteNominalTyped ==
  ASSUME NEW n \in Nat, NEW open, NEW slots, NEW ts \in Tables(n, open, slots), NEW env, NEW idx \in 1 .. n,
         NEW decl \in PlainDecls \cup PunDecls,
         \A w \in Written(decl) : Resolves(n, env, w)
  PROVE  CompleteNominal(ts, env, idx, decl) \in Tables(n, open \ {idx}, slots)
<1>1. CASE decl.kind = "pun"
  <2>1. decl \in PunDecls
    BY <1>1 DEF PlainDecls
  <2>2. ASSUME NEW b \in DOMAIN decl.blocks, NEW i \in DOMAIN decl.blocks[b].decl.fields
        PROVE  Resolves(n, env, decl.blocks[b].decl.fields[i])
    BY <1>1 DEF Written, ToSet
  <2> QED
    BY <1>1, <2>1, <2>2, CompletePunTyped DEF CompleteNominal
<1>2. CASE decl.kind # "pun"
  <2>1. decl \in PlainDecls
    BY <1>2 DEF PunDecls
  <2>2. ASSUME NEW i \in DOMAIN decl.fields PROVE Resolves(n, env, decl.fields[i])
    BY <1>2 DEF Written, ToSet
  <2>3. CompleteNominal(ts, env, idx, decl) \in Tables(n, open \ {idx}, slots \cup {idx})
    BY <1>2, <2>1, <2>2, CompletePlainTyped DEF CompleteNominal
  <2> QED
    BY <2>3 DEF Tables
<1> QED
  BY <1>1, <1>2

LEMMA PushedTyped ==
  ASSUME NEW D, NEW decls \in Seq(D)
  PROVE  PushAll(decls) \in Tables(Len(decls) + 1, {m + 1 : m \in DOMAIN decls}, {})
<1> DEFINE U == Seq(AnyTy)
           k == Len(decls)
           base == Builtins
           op(acc, i) == Push(acc)
           A == [s \in SUBSET (1 .. k) |->
                   {ts \in Tables(Cardinality(s) + 1, 2 .. Cardinality(s) + 1, {}) :
                      Len(ts) = Cardinality(s) + 1}]
           G == [i \in 1 .. k |-> [acc \in U |-> op(acc, i)]]
           Is(f) == f = [s \in SUBSET (1 .. k) |->
                           IF s = {} THEN base ELSE op(f[s \ {Max(s)}], Max(s))]
           h == CHOOSE f : Is(f)
<1>1. k \in Nat /\ DOMAIN decls = 1 .. k
  OBVIOUS
<1>2. base \in A[{}]
  <2>1. PICK e : e = <<>>
    OBVIOUS
  <2>2. e \in Seq(Nat) /\ e \in Seq(1 .. 1)
    BY <2>1
  <2>3. PICK ty : ty = [kind |-> "prim", parts |-> e, real |-> 0]
    OBVIOUS
  <2>4. ty \in AnyTy /\ ty.parts = e /\ ty.real = 0 /\ ty.kind = "prim"
    BY <2>2, <2>3 DEF AnyTy, Kinds
  <2>5. PICK ts : ts = <<ty>>
    OBVIOUS
  <2>6. ts \in Seq(AnyTy) /\ Len(ts) = 1 /\ DOMAIN ts = 1 .. 1 /\ ts[1] = ty
    BY <2>4, <2>5
  <2>7. Closed(ts) /\ Unfilled(ts) = {}
    BY <2>2, <2>4, <2>6 DEF Closed, Fits, Unfilled
  <2>8. ts \in Tables(0 + 1, 2 .. 0 + 1, {})
    <3>1. 2 .. 0 + 1 = {} /\ 0 + 1 = 1
      OBVIOUS
    <3>2. Len(ts) >= 1
      BY <2>6
    <3> QED
      BY <2>6, <2>7, <3>1, <3>2 DEF Tables
  <2>9. base = ts
    BY <2>1, <2>3, <2>5 DEF Builtins, Ty
  <2>10. Cardinality({}) = 0
    BY FS_EmptySet
  <2> QED
    BY <2>6, <2>8, <2>9, <2>10
<1>3. ASSUME NEW s \in SUBSET (1 .. k), s # {}, NEW acc \in A[s \ {Max(s)}]
      PROVE  op(acc, Max(s)) \in A[s]
  <2>1. s \ {Max(s)} \in SUBSET (1 .. k)
    BY <1>1, <1>3, MaxIs
  <2>2. PICK c : c = Cardinality(s \ {Max(s)})
    OBVIOUS
  <2>3. c \in Nat /\ Cardinality(s) = c + 1
    BY <1>1, <1>3, <2>2, LessOne
  <2>4. acc \in Tables(c + 1, 2 .. c + 1, {}) /\ Len(acc) = c + 1
    BY <2>1, <2>2
  <2>5. /\ Push(acc) \in Tables(Len(acc) + 1, (2 .. c + 1) \cup {Len(acc) + 1}, {})
        /\ Len(Push(acc)) = Len(acc) + 1
    <3>1. c + 1 \in Nat
      BY <2>3
    <3> QED
      BY <2>4, <3>1, PushTyped
  <2>6. (2 .. c + 1) \cup {c + 1 + 1} = 2 .. c + 1 + 1
    BY <2>3
  <2>7. Push(acc) \in Tables(c + 1 + 1, 2 .. c + 1 + 1, {}) /\ Len(Push(acc)) = c + 1 + 1
    BY <2>4, <2>5, <2>6
  <2> QED
    BY <2>3, <2>7
<1> HIDE DEF base, op
<1>4. \A s \in SUBSET (1 .. k) : A[s] \subseteq U
  BY DEF Tables
<1>5. Steps(k, A, G)
  <2> SUFFICES ASSUME NEW s \in SUBSET (1 .. k), s # {}, NEW a \in A[s \ {Max(s)}]
               PROVE  G[Max(s)][a] \in A[s]
    BY DEF Steps
  <2>1. Max(s) \in 1 .. k /\ s \ {Max(s)} \in SUBSET (1 .. k)
    BY <1>1, MaxIs
  <2>2. a \in U
    BY <1>4, <2>1
  <2>3. op(a, Max(s)) \in A[s]
    BY <1>3
  <2> HIDE DEF A, U
  <2> QED
    BY <2>1, <2>2, <2>3
<1>6. PICK f : IsFold(f, k, base, G) /\ \A s \in SUBSET (1 .. k) : f[s] \in A[s]
  <2> HIDE DEF A, G, k
  <2> QED
    BY <1>1, <1>2, <1>5, FoldExists
<1>7. Is(f)
  <2>1. ASSUME NEW s \in SUBSET (1 .. k), s # {}
        PROVE  G[Max(s)][f[s \ {Max(s)}]] = op(f[s \ {Max(s)}], Max(s))
    <3>1. Max(s) \in 1 .. k /\ s \ {Max(s)} \in SUBSET (1 .. k)
      BY <1>1, <2>1, MaxIs
    <3>2. f[s \ {Max(s)}] \in A[s \ {Max(s)}]
      BY <1>6, <3>1
    <3>3. f[s \ {Max(s)}] \in U
      BY <1>4, <3>1, <3>2
    <3> HIDE DEF U
    <3> QED
      BY <3>1, <3>3
  <2>2. [s \in SUBSET (1 .. k) |-> IF s = {} THEN base ELSE G[Max(s)][f[s \ {Max(s)}]]]
        = [s \in SUBSET (1 .. k) |-> IF s = {} THEN base ELSE op(f[s \ {Max(s)}], Max(s))]
    BY <2>1
  <2> QED
    BY <1>6, <2>2 DEF IsFold
<1>8. Is(h)
  <2> HIDE DEF Is
  <2> QED BY <1>7
<1> HIDE DEF h
<1>9. \A s \in SUBSET (1 .. k) : h[s] \in A[s]
  <2>1. h[{}] \in A[{}]
    <3>1. h[{}] = base
      BY <1>8
    <3> QED
      BY <1>2, <3>1
  <2>2. ASSUME NEW s \in SUBSET (1 .. k), s # {}, h[s \ {Max(s)}] \in A[s \ {Max(s)}]
        PROVE  h[s] \in A[s]
    <3>1. h[s] = op(h[s \ {Max(s)}], Max(s))
      BY <1>8, <2>2
    <3> QED
      BY <1>3, <2>2, <3>1
  <2> HIDE DEF A
  <2> QED
    BY <1>1, <2>1, <2>2, FoldStays
<1>10. PushAll(decls) = h[1 .. k]
  BY <1>1 DEF PushAll, FoldLeft, MapThenFoldSet, h, Is, base, op
<1>11. Cardinality(1 .. k) = k
  BY <1>1, FS_Interval
<1>12. h[1 .. k] \in Tables(k + 1, 2 .. k + 1, {})
  BY <1>9, <1>11
<1>13. 2 .. k + 1 = {m + 1 : m \in DOMAIN decls}
  <2>1. \A x \in 2 .. k + 1 : x - 1 \in 1 .. k /\ x = (x - 1) + 1
    BY <1>1
  <2>2. \A m \in 1 .. k : m + 1 \in 2 .. k + 1
    BY <1>1
  <2> QED
    BY <1>1, <2>1, <2>2
<1> QED
  BY <1>10, <1>12, <1>13

LEMMA CompletedTyped ==
  ASSUME NEW decls \in Seq(PlainDecls \cup PunDecls), NEW env, NEW ts,
         ts \in Tables(Len(decls) + 1, {m + 1 : m \in DOMAIN decls}, {}),
         \A m \in DOMAIN decls : \A w \in Written(decls[m]) : Resolves(Len(decls) + 1, env, w)
  PROVE  CompleteAll(ts, env, decls) \in Tables(Len(decls) + 1, {}, {})
<1> DEFINE U == Seq(AnyTy)
           k == Len(decls)
           base == ts
           id == [i \in DOMAIN decls |-> i]
           op(acc, i) == CompleteNominal(acc, env, IndexOf(id[i]), decls[id[i]])
           A == [s \in SUBSET (1 .. k) |-> Tables(k + 1, {m + 1 : m \in (1 .. k) \ s}, {})]
           G == [i \in 1 .. k |-> [acc \in U |-> op(acc, i)]]
           Is(f) == f = [s \in SUBSET (1 .. k) |->
                           IF s = {} THEN base ELSE op(f[s \ {Max(s)}], Max(s))]
           h == CHOOSE f : Is(f)
<1>1. k \in Nat /\ DOMAIN decls = 1 .. k
  OBVIOUS
<1>2. base \in A[{}]
  <2>1. (1 .. k) \ {} = 1 .. k
    OBVIOUS
  <2> QED
    BY <1>1, <2>1
<1>3. ASSUME NEW s \in SUBSET (1 .. k), s # {}, NEW acc \in A[s \ {Max(s)}]
      PROVE  op(acc, Max(s)) \in A[s]
  <2>1. PICK i : i = Max(s)
    OBVIOUS
  <2>2. i \in s /\ i \in 1 .. k /\ s \ {i} \in SUBSET (1 .. k)
    BY <1>1, <1>3, <2>1, MaxIs
  <2>3. PICK open : open = {m + 1 : m \in (1 .. k) \ (s \ {i})}
    OBVIOUS
  <2>4. acc \in Tables(k + 1, open, {})
    BY <2>1, <2>2, <2>3
  <2>5. IndexOf(i) = i + 1
    <3>1. Len(Builtins) = 1
      BY DEF Builtins
    <3> QED
      BY <2>2, <3>1 DEF IndexOf
  <2>6. i + 1 \in 1 .. k + 1 /\ k + 1 \in Nat
    BY <1>1, <2>2
  <2>7. decls[i] \in PlainDecls \cup PunDecls
    <3>1. PICK D : D = PlainDecls \cup PunDecls
      OBVIOUS
    <3> QED
      BY <2>2, <3>1
  <2>8. \A w \in Written(decls[i]) : Resolves(k + 1, env, w)
    BY <1>1, <2>2
  <2>9. CompleteNominal(acc, env, i + 1, decls[i]) \in Tables(k + 1, open \ {i + 1}, {})
    BY <2>4, <2>6, <2>7, <2>8, CompleteNominalTyped
  <2>10. op(acc, Max(s)) = CompleteNominal(acc, env, i + 1, decls[i])
    BY <1>1, <2>1, <2>2, <2>5
  <2>11. open \ {i + 1} = {m + 1 : m \in (1 .. k) \ s}
    BY <1>1, <2>2, <2>3
  <2> HIDE DEF op
  <2> QED
    BY <2>9, <2>10, <2>11
<1> HIDE DEF base, op
<1>4. \A s \in SUBSET (1 .. k) : A[s] \subseteq U
  BY DEF Tables
<1>5. Steps(k, A, G)
  <2> SUFFICES ASSUME NEW s \in SUBSET (1 .. k), s # {}, NEW a \in A[s \ {Max(s)}]
               PROVE  G[Max(s)][a] \in A[s]
    BY DEF Steps
  <2>1. Max(s) \in 1 .. k /\ s \ {Max(s)} \in SUBSET (1 .. k)
    BY <1>1, MaxIs
  <2>2. a \in U
    BY <1>4, <2>1
  <2>3. op(a, Max(s)) \in A[s]
    BY <1>3
  <2> HIDE DEF A, U
  <2> QED
    BY <2>1, <2>2, <2>3
<1>6. PICK f : IsFold(f, k, base, G) /\ \A s \in SUBSET (1 .. k) : f[s] \in A[s]
  <2> HIDE DEF A, G, k
  <2> QED
    BY <1>1, <1>2, <1>5, FoldExists
<1>7. Is(f)
  <2>1. ASSUME NEW s \in SUBSET (1 .. k), s # {}
        PROVE  G[Max(s)][f[s \ {Max(s)}]] = op(f[s \ {Max(s)}], Max(s))
    <3>1. Max(s) \in 1 .. k /\ s \ {Max(s)} \in SUBSET (1 .. k)
      BY <1>1, <2>1, MaxIs
    <3>2. f[s \ {Max(s)}] \in A[s \ {Max(s)}]
      BY <1>6, <3>1
    <3>3. f[s \ {Max(s)}] \in U
      BY <1>4, <3>1, <3>2
    <3> HIDE DEF U
    <3> QED
      BY <3>1, <3>3
  <2>2. [s \in SUBSET (1 .. k) |-> IF s = {} THEN base ELSE G[Max(s)][f[s \ {Max(s)}]]]
        = [s \in SUBSET (1 .. k) |-> IF s = {} THEN base ELSE op(f[s \ {Max(s)}], Max(s))]
    BY <2>1
  <2> QED
    BY <1>6, <2>2 DEF IsFold
<1>8. Is(h)
  <2> HIDE DEF Is
  <2> QED BY <1>7
<1> HIDE DEF h
<1>9. \A s \in SUBSET (1 .. k) : h[s] \in A[s]
  <2>1. h[{}] \in A[{}]
    <3>1. h[{}] = base
      BY <1>8
    <3> QED
      BY <1>2, <3>1
  <2>2. ASSUME NEW s \in SUBSET (1 .. k), s # {}, h[s \ {Max(s)}] \in A[s \ {Max(s)}]
        PROVE  h[s] \in A[s]
    <3>1. h[s] = op(h[s \ {Max(s)}], Max(s))
      BY <1>8, <2>2
    <3> QED
      BY <1>3, <2>2, <3>1
  <2> HIDE DEF A
  <2> QED
    BY <1>1, <2>1, <2>2, FoldStays
<1>10. CompleteAll(ts, env, decls) = h[1 .. k]
  <2>1. DOMAIN id = 1 .. k
    BY <1>1
  <2> HIDE DEF id
  <2>2. FoldLeft(LAMBDA acc, m : CompleteNominal(acc, env, IndexOf(m), decls[m]), ts, id)
        = h[1 .. k]
    BY <2>1 DEF FoldLeft, MapThenFoldSet, h, Is, base, op
  <2> QED
    BY <2>2 DEF CompleteAll, FoldLeftDomain, id
<1>11. {m + 1 : m \in (1 .. k) \ (1 .. k)} = {}
  OBVIOUS
<1> QED
  BY <1>9, <1>10, <1>11

ArgLists(n, count) ==
  {r \in [tys : Tables(n, {}, {}), args : Seq(Seq(Nat))] :
     Len(r.args) = count /\ \A f \in DOMAIN r.args : r.args[f] \in Seq(DOMAIN r.tys)}

LEMMA ArgsTyped ==
  ASSUME NEW n \in Nat, NEW ts \in Tables(n, {}, {}), NEW env,
         NEW funcs \in Seq(Seq(WrittenTypes)),
         \A f \in DOMAIN funcs : \A w \in ToSet(funcs[f]) : Resolves(n, env, w)
  PROVE  MemoizeFuncs(ts, env, funcs) \in ArgLists(n, Len(funcs))
<1> DEFINE U == [tys : Tables(n, {}, {}), args : Seq(Seq(Nat))]
           k == Len(funcs)
           base == [tys |-> ts, args |-> <<>>]
           op(acc, i) == LET one == MemoizeAll(acc.tys, env, funcs[i])
                         IN  [tys |-> one.tys, args |-> Append(acc.args, one.idxs)]
           A == [s \in SUBSET (1 .. k) |-> ArgLists(n, Cardinality(s))]
           G == [i \in 1 .. k |-> [acc \in U |-> op(acc, i)]]
           Is(f) == f = [s \in SUBSET (1 .. k) |->
                           IF s = {} THEN base ELSE op(f[s \ {Max(s)}], Max(s))]
           h == CHOOSE f : Is(f)
<1>1. k \in Nat /\ DOMAIN funcs = 1 .. k
  OBVIOUS
<1>2. base \in A[{}]
  <2>1. PICK e : e = <<>>
    OBVIOUS
  <2>2. e \in Seq(Seq(Nat)) /\ Len(e) = 0 /\ DOMAIN e = {}
    BY <2>1
  <2>3. [tys |-> ts, args |-> e] \in ArgLists(n, 0)
    BY <2>2 DEF ArgLists
  <2>4. Cardinality({}) = 0
    BY FS_EmptySet
  <2> QED
    BY <2>1, <2>3, <2>4
<1>3. ASSUME NEW s \in SUBSET (1 .. k), s # {}, NEW acc \in A[s \ {Max(s)}]
      PROVE  op(acc, Max(s)) \in A[s]
  <2>1. PICK i : i = Max(s)
    OBVIOUS
  <2>2. i \in 1 .. k /\ s \ {Max(s)} \in SUBSET (1 .. k)
    BY <1>1, <1>3, <2>1, MaxIs
  <2>3. acc \in ArgLists(n, Cardinality(s \ {Max(s)}))
    BY <2>2
  <2>4. PICK at : at = acc.tys
    OBVIOUS
  <2>5. PICK was : was = acc.args
    OBVIOUS
  <2>6. /\ at \in Tables(n, {}, {}) /\ was \in Seq(Seq(Nat))
        /\ Len(was) = Cardinality(s \ {Max(s)})
        /\ \A f \in DOMAIN was : was[f] \in Seq(DOMAIN at)
    BY <2>3, <2>4, <2>5 DEF ArgLists
  <2>7. Len(at) \in Nat /\ n <= Len(at) /\ DOMAIN at = 1 .. Len(at) /\ at \in Tables(Len(at), {}, {})
    BY <2>6, TableFacts
  <2>8. PICK list : list = funcs[i]
    OBVIOUS
  <2>9. list \in Seq(WrittenTypes)
    <3>1. PICK S : S = Seq(WrittenTypes)
      OBVIOUS
    <3> QED
      BY <2>2, <2>8, <3>1
  <2>10. ASSUME NEW j \in DOMAIN list PROVE Resolves(Len(at), env, list[j])
    <3>1. Resolves(n, env, list[j])
      BY <1>1, <2>2, <2>8 DEF ToSet
    <3> QED
      BY <2>7, <3>1 DEF Resolves
  <2>11. PICK one : one = MemoizeAll(at, env, list)
    OBVIOUS
  <2>12. one \in MemoLists(Len(at), {}, {})
    BY <2>7, <2>9, <2>10, <2>11, MemoizeAllTyped
  <2>13. PICK new : new = one.tys
    OBVIOUS
  <2>14. /\ new \in Tables(Len(at), {}, {}) /\ one.idxs \in Seq(Nat)
         /\ one.idxs \in Seq(DOMAIN new)
    BY <2>12, <2>13 DEF MemoLists
  <2>15. Len(new) \in Nat /\ Len(at) <= Len(new) /\ DOMAIN new = 1 .. Len(new)
    BY <2>7, <2>14, TableFacts
  <2>16. n <= Len(new)
    BY <2>7, <2>15
  <2>17. new \in Tables(n, {}, {})
    BY <2>7, <2>14, <2>16, TableFacts
  <2>18. PICK args2 : args2 = Append(was, one.idxs)
    OBVIOUS
  <2>19. PICK S : S = Seq(Nat)
    OBVIOUS
  <2>20. was \in Seq(S) /\ one.idxs \in S
    BY <2>6, <2>14, <2>19
  <2>21. /\ args2 \in Seq(S) /\ Len(args2) = Len(was) + 1
         /\ DOMAIN args2 = DOMAIN was \cup {Len(was) + 1}
         /\ args2[Len(was) + 1] = one.idxs
         /\ \A f \in DOMAIN was : args2[f] = was[f]
    BY <2>18, <2>20
  <2>22. ASSUME NEW f \in DOMAIN was PROVE was[f] \in Seq(DOMAIN new)
    <3>1. was[f] \in Seq(1 .. Len(at))
      BY <2>6, <2>7
    <3> QED
      BY <2>7, <2>15, <3>1, SeqWider
  <2>23. \A f \in DOMAIN args2 : args2[f] \in Seq(DOMAIN new)
    BY <2>14, <2>21, <2>22
  <2>24. Len(args2) = Cardinality(s)
    BY <1>1, <1>3, <2>6, <2>21, LessOne
  <2>25. [tys |-> new, args |-> args2] \in ArgLists(n, Cardinality(s))
    <3>1. args2 \in Seq(Seq(Nat))
      BY <2>19, <2>21
    <3> QED
      BY <2>17, <2>23, <2>24, <3>1 DEF ArgLists
  <2>26. op(acc, Max(s)) = [tys |-> new, args |-> args2]
    BY <2>1, <2>4, <2>5, <2>8, <2>11, <2>13, <2>18
  <2> HIDE DEF op
  <2> QED
    BY <2>25, <2>26
<1> HIDE DEF base, op
<1>4. \A s \in SUBSET (1 .. k) : A[s] \subseteq U
  BY DEF ArgLists
<1> HIDE DEF U
<1>5. Steps(k, A, G)
  <2> SUFFICES ASSUME NEW s \in SUBSET (1 .. k), s # {}, NEW a \in A[s \ {Max(s)}]
               PROVE  G[Max(s)][a] \in A[s]
    BY DEF Steps
  <2>1. Max(s) \in 1 .. k /\ s \ {Max(s)} \in SUBSET (1 .. k)
    BY <1>1, MaxIs
  <2>2. a \in U
    BY <1>4, <2>1
  <2>3. op(a, Max(s)) \in A[s]
    BY <1>3
  <2> HIDE DEF A, U
  <2> QED
    BY <2>1, <2>2, <2>3
<1>6. PICK f : IsFold(f, k, base, G) /\ \A s \in SUBSET (1 .. k) : f[s] \in A[s]
  <2> HIDE DEF A, G, k
  <2> QED
    BY <1>1, <1>2, <1>5, FoldExists
<1>7. Is(f)
  <2>1. ASSUME NEW s \in SUBSET (1 .. k), s # {}
        PROVE  G[Max(s)][f[s \ {Max(s)}]] = op(f[s \ {Max(s)}], Max(s))
    <3>1. Max(s) \in 1 .. k /\ s \ {Max(s)} \in SUBSET (1 .. k)
      BY <1>1, <2>1, MaxIs
    <3>2. f[s \ {Max(s)}] \in A[s \ {Max(s)}]
      BY <1>6, <3>1
    <3>3. f[s \ {Max(s)}] \in U
      BY <1>4, <3>1, <3>2
    <3> HIDE DEF U
    <3> QED
      BY <3>1, <3>3
  <2>2. [s \in SUBSET (1 .. k) |-> IF s = {} THEN base ELSE G[Max(s)][f[s \ {Max(s)}]]]
        = [s \in SUBSET (1 .. k) |-> IF s = {} THEN base ELSE op(f[s \ {Max(s)}], Max(s))]
    BY <2>1
  <2> QED
    BY <1>6, <2>2 DEF IsFold
<1>8. Is(h)
  <2> HIDE DEF Is
  <2> QED BY <1>7
<1> HIDE DEF h
<1>9. \A s \in SUBSET (1 .. k) : h[s] \in A[s]
  <2>1. h[{}] \in A[{}]
    <3>1. h[{}] = base
      BY <1>8
    <3> QED
      BY <1>2, <3>1
  <2>2. ASSUME NEW s \in SUBSET (1 .. k), s # {}, h[s \ {Max(s)}] \in A[s \ {Max(s)}]
        PROVE  h[s] \in A[s]
    <3>1. h[s] = op(h[s \ {Max(s)}], Max(s))
      BY <1>8, <2>2
    <3> QED
      BY <1>3, <2>2, <3>1
  <2> HIDE DEF A
  <2> QED
    BY <1>1, <2>1, <2>2, FoldStays
<1>10. MemoizeFuncs(ts, env, funcs) = h[1 .. k]
  BY <1>1 DEF MemoizeFuncs, FoldLeft, MapThenFoldSet, h, Is, base, op
<1>11. Cardinality(1 .. k) = k
  <2> HIDE DEF k
  <2> QED
    BY <1>1, FS_Interval
<1> QED
  BY <1>9, <1>10, <1>11

-----------------------------------------------------------------------------
(* What can be reached *)

LEMMA ReachIsNear ==
  ASSUME NEW succ, NEW S
  PROVE  Reach(succ, S) = Near(Len(tys), succ, S)[Len(tys)]
BY DEF Reach, Near, Nears

LEMMA ReachLeast ==
  ASSUME Len(tys) \in Nat, NEW succ \in [1 .. Len(tys) -> SUBSET (1 .. Len(tys))],
         NEW S \in SUBSET (1 .. Len(tys))
  PROVE  /\ S \subseteq Reach(succ, S) /\ Reach(succ, S) \in SUBSET (1 .. Len(tys))
         /\ ClosedUnder(succ, Reach(succ, S))
         /\ \A C \in SUBSET (1 .. Len(tys)) : S \subseteq C /\ ClosedUnder(succ, C)
              => Reach(succ, S) \subseteq C
<1>1. PICK N \in Nat : N = Len(tys)
  OBVIOUS
<1>2. N \in 0 .. N
  OBVIOUS
<1> QED
  BY <1>1, <1>2, NearCloses, ReachIsNear

LEMMA OutsideTyped ==
  ASSUME NEW S, NEW list \in Seq(S), NEW K
  PROVE  /\ Outside(list, K) \in Seq(S)
         /\ ToSet(Outside(list, K)) = ToSet(list) \ K
         /\ Len(Outside(list, K)) <= Len(list)
<1> DEFINE U == Seq(S)
           k == Len(list)
           base == <<>>
           op(acc, i) == IF list[i] \in K THEN acc ELSE Append(acc, list[i])
           A == [s \in SUBSET (1 .. k) |->
                   {acc \in U : /\ ToSet(acc) = {list[i] : i \in s} \ K
                                /\ Len(acc) <= Cardinality(s)}]
           G == [i \in 1 .. k |-> [acc \in U |-> op(acc, i)]]
           Is(f) == f = [s \in SUBSET (1 .. k) |->
                           IF s = {} THEN base ELSE op(f[s \ {Max(s)}], Max(s))]
           h == CHOOSE f : Is(f)
<1>1. k \in Nat /\ DOMAIN list = 1 .. k
  OBVIOUS
<1>2. base \in A[{}]
  <2>1. Cardinality({}) = 0
    BY FS_EmptySet
  <2> QED
    BY <2>1 DEF ToSet
<1>3. ASSUME NEW s \in SUBSET (1 .. k), s # {}, NEW acc \in A[s \ {Max(s)}]
      PROVE  op(acc, Max(s)) \in A[s]
  <2>1. PICK i : i = Max(s)
    OBVIOUS
  <2>2. i \in s /\ i \in 1 .. k /\ s \ {i} \in SUBSET (1 .. k)
    BY <1>1, <1>3, <2>1, MaxIs
  <2>3. /\ acc \in Seq(S) /\ ToSet(acc) = {list[j] : j \in s \ {i}} \ K
        /\ Len(acc) <= Cardinality(s \ {i})
    BY <2>1, <2>2
  <2>4. Cardinality(s) = Cardinality(s \ {i}) + 1 /\ Cardinality(s \ {i}) \in Nat
    BY <1>1, <1>3, <2>1, LessOne
  <2>5. CASE list[i] \in K
    <3>1. {list[j] : j \in s} \ K = {list[j] : j \in s \ {i}} \ K
      BY <2>2, <2>5
    <3>2. Len(acc) <= Cardinality(s)
      BY <2>3, <2>4
    <3> QED
      BY <2>1, <2>3, <2>5, <3>1, <3>2
  <2>6. CASE list[i] \notin K
    <3>1. PICK new : new = Append(acc, list[i])
      OBVIOUS
    <3>2. /\ new \in Seq(S) /\ Len(new) = Len(acc) + 1 /\ DOMAIN new = DOMAIN acc \cup {Len(new)}
          /\ new[Len(new)] = list[i] /\ \A j \in DOMAIN acc : new[j] = acc[j]
      BY <1>1, <2>2, <2>3, <3>1
    <3>3. ToSet(new) = ToSet(acc) \cup {list[i]}
      BY <3>2 DEF ToSet
    <3>4. {list[j] : j \in s} \ K = ({list[j] : j \in s \ {i}} \ K) \cup {list[i]}
      BY <2>2, <2>6
    <3>5. ToSet(new) = {list[j] : j \in s} \ K
      BY <2>3, <3>3, <3>4
    <3>6. Len(new) <= Cardinality(s)
      BY <2>3, <2>4, <3>2
    <3>7. op(acc, Max(s)) = new
      BY <2>1, <2>6, <3>1
    <3> HIDE DEF op
    <3> QED
      BY <3>2, <3>5, <3>6, <3>7
  <2> QED
    BY <2>5, <2>6
<1> HIDE DEF base, op
<1>4. \A s \in SUBSET (1 .. k) : A[s] \subseteq U
  OBVIOUS
<1> HIDE DEF U
<1>5. Steps(k, A, G)
  <2> SUFFICES ASSUME NEW s \in SUBSET (1 .. k), s # {}, NEW a \in A[s \ {Max(s)}]
               PROVE  G[Max(s)][a] \in A[s]
    BY DEF Steps
  <2>1. Max(s) \in 1 .. k /\ s \ {Max(s)} \in SUBSET (1 .. k)
    BY <1>1, MaxIs
  <2>2. a \in U
    BY <1>4, <2>1
  <2>3. op(a, Max(s)) \in A[s]
    BY <1>3
  <2> HIDE DEF A, U
  <2> QED
    BY <2>1, <2>2, <2>3
<1>6. PICK f : IsFold(f, k, base, G) /\ \A s \in SUBSET (1 .. k) : f[s] \in A[s]
  <2> HIDE DEF A, G, k
  <2> QED
    BY <1>1, <1>2, <1>5, FoldExists
<1>7. Is(f)
  <2>1. ASSUME NEW s \in SUBSET (1 .. k), s # {}
        PROVE  G[Max(s)][f[s \ {Max(s)}]] = op(f[s \ {Max(s)}], Max(s))
    <3>1. Max(s) \in 1 .. k /\ s \ {Max(s)} \in SUBSET (1 .. k)
      BY <1>1, <2>1, MaxIs
    <3>2. f[s \ {Max(s)}] \in A[s \ {Max(s)}]
      BY <1>6, <3>1
    <3>3. f[s \ {Max(s)}] \in U
      BY <1>4, <3>1, <3>2
    <3> HIDE DEF U
    <3> QED
      BY <3>1, <3>3
  <2>2. [s \in SUBSET (1 .. k) |-> IF s = {} THEN base ELSE G[Max(s)][f[s \ {Max(s)}]]]
        = [s \in SUBSET (1 .. k) |-> IF s = {} THEN base ELSE op(f[s \ {Max(s)}], Max(s))]
    BY <2>1
  <2> QED
    BY <1>6, <2>2 DEF IsFold
<1>8. Is(h)
  <2> HIDE DEF Is
  <2> QED BY <1>7
<1> HIDE DEF h
<1>9. \A s \in SUBSET (1 .. k) : h[s] \in A[s]
  <2>1. h[{}] \in A[{}]
    <3>1. h[{}] = base
      BY <1>8
    <3> QED
      BY <1>2, <3>1
  <2>2. ASSUME NEW s \in SUBSET (1 .. k), s # {}, h[s \ {Max(s)}] \in A[s \ {Max(s)}]
        PROVE  h[s] \in A[s]
    <3>1. h[s] = op(h[s \ {Max(s)}], Max(s))
      BY <1>8, <2>2
    <3> QED
      BY <1>3, <2>2, <3>1
  <2> HIDE DEF A
  <2> QED
    BY <1>1, <2>1, <2>2, FoldStays
<1>10. Outside(list, K) = h[1 .. k]
  BY <1>1 DEF Outside, FoldLeft, MapThenFoldSet, h, Is, base, op
<1>11. Cardinality(1 .. k) = k
  BY <1>1, FS_Interval
<1>12. {list[i] : i \in 1 .. k} = ToSet(list)
  BY <1>1 DEF ToSet
<1> QED
  BY <1>9, <1>10, <1>11, <1>12 DEF U

-----------------------------------------------------------------------------
(* What a type holds by value *)

Held(ts) == [t \in DOMAIN ts |-> IF ts[t].kind \in Aggregates THEN ToSet(ts[t].parts) ELSE {}]
From(ts, S) == Near(Len(ts), Held(ts), S)[Len(ts)]

LEMMA HeldTyped ==
  ASSUME NEW ts \in Tables(0, {}, {})
  PROVE  /\ Held(ts) \in [1 .. Len(ts) -> SUBSET (1 .. Len(ts))]
         /\ Len(ts) \in Nat /\ DOMAIN ts = 1 .. Len(ts)
         /\ \A t \in DOMAIN ts : Held(ts)[t] \in SUBSET DOMAIN ts
<1>1. /\ Len(ts) \in Nat /\ DOMAIN ts = 1 .. Len(ts)
      /\ \A t \in DOMAIN ts : ts[t].parts \in Seq(DOMAIN ts)
  BY TableFacts
<1>2. ASSUME NEW t \in DOMAIN ts PROVE ToSet(ts[t].parts) \in SUBSET DOMAIN ts
  <2>1. PICK parts : parts = ts[t].parts
    OBVIOUS
  <2>2. parts \in Seq(DOMAIN ts)
    BY <1>1, <2>1
  <2>3. \A i \in DOMAIN parts : parts[i] \in DOMAIN ts
    BY <2>2
  <2> QED
    BY <2>1, <2>3 DEF ToSet
<1> QED
  BY <1>1, <1>2 DEF Held

LEMMA FromLeast ==
  ASSUME NEW ts \in Tables(0, {}, {}), NEW S \in SUBSET DOMAIN ts
  PROVE  /\ S \subseteq From(ts, S) /\ From(ts, S) \in SUBSET DOMAIN ts
         /\ ClosedUnder(Held(ts), From(ts, S))
         /\ \A C \in SUBSET DOMAIN ts : S \subseteq C /\ ClosedUnder(Held(ts), C)
              => From(ts, S) \subseteq C
<1>1. PICK N \in Nat : N = Len(ts)
  BY HeldTyped
<1>2. PICK H : H = Held(ts)
  OBVIOUS
<1>3. H \in [1 .. N -> SUBSET (1 .. N)] /\ DOMAIN ts = 1 .. N /\ S \in SUBSET (1 .. N)
  BY <1>1, <1>2, HeldTyped
<1>4. N \in 0 .. N
  OBVIOUS
<1>5. From(ts, S) = Near(N, H, S)[N]
  BY <1>1, <1>2 DEF From
<1> QED
  BY <1>2, <1>3, <1>4, <1>5, NearCloses

(* What is reached from a type is the type and what is reached from what   *)
(* it holds.                                                               *)
LEMMA FromOne ==
  ASSUME NEW ts \in Tables(0, {}, {}), NEW t \in DOMAIN ts
  PROVE  /\ t \in From(ts, {t})
         /\ \A c \in Held(ts)[t] : From(ts, {c}) \subseteq From(ts, {t})
         /\ \A u \in From(ts, {t}) : u = t \/ \E c \in Held(ts)[t] : u \in From(ts, {c})
<1>1. PICK H : H = Held(ts)
  OBVIOUS
<1>2. PICK D : D = DOMAIN ts
  OBVIOUS
<1>3. t \in D /\ \A x \in D : H[x] \in SUBSET D
  BY <1>1, <1>2, HeldTyped
<1>4. ASSUME NEW x \in D
      PROVE  /\ x \in From(ts, {x}) /\ From(ts, {x}) \in SUBSET D
             /\ ClosedUnder(H, From(ts, {x}))
             /\ \A C \in SUBSET D : x \in C /\ ClosedUnder(H, C) => From(ts, {x}) \subseteq C
  <2>1. {x} \in SUBSET DOMAIN ts
    BY <1>2
  <2> QED
    BY <1>1, <1>2, <2>1, FromLeast
<1>5. ASSUME NEW c \in H[t] PROVE From(ts, {c}) \subseteq From(ts, {t})
  <2>1. c \in From(ts, {t})
    BY <1>3, <1>4 DEF ClosedUnder
  <2> QED
    BY <1>3, <1>4, <2>1
<1>6. ASSUME NEW u \in From(ts, {t}) PROVE u = t \/ \E c \in H[t] : u \in From(ts, {c})
  <2> DEFINE C == {x \in D : x = t \/ \E c \in H[t] : x \in From(ts, {c})}
  <2>1. ASSUME NEW x \in C, NEW y \in H[x] PROVE y \in C
    <3>1. y \in D
      BY <1>3
    <3>2. CASE x = t
      BY <1>3, <1>4, <3>1, <3>2
    <3>3. CASE x # t
      <4>1. PICK c \in H[t] : x \in From(ts, {c})
        BY <3>3
      <4>2. y \in From(ts, {c})
        BY <1>3, <1>4, <4>1 DEF ClosedUnder
      <4> QED
        BY <3>1, <4>2
    <3> QED
      BY <3>2, <3>3
  <2>2. ClosedUnder(H, C)
    BY <2>1 DEF ClosedUnder
  <2>3. t \in C /\ C \in SUBSET D
    BY <1>3
  <2>4. From(ts, {t}) \subseteq C
    <3> HIDE DEF C
    <3> QED BY <1>3, <1>4, <2>2, <2>3
  <2> QED
    BY <2>4
<1> QED
  BY <1>1, <1>3, <1>4, <1>5, <1>6

(* The facts of the worklist, of the types kn and those of them, rf, that  *)
(* contain a reference.                                                    *)
NoneHoldsItself(ts, kn) == \A t \in kn : t \notin From(ts, Held(ts)[t])
RefsAre(ts, kn, rf) == rf = {t \in kn : \E u \in From(ts, {t}) : ts[u].kind = "ref"}
Exact(ts, kn, rf) ==
  ClosedUnder(Held(ts), kn) /\ NoneHoldsItself(ts, kn) /\ RefsAre(ts, kn, rf)

LEMMA KnowMore ==
  ASSUME NEW ts \in Tables(0, {}, {}), NEW kn \in SUBSET DOMAIN ts, NEW rf, Exact(ts, kn, rf),
         NEW t \in DOMAIN ts, Held(ts)[t] \subseteq kn
  PROVE  Exact(ts, kn \cup {t},
               IF ts[t].kind = "ref" \/ Held(ts)[t] \cap rf # {} THEN rf \cup {t} ELSE rf)
<1>1. PICK H : H = Held(ts)
  OBVIOUS
<1>2. ClosedUnder(H, kn) /\ NoneHoldsItself(ts, kn) /\ RefsAre(ts, kn, rf)
  BY <1>1 DEF Exact
<1>3. H[t] \subseteq kn /\ H[t] \in SUBSET DOMAIN ts
  BY <1>1
<1>4. ClosedUnder(H, kn \cup {t})
  BY <1>2, <1>3 DEF ClosedUnder
<1>5. NoneHoldsItself(ts, kn \cup {t})
  <2> SUFFICES ASSUME NEW x \in kn \cup {t} PROVE x \notin From(ts, H[x])
    BY <1>1 DEF NoneHoldsItself
  <2>1. CASE x \in kn
    BY <1>1, <1>2, <2>1 DEF NoneHoldsItself
  <2>2. CASE x = t /\ t \notin kn
    <3>1. From(ts, H[t]) \subseteq kn
      BY <1>1, <1>2, <1>3, FromLeast
    <3> QED
      BY <2>2, <3>1
  <2> QED
    BY <2>1, <2>2
<1>6. (\E u \in From(ts, {t}) : ts[u].kind = "ref") <=> (ts[t].kind = "ref" \/ H[t] \cap rf # {})
  <2>1. ASSUME ts[t].kind = "ref" PROVE \E u \in From(ts, {t}) : ts[u].kind = "ref"
    BY <2>1, FromOne
  <2>2. ASSUME NEW c \in H[t], c \in rf PROVE \E u \in From(ts, {t}) : ts[u].kind = "ref"
    <3>1. PICK u \in From(ts, {c}) : ts[u].kind = "ref"
      BY <1>2, <2>2 DEF RefsAre
    <3>2. u \in From(ts, {t})
      BY <1>1, <3>1, FromOne
    <3> QED
      BY <3>1, <3>2
  <2>3. ASSUME NEW u \in From(ts, {t}), ts[u].kind = "ref", ts[t].kind # "ref"
        PROVE  H[t] \cap rf # {}
    <3>1. PICK c \in H[t] : u \in From(ts, {c})
      BY <1>1, <2>3, FromOne
    <3>2. c \in rf
      BY <1>2, <1>3, <2>3, <3>1 DEF RefsAre
    <3> QED
      BY <3>2
  <2> QED
    BY <2>1, <2>2, <2>3
<1>7. PICK more : more = IF ts[t].kind = "ref" \/ H[t] \cap rf # {} THEN rf \cup {t} ELSE rf
  OBVIOUS
<1>8. RefsAre(ts, kn \cup {t}, more)
  BY <1>2, <1>6, <1>7 DEF RefsAre
<1> QED
  BY <1>1, <1>4, <1>5, <1>7, <1>8 DEF Exact

LEMMA PopFacts ==
  ASSUME NEW D, NEW tc \in Seq(D), tc # <<>>
  PROVE  /\ Len(tc) \in Nat \ {0} /\ Len(tc) \in DOMAIN tc
         /\ Last(tc) = tc[Len(tc)] /\ Last(tc) \in D
         /\ Front(tc) \in Seq(D) /\ DOMAIN Front(tc) = 1 .. Len(tc) - 1 /\ DOMAIN tc = 1 .. Len(tc)
         /\ \A i \in 1 .. Len(tc) - 1 : Front(tc)[i] = tc[i]
<1>1. Len(tc) \in Nat \ {0} /\ DOMAIN tc = 1 .. Len(tc)
  BY DEF Front
<1>2. Last(tc) = tc[Len(tc)] /\ Last(tc) \in D
  BY <1>1 DEF Last
<1>3. PICK front : front = SubSeq(tc, 1, Len(tc) - 1)
  OBVIOUS
<1>4. /\ front \in Seq(D) /\ DOMAIN front = 1 .. Len(tc) - 1
      /\ \A i \in 1 .. Len(tc) - 1 : front[i] = tc[i]
  BY <1>1, <1>3
<1> QED
  BY <1>1, <1>2, <1>3, <1>4 DEF Front

(* u waits on the worklist, and above it waits all that it misses, and     *)
(* nothing but what it holds.                                              *)
StackedAt(ts, tc, kn, u) ==
  \E i \in DOMAIN tc :
    /\ tc[i] = u
    /\ \A c \in Held(ts)[u] : c \in kn \/ \E j \in DOMAIN tc : i < j /\ tc[j] = c
    /\ \A j \in DOMAIN tc : i < j => tc[j] \in From(ts, Held(ts)[u])

LEMMA StackedPop ==
  ASSUME NEW ts \in Tables(0, {}, {}), NEW kn, NEW tc \in Seq(DOMAIN ts), tc # <<>>,
         NEW u, u # Last(tc), StackedAt(ts, tc, kn, u)
  PROVE  StackedAt(ts, Front(tc), kn \cup {Last(tc)}, u)
<1>1. PICK H : H = Held(ts)
  OBVIOUS
<1>2. PICK i \in DOMAIN tc :
        /\ tc[i] = u
        /\ \A c \in H[u] : c \in kn \/ \E j \in DOMAIN tc : i < j /\ tc[j] = c
        /\ \A j \in DOMAIN tc : i < j => tc[j] \in From(ts, H[u])
  BY <1>1 DEF StackedAt
<1>3. PICK n \in Nat \ {0} : n = Len(tc)
  BY PopFacts
<1>4. PICK front : front = Front(tc)
  OBVIOUS
<1>5. /\ DOMAIN tc = 1 .. n /\ DOMAIN front = 1 .. n - 1 /\ tc[n] = Last(tc)
      /\ \A j \in 1 .. n - 1 : front[j] = tc[j]
  BY <1>3, <1>4, PopFacts
<1>6. i \in 1 .. n - 1
  BY <1>2, <1>5
<1>7. ASSUME NEW c \in H[u], c \notin kn \cup {Last(tc)}
      PROVE  \E j \in DOMAIN front : i < j /\ front[j] = c
  <2>1. PICK j \in 1 .. n : i < j /\ tc[j] = c
    BY <1>2, <1>5, <1>7
  <2>2. j # n
    BY <1>5, <1>7, <2>1
  <2> QED
    BY <1>5, <2>1, <2>2
<1>8. ASSUME NEW j \in DOMAIN front, i < j PROVE front[j] \in From(ts, H[u])
  BY <1>2, <1>5, <1>8
<1>9. front[i] = u /\ i \in DOMAIN front
  BY <1>2, <1>5, <1>6
<1> QED
  BY <1>1, <1>4, <1>7, <1>8, <1>9 DEF StackedAt

LEMMA PushFacts ==
  ASSUME NEW D, NEW s \in Seq(D), NEW r \in Seq(D)
  PROVE  /\ s \o r \in Seq(D) /\ Len(s \o r) = Len(s) + Len(r) /\ Len(s) \in Nat /\ Len(r) \in Nat
         /\ DOMAIN s = 1 .. Len(s) /\ DOMAIN r = 1 .. Len(r)
         /\ DOMAIN (s \o r) = 1 .. Len(s) + Len(r)
         /\ \A i \in 1 .. Len(s) : (s \o r)[i] = s[i]
         /\ \A i \in 1 .. Len(r) : (s \o r)[Len(s) + i] = r[i]
OBVIOUS

LEMMA StackedPush ==
  ASSUME NEW ts \in Tables(0, {}, {}), NEW kn, NEW tc \in Seq(DOMAIN ts), tc # <<>>,
         NEW missing \in Seq(DOMAIN ts), ToSet(missing) = Held(ts)[Last(tc)] \ kn
  PROVE  /\ StackedAt(ts, tc \o missing, kn, Last(tc))
         /\ \A u \in DOMAIN ts : u # Last(tc) /\ StackedAt(ts, tc, kn, u)
              => StackedAt(ts, tc \o missing, kn, u)
<1>1. PICK H : H = Held(ts)
  OBVIOUS
<1>2. PICK t : t = Last(tc)
  OBVIOUS
<1>3. PICK n \in Nat \ {0} : n = Len(tc)
  BY PopFacts
<1>4. PICK m \in Nat : m = Len(missing)
  BY PushFacts
<1>5. PICK new : new = tc \o missing
  OBVIOUS
<1>6. /\ DOMAIN tc = 1 .. n /\ DOMAIN missing = 1 .. m /\ DOMAIN new = 1 .. n + m
      /\ \A i \in 1 .. n : new[i] = tc[i]
      /\ \A i \in 1 .. m : new[n + i] = missing[i]
  BY <1>3, <1>4, <1>5, PushFacts
<1>7. tc[n] = t /\ t \in DOMAIN ts
  BY <1>2, <1>3, PopFacts
<1>8. \A i \in 1 .. m : missing[i] \in H[t]
  BY <1>1, <1>2, <1>6 DEF ToSet
<1>9. ASSUME NEW j \in 1 .. n + m, n < j PROVE new[j] \in H[t]
  <2>1. PICK i \in 1 .. m : j = n + i
    <3>1. j - n \in 1 .. m /\ j = n + (j - n)
      BY <1>9
    <3> QED
      BY <3>1
  <2> QED
    BY <1>6, <1>8, <2>1
<1>10. ASSUME NEW c \in H[t], c \notin kn PROVE \E j \in 1 .. n + m : n < j /\ new[j] = c
  <2>1. PICK i \in 1 .. m : missing[i] = c
    BY <1>1, <1>2, <1>6, <1>10 DEF ToSet
  <2>2. n + i \in 1 .. n + m /\ n < n + i
    OBVIOUS
  <2> QED
    BY <1>6, <2>1, <2>2
<1>11. \A x \in DOMAIN ts : /\ H[x] \in SUBSET DOMAIN ts
                            /\ H[x] \subseteq From(ts, H[x]) /\ ClosedUnder(H, From(ts, H[x]))
  BY <1>1, HeldTyped, FromLeast
<1>12. StackedAt(ts, new, kn, t)
  <2>1. n \in DOMAIN new /\ new[n] = t
    BY <1>6, <1>7
  <2>2. \A c \in H[t] : c \in kn \/ \E j \in DOMAIN new : n < j /\ new[j] = c
    BY <1>6, <1>10
  <2>3. \A j \in DOMAIN new : n < j => new[j] \in From(ts, H[t])
    BY <1>6, <1>7, <1>9, <1>11
  <2> QED
    BY <1>1, <2>1, <2>2, <2>3 DEF StackedAt
<1>13. ASSUME NEW u \in DOMAIN ts, u # t, StackedAt(ts, tc, kn, u)
       PROVE  StackedAt(ts, new, kn, u)
  <2>1. PICK i \in DOMAIN tc :
          /\ tc[i] = u
          /\ \A c \in H[u] : c \in kn \/ \E j \in DOMAIN tc : i < j /\ tc[j] = c
          /\ \A j \in DOMAIN tc : i < j => tc[j] \in From(ts, H[u])
    BY <1>1, <1>13 DEF StackedAt
  <2>2. i \in 1 .. n - 1
    BY <1>6, <1>7, <1>13, <2>1
  <2>3. t \in From(ts, H[u])
    <3>1. n \in DOMAIN tc /\ i < n
      BY <1>6, <2>2
    <3> QED
      BY <1>7, <2>1, <3>1
  <2>4. i \in DOMAIN new /\ new[i] = u
    BY <1>6, <2>1, <2>2
  <2>5. \A c \in H[u] : c \in kn \/ \E j \in DOMAIN new : i < j /\ new[j] = c
    <3>1. \A j \in DOMAIN tc : j \in DOMAIN new /\ new[j] = tc[j]
      BY <1>6
    <3> QED
      BY <2>1, <3>1
  <2>6. ASSUME NEW j \in DOMAIN new, i < j PROVE new[j] \in From(ts, H[u])
    <3>1. CASE j \in 1 .. n
      BY <1>6, <2>1, <2>6, <3>1
    <3>2. CASE n < j
      <4>1. new[j] \in H[t]
        BY <1>6, <1>9, <3>2
      <4> QED
        BY <1>11, <2>3, <4>1 DEF ClosedUnder
    <3> QED
      BY <1>6, <3>1, <3>2
  <2> QED
    BY <1>1, <2>4, <2>5, <2>6 DEF StackedAt
<1> QED
  BY <1>2, <1>5, <1>12, <1>13

(* A type that is at the end of the worklist, waits on it already, and     *)
(* misses a type, waits below itself: it holds itself.                     *)
LEMMA RestackedHoldsItself ==
  ASSUME NEW ts \in Tables(0, {}, {}), NEW kn, NEW tc \in Seq(DOMAIN ts), tc # <<>>,
         StackedAt(ts, tc, kn, Last(tc)), ~(Held(ts)[Last(tc)] \subseteq kn)
  PROVE  Last(tc) \in From(ts, Held(ts)[Last(tc)])
<1>1. PICK t : t = Last(tc)
  OBVIOUS
<1>2. PICK n \in Nat \ {0} : n = Len(tc)
  BY PopFacts
<1>3. DOMAIN tc = 1 .. n /\ tc[n] = t
  BY <1>1, <1>2, PopFacts
<1>4. PICK i \in DOMAIN tc :
        /\ \A c \in Held(ts)[t] : c \in kn \/ \E j \in DOMAIN tc : i < j /\ tc[j] = c
        /\ \A j \in DOMAIN tc : i < j => tc[j] \in From(ts, Held(ts)[t])
  BY <1>1 DEF StackedAt
<1>5. PICK j \in DOMAIN tc : i < j
  BY <1>1, <1>4
<1>6. n \in DOMAIN tc /\ i < n
  BY <1>3, <1>5
<1> QED
  BY <1>1, <1>3, <1>4, <1>6

-----------------------------------------------------------------------------
(* The invariant of typeck and compute_ty_facts *)

CtxTyped ==
  /\ source \in Programs /\ lang \in Langs
  /\ phase \in {"typeck", "facts", "graph", "emit", "over"}
  /\ result \in {"none", "undefined", "infinite", "no_pun", "unsupported", "panic", "ok"}
  /\ tys \in Tables(0, {}, {})
  /\ args \in Seq(Seq(Nat)) /\ \A f \in DOMAIN args : args[f] \in Seq(DOMAIN tys)
  /\ phase \in {"facts", "graph", "emit"} => Len(args) = Len(source.funcs)
  /\ phase # "over" => result = "none"

FactsTyped ==
  /\ to_compute \in Seq(DOMAIN tys)
  /\ visited \in SUBSET DOMAIN tys /\ known \in SUBSET DOMAIN tys /\ refs \in SUBSET DOMAIN tys

AllAwaited(ts, tc, kn) == \A t \in DOMAIN ts : t \in kn \/ t \in ToSet(tc)
AllStacked(ts, tc, vis, kn) == \A u \in vis \ kn : StackedAt(ts, tc, kn, u)
HoldsItself(ts) == \E t \in DOMAIN ts : t \in From(ts, Held(ts)[t])

Worklist ==
  /\ phase = "typeck" => visited = {} /\ known = {} /\ refs = {}
  /\ phase = "facts" => /\ AllAwaited(tys, to_compute, known)
                        /\ AllStacked(tys, to_compute, visited, known)
  /\ phase = "graph" => known = DOMAIN tys
  /\ result = "infinite" => HoldsItself(tys)

FactsInv == CtxTyped /\ FactsTyped /\ Exact(tys, known, refs) /\ Worklist

LEMMA ExactEmpty == ASSUME NEW ts PROVE Exact(ts, {}, {})
BY DEF Exact, ClosedUnder, NoneHoldsItself, RefsAre

LEMMA InitFacts == Init => FactsInv
<1> SUFFICES ASSUME Init PROVE FactsInv
  OBVIOUS
<1>1. PICK e : e = <<>>
  OBVIOUS
<1>2. /\ e \in Seq(AnyTy) /\ Len(e) = 0 /\ DOMAIN e = {} /\ e \in Seq(Seq(Nat))
      /\ \A S : e \in Seq(S)
  BY <1>1
<1>3. e \in Tables(0, {}, {})
  BY <1>2 DEF Tables, Closed, Unfilled
<1>4. CtxTyped
  BY <1>1, <1>2, <1>3 DEF Init, CtxTyped
<1>5. FactsTyped
  BY <1>1, <1>2 DEF Init, FactsTyped
<1>6. Worklist
  BY DEF Init, Worklist
<1>7. Exact(tys, known, refs)
  BY ExactEmpty DEF Init
<1> QED
  BY <1>4, <1>5, <1>6, <1>7 DEF FactsInv

LEMMA InUnion ==
  ASSUME NEW lists, NEW f \in DOMAIN lists, NEW w \in ToSet(lists[f])
  PROVE  w \in UNION {ToSet(lists[g]) : g \in DOMAIN lists}
<1>1. PICK S : S = ToSet(lists[f])
  OBVIOUS
<1>2. S \in {ToSet(lists[g]) : g \in DOMAIN lists}
  BY <1>1
<1> QED
  BY <1>1, <1>2

(* The names of the declarations and the builtin lead to types.            *)
LEMMA GlobalsResolve ==
  ASSUME source \in Programs, ~Undefined
  PROVE  /\ source.decls \in Seq(PlainDecls \cup PunDecls)
         /\ source.funcs \in Seq(Seq(WrittenTypes))
         /\ \A n \in DOMAIN source.decls : \A w \in Written(source.decls[n]) :
              Resolves(Len(source.decls) + 1, GlobalEnv, w)
         /\ \A f \in DOMAIN source.funcs : \A w \in ToSet(source.funcs[f]) :
              Resolves(Len(source.decls) + 1, GlobalEnv, w)
<1>1. source.decls \in Seq(PlainDecls \cup PunDecls) /\ source.funcs \in Seq(Seq(WrittenTypes))
  BY ProgramsAssumption
<1>2. PICK k \in Nat : k = Len(source.decls)
  BY <1>1
<1>3. DOMAIN source.decls = 1 .. k
  BY <1>1, <1>2
<1>4. PICK env : env = GlobalEnv
  OBVIOUS
<1>5. ASSUME NEW x \in DOMAIN env PROVE env[x] \in 1 .. k + 1
  <2>1. x \in Declared \cup {"u32"}
    BY <1>4, <1>5 DEF GlobalEnv
  <2>2. CASE x \in Declared
    <3>1. \E n \in DOMAIN source.decls : source.decls[n].name = x
      BY <2>2 DEF Declared
    <3>2. PICK n \in DOMAIN source.decls :
            n = CHOOSE m \in DOMAIN source.decls : source.decls[m].name = x
      BY <3>1
    <3>3. env[x] = IndexOf(n)
      BY <1>4, <2>1, <2>2, <3>2 DEF GlobalEnv
    <3>4. Len(Builtins) = 1
      BY DEF Builtins
    <3> QED
      BY <1>3, <3>2, <3>3, <3>4 DEF IndexOf
  <2>3. CASE x \notin Declared
    <3>1. env[x] = 1
      BY <1>4, <2>1, <2>3 DEF GlobalEnv
    <3> QED
      BY <1>2, <3>1
  <2> QED
    BY <2>2, <2>3
<1>6. ASSUME NEW n \in DOMAIN source.decls, NEW w \in Written(source.decls[n])
      PROVE  Resolves(k + 1, env, w)
  <2>1. w.base \in DOMAIN GlobalEnv \cup {"()"}
    BY <1>6 DEF Undefined
  <2> QED
    BY <1>4, <1>5, <2>1 DEF Resolves
<1>7. ASSUME NEW f \in DOMAIN source.funcs, NEW w \in ToSet(source.funcs[f])
      PROVE  Resolves(k + 1, env, w)
  <2>1. w.base \in DOMAIN GlobalEnv \cup {"()"}
    <3>1. w \in UNION {ToSet(source.funcs[g]) : g \in DOMAIN source.funcs}
      BY <1>7, InUnion
    <3> QED
      BY <3>1, Zenon DEF Undefined
  <2> QED
    BY <1>4, <1>5, <2>1 DEF Resolves
<1> QED
  BY <1>1, <1>2, <1>4, <1>6, <1>7

LEMMA TypeckTyped ==
  ASSUME CtxTyped, Typeck
  PROVE  \/ Ends("undefined") /\ UNCHANGED <<tys, args, to_compute>>
         \/ /\ phase' = "facts" /\ result' = result
            /\ tys' \in Tables(0, {}, {})
            /\ args' \in Seq(Seq(Nat)) /\ Len(args') = Len(source.funcs)
            /\ \A f \in DOMAIN args' : args'[f] \in Seq(DOMAIN tys')
            /\ to_compute' = [i \in 1 .. Len(tys') |-> i]
<1>1. CASE Undefined
  BY <1>1 DEF Typeck, ctxVars
<1>2. CASE ~Undefined
  <2>1. PICK decls : decls = source.decls
    OBVIOUS
  <2>2. PICK funcs : funcs = source.funcs
    OBVIOUS
  <2>3. PICK env : env = GlobalEnv
    OBVIOUS
  <2>4. source \in Programs
    BY DEF CtxTyped
  <2>5. /\ decls \in Seq(PlainDecls \cup PunDecls) /\ funcs \in Seq(Seq(WrittenTypes))
        /\ \A n \in DOMAIN decls : \A w \in Written(decls[n]) : Resolves(Len(decls) + 1, env, w)
        /\ \A f \in DOMAIN funcs : \A w \in ToSet(funcs[f]) : Resolves(Len(decls) + 1, env, w)
    BY <1>2, <2>1, <2>2, <2>3, <2>4, GlobalsResolve
  <2>6. PICK k \in Nat : k = Len(decls)
    BY <2>5
  <2>7. PICK pushed : pushed = PushAll(decls)
    OBVIOUS
  <2>8. pushed \in Tables(Len(decls) + 1, {m + 1 : m \in DOMAIN decls}, {})
    BY <2>5, <2>7, PushedTyped
  <2>9. PICK filled : filled = CompleteAll(pushed, env, decls)
    OBVIOUS
  <2>10. filled \in Tables(k + 1, {}, {})
    BY <2>5, <2>6, <2>8, <2>9, CompletedTyped
  <2>11. PICK typed : typed = MemoizeFuncs(filled, env, funcs)
    OBVIOUS
  <2>12. typed \in ArgLists(k + 1, Len(funcs))
    <3>1. k + 1 \in Nat
      OBVIOUS
    <3> QED
      BY <2>5, <2>6, <2>10, <2>11, <3>1, ArgsTyped
  <2>13. /\ tys' = typed.tys /\ args' = typed.args
         /\ to_compute' = [i \in 1 .. Len(typed.tys) |-> i]
         /\ phase' = "facts" /\ result' = result
    BY <1>2, <2>1, <2>2, <2>3, <2>7, <2>9, <2>11 DEF Typeck
  <2>14. PICK ts : ts = typed.tys
    OBVIOUS
  <2>15. PICK as : as = typed.args
    OBVIOUS
  <2>16. /\ ts \in Tables(k + 1, {}, {}) /\ as \in Seq(Seq(Nat)) /\ Len(as) = Len(funcs)
         /\ \A f \in DOMAIN as : as[f] \in Seq(DOMAIN ts)
    BY <2>12, <2>14, <2>15 DEF ArgLists
  <2>17. ts \in Tables(0, {}, {})
    <3>1. k + 1 \in Nat
      OBVIOUS
    <3> QED
      BY <2>16, <3>1, TableFacts
  <2> QED
    BY <2>2, <2>13, <2>14, <2>15, <2>16, <2>17
<1> QED
  BY <1>1, <1>2

LEMMA TypeckFacts == FactsInv /\ Typeck => FactsInv'
<1> SUFFICES ASSUME FactsInv, Typeck PROVE FactsInv'
  OBVIOUS
<1>1. CtxTyped /\ FactsTyped /\ Exact(tys, known, refs) /\ Worklist
  BY DEF FactsInv
<1>2. /\ phase = "typeck" /\ visited = {} /\ known = {} /\ refs = {} /\ result = "none"
      /\ UNCHANGED <<source, lang, visited, known, refs>>
  BY <1>1 DEF Typeck, Worklist, CtxTyped
<1>3. CASE Ends("undefined") /\ UNCHANGED <<tys, args, to_compute>>
  <2>1. CtxTyped'
    BY <1>1, <1>2, <1>3 DEF CtxTyped, Ends
  <2>2. FactsTyped'
    BY <1>1, <1>2, <1>3 DEF FactsTyped
  <2>3. Exact(tys', known', refs')
    BY <1>2, ExactEmpty
  <2>4. Worklist'
    BY <1>3 DEF Worklist, Ends
  <2> QED
    BY <2>1, <2>2, <2>3, <2>4 DEF FactsInv
<1>4. CASE /\ phase' = "facts" /\ result' = result
           /\ tys' \in Tables(0, {}, {})
           /\ args' \in Seq(Seq(Nat)) /\ Len(args') = Len(source.funcs)
           /\ \A f \in DOMAIN args' : args'[f] \in Seq(DOMAIN tys')
           /\ to_compute' = [i \in 1 .. Len(tys') |-> i]
  <2>1. CtxTyped'
    BY <1>1, <1>2, <1>4 DEF CtxTyped
  <2>2. Len(tys') \in Nat /\ DOMAIN tys' = 1 .. Len(tys')
    BY <1>4, HeldTyped
  <2>3. FactsTyped'
    BY <1>2, <1>4, <2>2 DEF FactsTyped
  <2>4. Exact(tys', known', refs')
    BY <1>2, ExactEmpty
  <2>5. AllAwaited(tys', to_compute', known')
    BY <1>4, <2>2 DEF AllAwaited, ToSet
  <2>6. AllStacked(tys', to_compute', visited', known')
    BY <1>2 DEF AllStacked
  <2>7. Worklist'
    BY <1>2, <1>4, <2>5, <2>6 DEF Worklist
  <2> QED
    BY <2>1, <2>3, <2>4, <2>7 DEF FactsInv
<1> QED
  BY <1>1, <1>3, <1>4, TypeckTyped

(* The children of a type, and those that miss their fact. *)
LEMMA ChildrenHeld ==
  ASSUME CtxTyped, NEW t \in DOMAIN tys
  PROVE  /\ ToSet(Children(t)) = Held(tys)[t] /\ Children(t) \in Seq(DOMAIN tys)
         /\ Missing(t) \in Seq(DOMAIN tys) /\ ToSet(Missing(t)) = Held(tys)[t] \ known
         /\ Len(Missing(t)) <= Len(Children(t))
         /\ Missing(t) = <<>> <=> Held(tys)[t] \subseteq known
         /\ ContainsRef(t) <=> (tys[t].kind = "ref" \/ Held(tys)[t] \cap refs # {})
<1>1. tys \in Tables(0, {}, {})
  BY DEF CtxTyped
<1>2. tys[t].parts \in Seq(DOMAIN tys)
  BY <1>1, TableFacts
<1>3. ToSet(Children(t)) = Held(tys)[t] /\ Children(t) \in Seq(DOMAIN tys)
  <2>1. CASE tys[t].kind \in Aggregates
    BY <1>2, <2>1 DEF Children, Held
  <2>2. CASE tys[t].kind \notin Aggregates
    <3>1. ToSet(<<>>) = {}
      BY DEF ToSet
    <3> QED
      BY <2>2, <3>1 DEF Children, Held
  <2> QED
    BY <2>1, <2>2
<1>4. /\ Missing(t) \in Seq(DOMAIN tys) /\ ToSet(Missing(t)) = Held(tys)[t] \ known
      /\ Len(Missing(t)) <= Len(Children(t))
  BY <1>3, OutsideTyped DEF Missing
<1>5. Missing(t) = <<>> <=> ToSet(Missing(t)) = {}
  <2>1. PICK m : m = Missing(t)
    OBVIOUS
  <2>2. m \in Seq(DOMAIN tys)
    BY <1>4, <2>1
  <2>3. m = <<>> <=> DOMAIN m = {}
    BY <2>2
  <2>4. m = <<>> <=> ToSet(m) = {}
    BY <2>3 DEF ToSet
  <2> QED
    BY <2>1, <2>4
<1>6. ContainsRef(t) <=> (tys[t].kind = "ref" \/ Held(tys)[t] \cap refs # {})
  BY <1>3 DEF ContainsRef
<1> QED
  BY <1>3, <1>4, <1>5, <1>6

LEMMA ComputeFactFacts == FactsInv /\ ComputeFact => FactsInv'
<1> SUFFICES ASSUME FactsInv, ComputeFact PROVE FactsInv'
  OBVIOUS
<1>1. CtxTyped /\ FactsTyped /\ Exact(tys, known, refs) /\ Worklist
  BY DEF FactsInv
<1>2. PICK t : t = Last(to_compute)
  OBVIOUS
<1>3. /\ phase = "facts" /\ to_compute # <<>> /\ UNCHANGED <<source, lang, tys, args>>
      /\ result = "none"
  BY <1>1 DEF ComputeFact, ctxVars, CtxTyped
<1>4. /\ tys \in Tables(0, {}, {}) /\ to_compute \in Seq(DOMAIN tys)
      /\ known \in SUBSET DOMAIN tys /\ visited \in SUBSET DOMAIN tys /\ refs \in SUBSET DOMAIN tys
  BY <1>1 DEF CtxTyped, FactsTyped
<1>5. t \in DOMAIN tys
  BY <1>2, <1>3, <1>4, PopFacts
<1>6. AllAwaited(tys, to_compute, known) /\ AllStacked(tys, to_compute, visited, known)
  BY <1>1, <1>3 DEF Worklist
<1>7. CASE Missing(t) = <<>>
  <2>1. /\ known' = known \cup {t}
        /\ refs' = IF ContainsRef(t) THEN refs \cup {t} ELSE refs
        /\ to_compute' = Front(to_compute)
        /\ UNCHANGED <<visited, phase, result>>
    BY <1>2, <1>7 DEF ComputeFact
  <2>2. Held(tys)[t] \subseteq known
    BY <1>1, <1>5, <1>7, ChildrenHeld
  <2>3. Exact(tys', known', refs')
    <3>1. ContainsRef(t) <=> (tys[t].kind = "ref" \/ Held(tys)[t] \cap refs # {})
      BY <1>1, <1>5, ChildrenHeld
    <3>2. refs' = IF tys[t].kind = "ref" \/ Held(tys)[t] \cap refs # {} THEN refs \cup {t} ELSE refs
      BY <2>1, <3>1
    <3>3. Exact(tys, known \cup {t},
                IF tys[t].kind = "ref" \/ Held(tys)[t] \cap refs # {} THEN refs \cup {t} ELSE refs)
      BY <1>1, <1>4, <1>5, <2>2, KnowMore
    <3>4. Exact(tys, known', refs')
      BY <2>1, <3>2, <3>3, Zenon
    <3> QED
      BY <1>3, <3>4
  <2>4. CtxTyped'
    BY <1>1, <1>3, <2>1 DEF CtxTyped
  <2>5. FactsTyped'
    <3>1. Front(to_compute) \in Seq(DOMAIN tys)
      BY <1>3, <1>4, PopFacts
    <3> QED
      BY <1>3, <1>4, <1>5, <2>1, <3>1 DEF FactsTyped
  <2>6. AllAwaited(tys', to_compute', known')
    <3> SUFFICES ASSUME NEW u \in DOMAIN tys, u \notin known, u # t
                 PROVE  u \in ToSet(Front(to_compute))
      BY <1>3, <2>1 DEF AllAwaited
    <3>1. PICK i \in DOMAIN to_compute : to_compute[i] = u
      BY <1>6 DEF AllAwaited, ToSet
    <3>2. PICK n \in Nat \ {0} : n = Len(to_compute)
      BY <1>3, <1>4, PopFacts
    <3>3. i \in 1 .. n - 1
      <4>1. to_compute[n] = t /\ DOMAIN to_compute = 1 .. n
        BY <1>2, <1>3, <1>4, <3>2, PopFacts
      <4> QED
        BY <3>1, <4>1
    <3>4. i \in DOMAIN Front(to_compute) /\ Front(to_compute)[i] = u
      BY <1>3, <1>4, <3>1, <3>2, <3>3, PopFacts
    <3> QED
      BY <3>4 DEF ToSet
  <2>7. AllStacked(tys', to_compute', visited', known')
    <3> SUFFICES ASSUME NEW u \in visited, u \notin known, u # t
                 PROVE  StackedAt(tys, Front(to_compute), known \cup {t}, u)
      BY <1>3, <2>1 DEF AllStacked
    <3>1. StackedAt(tys, to_compute, known, u)
      BY <1>6 DEF AllStacked
    <3> QED
      BY <1>2, <1>3, <1>4, <3>1, StackedPop
  <2>8. Worklist'
    BY <1>3, <2>1, <2>6, <2>7 DEF Worklist
  <2> QED
    BY <2>3, <2>4, <2>5, <2>8 DEF FactsInv
<1>8. CASE Missing(t) # <<>> /\ Restacked(t)
  <2>1. phase' = "over" /\ result' = "infinite" /\ UNCHANGED <<to_compute, visited, known, refs>>
    BY <1>2, <1>8 DEF ComputeFact, Ends, factVars
  <2>2. ~(Held(tys)[t] \subseteq known)
    BY <1>1, <1>5, <1>8, ChildrenHeld
  <2>3. t \notin known
    BY <1>1, <2>2 DEF Exact, ClosedUnder
  <2>4. t \in visited
    BY <1>8 DEF Restacked
  <2>5. StackedAt(tys, to_compute, known, t)
    BY <1>6, <2>3, <2>4 DEF AllStacked
  <2>6. t \in From(tys, Held(tys)[t])
    BY <1>2, <1>3, <1>4, <2>2, <2>5, RestackedHoldsItself
  <2>7. CtxTyped'
    BY <1>1, <1>3, <2>1 DEF CtxTyped
  <2>8. FactsTyped'
    BY <1>1, <1>3, <2>1 DEF FactsTyped
  <2>9. Worklist'
    BY <1>3, <1>5, <2>1, <2>6 DEF Worklist, HoldsItself
  <2> QED
    BY <1>1, <1>3, <2>1, <2>7, <2>8, <2>9 DEF FactsInv
<1>9. CASE Missing(t) # <<>> /\ ~Restacked(t)
  <2>1. PICK missing : missing = Missing(t)
    OBVIOUS
  <2>2. /\ visited' = visited \cup {t}
        /\ to_compute' = to_compute \o missing
        /\ UNCHANGED <<known, refs, phase, result>>
    BY <1>2, <1>9, <2>1 DEF ComputeFact
  <2>3. missing \in Seq(DOMAIN tys) /\ ToSet(missing) = Held(tys)[t] \ known
    BY <1>1, <1>5, <2>1, ChildrenHeld
  <2>4. CtxTyped'
    BY <1>1, <1>3, <2>2 DEF CtxTyped
  <2>5. FactsTyped'
    BY <1>3, <1>4, <1>5, <2>2, <2>3, PushFacts DEF FactsTyped
  <2>6. AllAwaited(tys', to_compute', known')
    <3> SUFFICES ASSUME NEW u \in DOMAIN tys, u \notin known
                 PROVE  u \in ToSet(to_compute \o missing)
      BY <1>3, <2>2 DEF AllAwaited
    <3>1. PICK i \in DOMAIN to_compute : to_compute[i] = u
      BY <1>6 DEF AllAwaited, ToSet
    <3>2. i \in DOMAIN (to_compute \o missing) /\ (to_compute \o missing)[i] = u
      BY <1>4, <2>3, <3>1, PushFacts
    <3> QED
      BY <3>2 DEF ToSet
  <2>7. AllStacked(tys', to_compute', visited', known')
    <3> SUFFICES ASSUME NEW u \in visited \cup {t}, u \notin known
                 PROVE  StackedAt(tys, to_compute \o missing, known, u)
      BY <1>3, <2>2 DEF AllStacked
    <3>1. CASE u = t
      BY <1>2, <1>3, <1>4, <2>3, <3>1, StackedPush
    <3>2. CASE u # t
      <4>1. StackedAt(tys, to_compute, known, u) /\ u \in DOMAIN tys
        BY <1>4, <1>6, <3>2 DEF AllStacked
      <4> QED
        BY <1>2, <1>3, <1>4, <2>3, <3>2, <4>1, StackedPush
    <3> QED
      BY <3>1, <3>2
  <2>8. Worklist'
    BY <1>3, <2>2, <2>6, <2>7 DEF Worklist
  <2> QED
    BY <1>1, <1>3, <2>2, <2>4, <2>5, <2>8 DEF FactsInv
<1> QED
  BY <1>7, <1>8, <1>9

LEMMA NextFacts == FactsInv /\ [Next]_vars => FactsInv'
<1> SUFFICES ASSUME FactsInv, [Next]_vars PROVE FactsInv'
  OBVIOUS
<1>1. CtxTyped /\ FactsTyped /\ Exact(tys, known, refs) /\ Worklist
  BY DEF FactsInv
<1>2. CASE Typeck
  BY <1>2, TypeckFacts
<1>3. CASE ComputeFact
  BY <1>3, ComputeFactFacts
<1>4. CASE FactsDone
  <2>1. /\ phase = "facts" /\ to_compute = <<>> /\ phase' = "graph"
        /\ UNCHANGED <<source, lang, result, tys, args, to_compute, visited, known, refs>>
    BY <1>4 DEF FactsDone, ctxVars, factVars
  <2>2. known = DOMAIN tys
    <3>1. ToSet(to_compute) = {}
      BY <2>1 DEF ToSet
    <3>2. AllAwaited(tys, to_compute, known)
      BY <1>1, <2>1 DEF Worklist
    <3> QED
      BY <1>1, <3>1, <3>2 DEF AllAwaited, FactsTyped
  <2>3. CtxTyped'
    BY <1>1, <2>1 DEF CtxTyped
  <2>4. FactsTyped'
    BY <1>1, <2>1 DEF FactsTyped
  <2>5. Worklist'
    BY <1>1, <2>1, <2>2 DEF Worklist
  <2> QED
    BY <1>1, <2>1, <2>3, <2>4, <2>5 DEF FactsInv
<1>5. ASSUME UNCHANGED <<source, lang, tys, args, to_compute, visited, known, refs>>,
             phase \in {"graph", "emit"}, phase' \in {"emit", "over"},
             result' \in {"none", "no_pun", "unsupported", "panic", "ok"},
             phase' # "over" => result' = "none"
      PROVE  FactsInv'
  <2>1. CtxTyped'
    BY <1>1, <1>5 DEF CtxTyped
  <2>2. FactsTyped'
    BY <1>1, <1>5 DEF FactsTyped
  <2>3. Worklist'
    BY <1>5 DEF Worklist
  <2> QED
    BY <1>1, <1>5, <2>1, <2>2, <2>3 DEF FactsInv
<1>6. phase # "over" => result = "none"
  BY <1>1 DEF CtxTyped
<1>7. CASE DefinitionGraph
  BY <1>5, <1>6, <1>7 DEF DefinitionGraph, Ends, ctxVars, factVars
<1>8. CASE NextComponent
  <2>1. /\ phase = "emit"
        /\ UNCHANGED <<source, lang, phase, result, tys, args, to_compute, visited, known, refs>>
    BY <1>8 DEF NextComponent, ctxVars, factVars
  <2> QED
    BY <1>5, <1>6, <2>1
<1>9. CASE EmitDefinition
  <2>1. /\ phase = "emit" /\ UNCHANGED <<source, lang, tys, args, to_compute, visited, known, refs>>
        /\ \/ Ends("unsupported") \/ Ends("panic") \/ UNCHANGED <<phase, result>>
    BY <1>9 DEF EmitDefinition, ctxVars, factVars
  <2> QED
    BY <1>5, <1>6, <2>1 DEF Ends
<1>10. CASE GenerateFunctions
  BY <1>5, <1>6, <1>10 DEF GenerateFunctions, Ends, ctxVars, factVars
<1>11. CASE UNCHANGED vars
  <2>1. UNCHANGED <<source, lang, phase, result, tys, args, to_compute, visited, known, refs>>
    BY <1>11 DEF vars, ctxVars, factVars
  <2>2. CtxTyped' /\ FactsTyped' /\ Worklist'
    BY <1>1, <2>1 DEF CtxTyped, FactsTyped, Worklist
  <2> QED
    BY <1>1, <2>1, <2>2 DEF FactsInv
<1> QED
  BY <1>2, <1>3, <1>4, <1>7, <1>8, <1>9, <1>10, <1>11 DEF Next, Over

(* What the type table, the worklist of compute_ty_facts and its results   *)
(* have to do with each other, in every state.                             *)
THEOREM FactsInvariant == Spec => []FactsInv
<1> QED
  BY InitFacts, NextFacts, PTL DEF Spec

-----------------------------------------------------------------------------
LEMMA HoldsIsHeld ==
  ASSUME NEW S
  PROVE  Holds = Held(tys) /\ Reach(Holds, S) = From(tys, S)
<1>1. Holds = Held(tys)
  BY DEF Holds, Held, Idxs
<1>2. Reach(Holds, S) = Near(Len(tys), Holds, S)[Len(tys)]
  BY ReachIsNear
<1> QED
  BY <1>1, <1>2 DEF From

(* compute_ty_facts rejects a program as infinite exactly if one of its    *)
(* types holds itself by value.                                            *)
THEOREM RejectsExactly == Spec => []RejectedIffSelfHolding
<1>1. ASSUME FactsInv PROVE RejectedIffSelfHolding
  <2>1. CtxTyped /\ Exact(tys, known, refs) /\ Worklist
    BY <1>1 DEF FactsInv
  <2>2. ASSUME NEW t PROVE Reach(Holds, Holds[t]) = From(tys, Held(tys)[t])
    BY HoldsIsHeld
  <2>3. SelfHolding = {t \in DOMAIN tys : t \in From(tys, Held(tys)[t])}
    BY <2>2 DEF SelfHolding, Idxs
  <2>4. ASSUME result = "infinite" PROVE SelfHolding # {}
    BY <2>1, <2>3, <2>4 DEF Worklist, HoldsItself
  <2>5. ASSUME phase = "graph" PROVE SelfHolding = {}
    <3>1. known = DOMAIN tys /\ NoneHoldsItself(tys, known)
      BY <2>1, <2>5 DEF Worklist, Exact
    <3> QED
      BY <2>3, <3>1 DEF NoneHoldsItself
  <2> QED
    BY <2>4, <2>5 DEF RejectedIffSelfHolding
<1> QED
  BY <1>1, FactsInvariant, PTL

(* When compute_ty_facts is done, contains_ref is set for the types that   *)
(* hold a reference by value, however deep, and for no other.              *)
THEOREM ContainsRefIsExact == Spec => []ContainsRefExact
<1>1. ASSUME FactsInv PROVE ContainsRefExact
  <2>1. Exact(tys, known, refs) /\ Worklist
    BY <1>1 DEF FactsInv
  <2>2. ASSUME NEW t PROVE Reach(Holds, {t}) = From(tys, {t})
    BY HoldsIsHeld
  <2>3. ASSUME phase = "graph"
        PROVE  /\ known = Idxs
               /\ refs = {t \in Idxs : \E u \in Reach(Holds, {t}) : tys[u].kind = "ref"}
    <3>1. known = DOMAIN tys /\ RefsAre(tys, known, refs)
      BY <2>1, <2>3 DEF Worklist, Exact
    <3> QED
      BY <2>2, <3>1 DEF RefsAre, Idxs
  <2> QED
    BY <2>3 DEF ContainsRefExact
<1> QED
  BY <1>1, FactsInvariant, PTL

-----------------------------------------------------------------------------
(* The definitions *)

Linked(ts) ==
  [t \in DOMAIN ts |->
     CASE ts[t].kind = "pun" -> {ts[t].real}
       [] ts[t].kind \in {"struct", "union", "tagged", "alias", "array", "ref"} ->
            ToSet(ts[t].parts)
       [] OTHER -> {}]
AllPunned(ts) == \A t \in DOMAIN ts : ~(ts[t].kind = "pun" /\ ts[t].real = 0)
RootsOf(as, fs) == UNION {ToSet(as[f]) : f \in fs}
Needed(ts, as, fs) == Near(Len(ts), Linked(ts), RootsOf(as, fs))[Len(ts)]

LEMMA PartsTyped ==
  ASSUME CtxTyped, NEW t \in DOMAIN tys
  PROVE  ToSet(tys[t].parts) \in SUBSET DOMAIN tys
<1>1. PICK parts : parts = tys[t].parts
  OBVIOUS
<1>2. parts \in Seq(DOMAIN tys)
  BY <1>1, TableFacts DEF CtxTyped
<1> QED
  BY <1>1, <1>2 DEF ToSet

LEMMA SizeTyped ==
  ASSUME CtxTyped
  PROVE  Len(tys) \in Nat /\ DOMAIN tys = 1 .. Len(tys) /\ tys \in Tables(0, {}, {})
BY HeldTyped DEF CtxTyped

LEMMA RealTyped ==
  ASSUME CtxTyped, AllPunned(tys), NEW t \in DOMAIN tys, tys[t].kind = "pun"
  PROVE  tys[t].real \in DOMAIN tys
BY SizeTyped, TableFacts DEF AllPunned

LEMMA GraphTyped ==
  ASSUME CtxTyped, AllPunned(tys)
  PROVE  Graph = Linked(tys) /\ Graph \in [1 .. Len(tys) -> SUBSET (1 .. Len(tys))]
<1>1. Graph = Linked(tys)
  BY DEF Graph, Linked, Edges
<1>2. ASSUME NEW t \in DOMAIN tys PROVE Edges(t) \in SUBSET DOMAIN tys
  <2>1. ToSet(tys[t].parts) \in SUBSET DOMAIN tys
    BY PartsTyped
  <2>2. tys[t].kind = "pun" => tys[t].real \in DOMAIN tys
    BY RealTyped
  <2> QED
    BY <2>1, <2>2 DEF Edges
<1>3. Graph \in [DOMAIN tys -> SUBSET DOMAIN tys]
  BY <1>2 DEF Graph
<1> QED
  BY <1>1, <1>3, SizeTyped

LEMMA SizedTyped ==
  ASSUME CtxTyped, AllPunned(tys), NEW p \in DOMAIN tys
  PROVE  Sized(p) \in SUBSET DOMAIN tys
<1>1. PICK through : through = [u \in DOMAIN tys |-> Behind(u)]
  OBVIOUS
<1>2. ASSUME NEW t \in DOMAIN tys PROVE Behind(t) \in SUBSET DOMAIN tys
  <2>1. ToSet(tys[t].parts) \in SUBSET DOMAIN tys
    BY PartsTyped
  <2>2. tys[t].kind = "pun" => tys[t].real \in DOMAIN tys
    BY RealTyped
  <2> QED
    BY <2>1, <2>2 DEF Behind
<1>3. through \in [1 .. Len(tys) -> SUBSET (1 .. Len(tys))]
  BY <1>1, <1>2, SizeTyped
<1>4. {p} \in SUBSET (1 .. Len(tys)) /\ Len(tys) \in Nat
  BY SizeTyped
<1>5. Reach(through, {p}) \in SUBSET (1 .. Len(tys))
  BY <1>3, <1>4, ReachLeast
<1>6. Sized(p) \subseteq Reach(through, {p})
  BY <1>1 DEF Sized
<1> QED
  BY <1>5, <1>6, SizeTyped

(* The order of a component is total, so for every place in it there is    *)
(* one type that comes there, and what sorts before is emitted after.      *)
LEMMA EmittedTyped ==
  ASSUME CtxTyped, NEW comp \in SUBSET DOMAIN tys
  PROVE  /\ IsFiniteSet(comp) /\ Cardinality(comp) \in Nat
         /\ Emitted(comp) \in [1 .. Cardinality(comp) -> comp]
         /\ \A t \in comp : \E i \in 1 .. Cardinality(comp) : Emitted(comp)[i] = t
         /\ \A i \in 1 .. Cardinality(comp) : \A j \in 1 .. Cardinality(comp) :
              /\ SortsBefore(Emitted(comp)[i], Emitted(comp)[j]) => j < i
              /\ Emitted(comp)[i] = Emitted(comp)[j] => i = j
<1>1. PICK N \in Nat : N = Len(tys)
  BY SizeTyped
<1>2. DOMAIN tys = 1 .. N
  BY <1>1, SizeTyped
<1>3. IsFiniteSet(1 .. N)
  BY FS_Interval
<1>4. IsFiniteSet(comp) /\ Cardinality(comp) \in Nat
  BY <1>2, <1>3, FS_Subset, FS_CardinalityType
<1>5. PICK c \in Nat : c = Cardinality(comp)
  BY <1>4
<1>6. ASSUME NEW t \in comp
      PROVE  IsFiniteSet(SortedAfter(comp, t)) /\ Cardinality(SortedAfter(comp, t)) \in 0 .. c - 1
  <2>1. ~SortsBefore(t, t)
    BY <1>2 DEF SortsBefore
  <2>2. SortedAfter(comp, t) \in SUBSET comp /\ t \notin SortedAfter(comp, t)
    BY <2>1 DEF SortedAfter
  <2>3. PICK after : after = SortedAfter(comp, t)
    OBVIOUS
  <2>4. /\ IsFiniteSet(after) /\ Cardinality(after) <= Cardinality(comp)
        /\ Cardinality(comp) # Cardinality(after)
    BY <1>4, <2>2, <2>3, FS_Subset
  <2>5. Cardinality(after) \in Nat
    BY <2>4, FS_CardinalityType
  <2> QED
    BY <1>5, <2>3, <2>4, <2>5
<1>7. ASSUME NEW t \in comp, NEW u \in comp, SortsBefore(t, u)
      PROVE  Cardinality(SortedAfter(comp, u)) < Cardinality(SortedAfter(comp, t))
  <2>1. ASSUME NEW v \in comp, SortsBefore(u, v) PROVE SortsBefore(t, v)
    <3>1. t \in 1 .. N /\ u \in 1 .. N /\ v \in 1 .. N
      BY <1>2
    <3> QED
      BY <1>7, <2>1, <3>1 DEF SortsBefore
  <2>2. ~SortsBefore(u, u)
    BY <1>2 DEF SortsBefore
  <2>3. PICK after : after = SortedAfter(comp, t)
    OBVIOUS
  <2>4. PICK less : less = SortedAfter(comp, u)
    OBVIOUS
  <2>5. less \in SUBSET after /\ less # after
    BY <1>7, <2>1, <2>2, <2>3, <2>4 DEF SortedAfter
  <2>6. IsFiniteSet(after)
    BY <1>6, <2>3
  <2>7. Cardinality(after) # Cardinality(less) /\ Cardinality(less) <= Cardinality(after)
    BY <2>5, <2>6, FS_Subset
  <2>8. Cardinality(after) \in Nat /\ Cardinality(less) \in Nat
    BY <1>6, <2>3, <2>4
  <2> QED
    BY <2>3, <2>4, <2>7, <2>8
<1>8. PICK rank : rank = [t \in comp |-> Cardinality(SortedAfter(comp, t))]
  OBVIOUS
<1>9. rank \in [comp -> 0 .. c - 1]
  BY <1>6, <1>8
<1>10. ASSUME NEW t \in comp, NEW u \in comp, t # u PROVE rank[t] # rank[u]
  <2>1. SortsBefore(t, u) \/ SortsBefore(u, t)
    <3>1. t \in 1 .. N /\ u \in 1 .. N
      BY <1>2
    <3>2. IsNominal(t) \in BOOLEAN /\ IsNominal(u) \in BOOLEAN
      BY DEF IsNominal
    <3> QED
      BY <1>10, <3>1, <3>2 DEF SortsBefore
  <2>2. rank[t] \in 0 .. c - 1 /\ rank[u] \in 0 .. c - 1
    BY <1>9
  <2>3. rank[u] < rank[t] \/ rank[t] < rank[u]
    BY <1>7, <1>8, <2>1
  <2> QED
    BY <2>2, <2>3
<1>11. rank \in Injection(comp, 0 .. c - 1)
  BY <1>9, <1>10 DEF Injection, IsInjective
<1>12. IsFiniteSet(0 .. c - 1) /\ Cardinality(0 .. c - 1) = c
  BY FS_Interval
<1>13. rank \in Surjection(comp, 0 .. c - 1)
  BY <1>5, <1>11, <1>12, FS_Injection
<1>14. ASSUME NEW i \in 1 .. c
       PROVE  Emitted(comp)[i] \in comp /\ rank[Emitted(comp)[i]] = i - 1
  <2>1. i - 1 \in 0 .. c - 1
    OBVIOUS
  <2>2. PICK t \in comp : rank[t] = i - 1
    BY <1>13, <2>1 DEF Surjection
  <2>3. Cardinality(SortedAfter(comp, t)) = i - 1
    BY <1>8, <2>2
  <2>4. Emitted(comp)[i] = CHOOSE u \in comp : Cardinality(SortedAfter(comp, u)) = i - 1
    BY <1>5 DEF Emitted
  <2>5. Emitted(comp)[i] \in comp /\ Cardinality(SortedAfter(comp, Emitted(comp)[i])) = i - 1
    BY <2>3, <2>4
  <2> QED
    BY <1>8, <2>5
<1>15. Emitted(comp) \in [1 .. c -> comp]
  <2>1. Emitted(comp) = [i \in 1 .. c |-> Emitted(comp)[i]]
    BY <1>5 DEF Emitted
  <2> QED
    BY <1>14, <2>1
<1>16. ASSUME NEW t \in comp PROVE \E i \in 1 .. c : Emitted(comp)[i] = t
  <2>1. rank[t] \in 0 .. c - 1
    BY <1>9
  <2>2. PICK i \in 1 .. c : rank[t] = i - 1
    BY <2>1
  <2>3. Emitted(comp)[i] = t
    BY <1>10, <1>14, <2>2
  <2> QED
    BY <2>3
<1>17. ASSUME NEW i \in 1 .. c, NEW j \in 1 .. c,
              SortsBefore(Emitted(comp)[i], Emitted(comp)[j])
       PROVE  j < i
  <2>1. PICK x : x = Emitted(comp)[i]
    OBVIOUS
  <2>2. PICK y : y = Emitted(comp)[j]
    OBVIOUS
  <2>3. x \in comp /\ rank[x] = i - 1 /\ y \in comp /\ rank[y] = j - 1
    BY <1>14, <2>1, <2>2
  <2>4. rank[y] < rank[x]
    BY <1>7, <1>8, <1>17, <2>1, <2>2, <2>3
  <2> QED
    BY <2>3, <2>4
<1>18. ASSUME NEW i \in 1 .. c, NEW j \in 1 .. c, Emitted(comp)[i] = Emitted(comp)[j]
       PROVE  i = j
  <2>1. PICK x : x = Emitted(comp)[i]
    OBVIOUS
  <2>2. rank[x] = i - 1 /\ rank[x] = j - 1
    BY <1>14, <1>18, <2>1
  <2> QED
    BY <2>2
<1>19. \A i \in 1 .. c : \A j \in 1 .. c :
         /\ SortsBefore(Emitted(comp)[i], Emitted(comp)[j]) => j < i
         /\ Emitted(comp)[i] = Emitted(comp)[j] => i = j
  BY <1>17, <1>18
<1> QED
  BY <1>4, <1>5, <1>15, <1>16, <1>19

LEMMA DefinitionsTyped ==
  ASSUME CtxTyped, NEW comp \in SUBSET DOMAIN tys, comp # {}
  PROVE  Definitions(comp) \in Seq({"declare", "define"} \X comp)
<1>1. PICK c : c = Cardinality(comp)
  OBVIOUS
<1>2. PICK nodes : nodes = Emitted(comp)
  OBVIOUS
<1>3. c \in Nat /\ nodes \in [1 .. c -> comp] /\ IsFiniteSet(comp)
  BY <1>1, <1>2, EmittedTyped
<1>4. c # 0
  BY <1>1, <1>3, FS_EmptySet
<1>5. nodes \in Seq(comp) /\ nodes # <<>>
  BY <1>3, <1>4
<1>6. PICK rest : rest = Tail(nodes)
  OBVIOUS
<1>7. rest \in Seq(comp)
  BY <1>5, <1>6
<1>8. PICK E : E = {"declare", "define"} \X comp
  OBVIOUS
<1>9. PICK decls : decls = [n \in DOMAIN rest |-> <<"declare", rest[n]>>]
  OBVIOUS
<1>10. decls \in Seq(E)
  <2>1. PICK k \in Nat : k = Len(rest)
    BY <1>7
  <2>2. DOMAIN rest = 1 .. k /\ \A n \in 1 .. k : rest[n] \in comp
    BY <1>7, <2>1
  <2>3. decls \in [1 .. k -> E]
    BY <1>8, <1>9, <2>2
  <2> QED
    BY <2>3
<1>11. PICK defs : defs = [n \in DOMAIN nodes |-> <<"define", nodes[n]>>]
  OBVIOUS
<1>12. defs \in Seq(E)
  <2>1. defs \in [1 .. c -> E]
    BY <1>3, <1>8, <1>11
  <2> QED
    BY <1>3, <2>1
<1>13. Definitions(comp) = decls \o defs
  BY <1>2, <1>6, <1>9, <1>11 DEF Definitions
<1>14. decls \o defs \in Seq(E)
  BY <1>10, <1>12
<1> QED
  BY <1>8, <1>13, <1>14

-----------------------------------------------------------------------------
(* The invariant of definitions and the toolchains *)

EmitTyped ==
  /\ reachable \in SUBSET DOMAIN tys
  /\ declared \in SUBSET reachable /\ defined \in SUBSET reachable /\ names \in SUBSET reachable
  /\ todo \in Seq({"declare", "define"} \X reachable)
  /\ incomplete \in SUBSET ((DOMAIN tys) \X (DOMAIN tys))

Emitting ==
  /\ phase \in {"typeck", "facts", "graph"} =>
       /\ reachable = {} /\ declared = {} /\ defined = {} /\ names = {} /\ incomplete = {}
       /\ todo = <<>>
  /\ phase = "emit" => AllPunned(tys)
  /\ phase = "emit" \/ result = "ok" => reachable = Needed(tys, args, source.desired)
  /\ result = "ok" => reachable \subseteq defined /\ AllPunned(tys)

EmitInv == FactsInv /\ EmitTyped /\ Emitting

LEMMA EmitNothing ==
  ASSUME reachable' = {}, declared' = {}, defined' = {}, names' = {}, incomplete' = {},
         todo' = <<>>
  PROVE  EmitTyped'
<1>1. PICK e : e = <<>>
  OBVIOUS
<1>2. \A S : e \in Seq(S)
  BY <1>1
<1>3. todo' \in Seq({"declare", "define"} \X reachable')
  BY <1>1, <1>2
<1> QED
  BY <1>3 DEF EmitTyped

LEMMA InitEmit == Init => EmitInv
<1> SUFFICES ASSUME Init PROVE EmitInv
  OBVIOUS
<1>1. EmitTyped
  <2>1. PICK e : e = <<>>
    OBVIOUS
  <2>2. \A S : e \in Seq(S)
    BY <2>1
  <2> QED
    BY <2>1, <2>2 DEF Init, EmitTyped
<1>2. Emitting
  BY DEF Init, Emitting
<1> QED
  BY <1>1, <1>2, InitFacts DEF EmitInv

LEMMA RootsInside ==
  ASSUME CtxTyped, Len(args) = Len(source.funcs)
  PROVE  RootsOf(args, source.desired) \in SUBSET DOMAIN tys
<1>1. ASSUME NEW f \in source.desired PROVE ToSet(args[f]) \subseteq DOMAIN tys
  <2>1. source.desired \subseteq DOMAIN source.funcs /\ source.funcs \in Seq(Seq(WrittenTypes))
    BY ProgramsAssumption DEF CtxTyped
  <2>2. PICK funcs : funcs = source.funcs
    OBVIOUS
  <2>3. PICK S : S = Seq(WrittenTypes)
    OBVIOUS
  <2>4. funcs \in Seq(S) /\ f \in DOMAIN funcs
    BY <2>1, <2>2, <2>3
  <2>5. f \in 1 .. Len(funcs)
    BY <2>4
  <2>6. Len(args) = Len(funcs)
    BY <2>2
  <2>7. PICK Q : Q = Seq(Nat)
    OBVIOUS
  <2>8. args \in Seq(Q)
    BY <2>7 DEF CtxTyped
  <2>9. f \in DOMAIN args
    BY <2>5, <2>6, <2>8
  <2>10. PICK list : list = args[f]
    OBVIOUS
  <2>11. list \in Seq(DOMAIN tys)
    BY <2>9, <2>10 DEF CtxTyped
  <2> QED
    BY <2>10, <2>11 DEF ToSet
<1> QED
  BY <1>1 DEF RootsOf

LEMMA RootsTyped ==
  ASSUME CtxTyped, phase = "graph"
  PROVE  Roots = RootsOf(args, source.desired) /\ Roots \in SUBSET DOMAIN tys
<1>1. Roots = RootsOf(args, source.desired)
  BY DEF Roots, RootsOf
<1>2. Len(args) = Len(source.funcs)
  BY DEF CtxTyped
<1> QED
  BY <1>1, <1>2, RootsInside

LEMMA GraphEmits ==
  ASSUME EmitInv, DefinitionGraph
  PROVE  EmitTyped' /\ Emitting'
<1>1. CtxTyped /\ EmitTyped /\ Emitting
  BY DEF EmitInv, FactsInv
<1>2. /\ phase = "graph" /\ result = "none"
      /\ UNCHANGED <<source, tys, args, todo, declared, defined, names, incomplete>>
      /\ reachable = {} /\ declared = {} /\ defined = {} /\ names = {} /\ incomplete = {}
      /\ todo = <<>>
  BY <1>1 DEF DefinitionGraph, ctxVars, emitVars, CtxTyped, Emitting
<1>3. CASE \E t \in DOMAIN tys : tys[t].kind = "pun" /\ tys[t].real = 0
  <2>1. phase' = "over" /\ result' = "no_pun" /\ reachable' = reachable
    BY <1>3 DEF DefinitionGraph, Ends
  <2> QED
    BY <1>2, <2>1, EmitNothing DEF Emitting
<1>4. CASE ~ \E t \in DOMAIN tys : tys[t].kind = "pun" /\ tys[t].real = 0
  <2>1. phase' = "emit" /\ result' = result /\ reachable' = Reach(Graph, Roots)
    BY <1>4 DEF DefinitionGraph
  <2>2. AllPunned(tys)
    BY <1>4 DEF AllPunned
  <2>3. Reach(Graph, Roots) = Needed(tys, args, source.desired)
    <3>1. Reach(Graph, Roots) = Near(Len(tys), Graph, Roots)[Len(tys)]
      BY ReachIsNear
    <3> QED
      BY <1>1, <1>2, <2>2, <3>1, GraphTyped, RootsTyped DEF Needed
  <2>4. reachable' \in SUBSET DOMAIN tys
    <3>1. Roots \in SUBSET (1 .. Len(tys)) /\ Len(tys) \in Nat
      BY <1>1, <1>2, RootsTyped, SizeTyped
    <3>2. Reach(Graph, Roots) \in SUBSET (1 .. Len(tys))
      BY <1>1, <2>2, <3>1, GraphTyped, ReachLeast
    <3> QED
      BY <1>1, <2>1, <3>2, SizeTyped
  <2>5. todo' \in Seq({"declare", "define"} \X reachable')
    <3>1. PICK e : e = <<>>
      OBVIOUS
    <3>2. \A S : e \in Seq(S)
      BY <3>1
    <3> QED
      BY <1>2, <3>1, <3>2
  <2>6. EmitTyped'
    BY <1>2, <2>4, <2>5 DEF EmitTyped
  <2>7. Emitting'
    BY <1>2, <2>1, <2>2, <2>3 DEF Emitting
  <2> QED
    BY <2>6, <2>7
<1> QED
  BY <1>3, <1>4

(* A component of a reachable type is reachable. *)
LEMMA ComponentTyped ==
  ASSUME EmitInv, phase = "emit", NEW t \in reachable
  PROVE  t \in Component(t) /\ Component(t) \in SUBSET reachable
<1>1. CtxTyped /\ EmitTyped /\ Emitting
  BY DEF EmitInv, FactsInv
<1>2. AllPunned(tys) /\ t \in DOMAIN tys
  BY <1>1 DEF EmitTyped, Emitting
<1>3. Len(tys) \in Nat /\ DOMAIN tys = 1 .. Len(tys)
  BY <1>1, SizeTyped
<1>4. Graph = Linked(tys) /\ Graph \in [1 .. Len(tys) -> SUBSET (1 .. Len(tys))]
  BY <1>1, <1>2, GraphTyped
<1>5. /\ t \in Reach(Graph, {t})
      /\ \A C \in SUBSET (1 .. Len(tys)) : t \in C /\ ClosedUnder(Graph, C)
           => Reach(Graph, {t}) \subseteq C
  <2>1. {t} \in SUBSET (1 .. Len(tys))
    BY <1>2, <1>3
  <2> QED
    BY <1>3, <1>4, <2>1, ReachLeast
<1>6. ClosedUnder(Graph, reachable)
  <2>1. PICK S : S = RootsOf(args, source.desired)
    OBVIOUS
  <2>2. reachable = Reach(Graph, S)
    <3>1. reachable = Near(Len(tys), Linked(tys), S)[Len(tys)]
      BY <1>1, <2>1 DEF Emitting, Needed
    <3> QED
      BY <1>4, <3>1, ReachIsNear
  <2>3. S \in SUBSET (1 .. Len(tys))
    <3>1. Len(args) = Len(source.funcs)
      BY <1>1 DEF CtxTyped
    <3> QED
      BY <1>1, <1>3, <2>1, <3>1, RootsInside
  <2> QED
    BY <1>3, <1>4, <2>2, <2>3, ReachLeast
<1>7. reachable \in SUBSET (1 .. Len(tys))
  BY <1>1, <1>3 DEF EmitTyped
<1>8. Reach(Graph, {t}) \subseteq reachable
  BY <1>5, <1>6, <1>7
<1> QED
  BY <1>5, <1>8 DEF Component

LEMMA ComponentEmits ==
  ASSUME EmitInv, NextComponent
  PROVE  EmitTyped' /\ Emitting'
<1>1. CtxTyped /\ EmitTyped /\ Emitting
  BY DEF EmitInv, FactsInv
<1>2. /\ phase = "emit"
      /\ UNCHANGED <<source, phase, result, tys, args,
                     reachable, declared, defined, names, incomplete>>
  BY DEF NextComponent, ctxVars
<1>3. PICK t \in reachable \ defined : todo' = Definitions(Component(t))
  BY DEF NextComponent
<1>4. t \in Component(t) /\ Component(t) \in SUBSET reachable
  BY <1>2, ComponentTyped
<1>5. PICK comp : comp = Component(t)
  OBVIOUS
<1>6. comp \in SUBSET DOMAIN tys /\ comp # {} /\ comp \in SUBSET reachable
  BY <1>1, <1>4, <1>5 DEF EmitTyped
<1>7. todo' \in Seq({"declare", "define"} \X comp)
  BY <1>1, <1>3, <1>5, <1>6, DefinitionsTyped
<1>8. todo' \in Seq({"declare", "define"} \X reachable)
  <2>1. PICK E : E = {"declare", "define"} \X comp
    OBVIOUS
  <2>2. PICK F : F = {"declare", "define"} \X reachable
    OBVIOUS
  <2>3. E \subseteq F
    BY <1>6, <2>1, <2>2
  <2>4. todo' \in Seq(E)
    BY <1>7, <2>1
  <2>5. todo' \in Seq(F)
    BY <2>3, <2>4
  <2> QED
    BY <2>2, <2>5
<1>9. EmitTyped'
  BY <1>1, <1>2, <1>8 DEF EmitTyped
<1>10. Emitting'
  BY <1>1, <1>2 DEF Emitting
<1> QED
  BY <1>9, <1>10

LEMMA DefinitionEmits ==
  ASSUME EmitInv, EmitDefinition
  PROVE  EmitTyped' /\ Emitting'
<1>1. CtxTyped /\ EmitTyped /\ Emitting
  BY DEF EmitInv, FactsInv
<1>2. /\ phase = "emit" /\ todo # <<>> /\ result = "none"
      /\ UNCHANGED <<source, tys, args, reachable>>
  BY <1>1 DEF EmitDefinition, ctxVars, CtxTyped
<1>3. PICK op : op = Head(todo)[1]
  OBVIOUS
<1>4. PICK t : t = Head(todo)[2]
  OBVIOUS
<1>5. PICK F : F = {"declare", "define"} \X reachable
  OBVIOUS
<1>6. todo \in Seq(F)
  BY <1>1, <1>5 DEF EmitTyped
<1>7. t \in reachable /\ t \in DOMAIN tys
  <2>1. Head(todo) \in F
    BY <1>2, <1>6
  <2> QED
    BY <1>1, <1>4, <1>5, <2>1 DEF EmitTyped
<1>8. AllPunned(tys)
  BY <1>1, <1>2 DEF Emitting
<1>9. CASE (Ends("unsupported") \/ Ends("panic")) /\ UNCHANGED emitVars
  <2>1. UNCHANGED <<todo, declared, defined, names, incomplete>>
    BY <1>9 DEF emitVars
  <2>2. EmitTyped'
    BY <1>1, <1>2, <2>1 DEF EmitTyped
  <2>3. Emitting'
    BY <1>9 DEF Emitting, Ends
  <2> QED
    BY <2>2, <2>3
<1>10. CASE /\ names' = names \cup {t}
            /\ declared' = IF op = "declare" THEN declared \cup {t} ELSE declared
            /\ defined' = IF op = "define" THEN defined \cup {t} ELSE defined
            /\ incomplete' =
                 IF lang = "c" /\ op = "define" /\ tys[t].kind \in {"struct", "union"}
                 THEN LET sized == UNION {Sized(p) : p \in ToSet(tys[t].parts)}
                      IN  incomplete \cup {<<t, u>> : u \in sized \ defined}
                 ELSE incomplete
            /\ todo' = Tail(todo)
            /\ UNCHANGED <<phase, result>>
  <2>1. todo' \in Seq(F)
    BY <1>2, <1>6, <1>10
  <2>2. incomplete' \in SUBSET ((DOMAIN tys) \X (DOMAIN tys))
    <3>1. PICK sized : sized = UNION {Sized(p) : p \in ToSet(tys[t].parts)}
      OBVIOUS
    <3>2. \A p \in ToSet(tys[t].parts) : Sized(p) \in SUBSET DOMAIN tys
      BY <1>1, <1>7, <1>8, PartsTyped, SizedTyped
    <3>3. sized \in SUBSET DOMAIN tys
      BY <3>1, <3>2
    <3>4. incomplete \in SUBSET ((DOMAIN tys) \X (DOMAIN tys))
      BY <1>1 DEF EmitTyped
    <3>5. PICK more : more = {<<t, u>> : u \in sized \ defined}
      OBVIOUS
    <3>6. incomplete' = incomplete \/ incomplete' = incomplete \cup more
      BY <1>10, <3>1, <3>5
    <3>7. more \subseteq (DOMAIN tys) \X (DOMAIN tys)
      <4>1. ASSUME NEW x \in more
            PROVE  x \in (DOMAIN tys) \X (DOMAIN tys)
        <5>1. PICK u \in sized : x = <<t, u>>
          BY <3>5
        <5>2. t \in DOMAIN tys /\ u \in DOMAIN tys
          BY <1>7, <3>3
        <5> QED
          BY <5>1, <5>2
      <4> QED
        BY <4>1
    <3>8. PICK P : P = (DOMAIN tys) \X (DOMAIN tys)
      OBVIOUS
    <3>9. incomplete \subseteq P /\ more \subseteq P
      BY <3>4, <3>7, <3>8
    <3>10. incomplete' \in SUBSET P
      BY <3>6, <3>9
    <3>11. DOMAIN tys' = DOMAIN tys
      BY <1>2
    <3> QED
      BY <3>8, <3>10
  <2>3. EmitTyped'
    <3>1. /\ declared' \in SUBSET reachable /\ defined' \in SUBSET reachable
          /\ names' \in SUBSET reachable
      BY <1>1, <1>7, <1>10 DEF EmitTyped
    <3> QED
      BY <1>1, <1>2, <1>5, <2>1, <2>2, <3>1 DEF EmitTyped
  <2>4. Emitting'
    BY <1>1, <1>2, <1>10 DEF Emitting
  <2> QED
    BY <2>3, <2>4
<1>11. \/ Ends("unsupported") /\ UNCHANGED emitVars
       \/ Ends("panic") /\ UNCHANGED emitVars
       \/ /\ names' = names \cup {t}
          /\ declared' = IF op = "declare" THEN declared \cup {t} ELSE declared
          /\ defined' = IF op = "define" THEN defined \cup {t} ELSE defined
          /\ incomplete' =
               IF lang = "c" /\ op = "define" /\ tys[t].kind \in {"struct", "union"}
               THEN LET sized == UNION {Sized(p) : p \in ToSet(tys[t].parts)}
                    IN  incomplete \cup {<<t, u>> : u \in sized \ defined}
               ELSE incomplete
          /\ todo' = Tail(todo)
          /\ UNCHANGED <<phase, result>>
  BY <1>3, <1>4, Zenon DEF EmitDefinition
<1> QED
  BY <1>9, <1>10, <1>11

LEMMA NextEmit == EmitInv /\ [Next]_vars => EmitInv'
<1> SUFFICES ASSUME EmitInv, [Next]_vars PROVE EmitInv'
  OBVIOUS
<1>1. CtxTyped /\ EmitTyped /\ Emitting /\ FactsInv
  BY DEF EmitInv, FactsInv
<1>2. FactsInv'
  BY <1>1, NextFacts
<1>3. SUFFICES EmitTyped' /\ Emitting'
  BY <1>2 DEF EmitInv
<1>4. phase # "over" => result = "none"
  BY <1>1 DEF CtxTyped
<1>5. ASSUME phase \in {"typeck", "facts"}, phase' \in {"typeck", "facts", "graph", "over"},
             result' # "ok",
             UNCHANGED <<reachable, todo, declared, defined, names, incomplete>>
      PROVE  EmitTyped' /\ Emitting'
  <2>1. /\ reachable = {} /\ declared = {} /\ defined = {} /\ names = {} /\ incomplete = {}
        /\ todo = <<>>
    BY <1>1, <1>5 DEF Emitting
  <2>2. EmitTyped'
    BY <1>5, <2>1, EmitNothing
  <2>3. Emitting'
    BY <1>5, <2>1 DEF Emitting
  <2> QED
    BY <2>2, <2>3
<1>6. CASE Typeck
  <2>1. /\ phase = "typeck"
        /\ UNCHANGED <<reachable, todo, declared, defined, names, incomplete>>
    BY <1>6 DEF Typeck, emitVars
  <2>2. /\ phase' \in {"facts", "over"} /\ result' \in {result, "undefined"}
    BY <1>1, <1>6, TypeckTyped DEF Ends
  <2> QED
    BY <1>4, <1>5, <2>1, <2>2
<1>7. CASE ComputeFact
  <2>1. /\ phase = "facts"
        /\ UNCHANGED <<reachable, todo, declared, defined, names, incomplete>>
        /\ Ends("infinite") \/ UNCHANGED <<phase, result>>
    BY <1>7, Zenon DEF ComputeFact, emitVars
  <2> QED
    BY <1>4, <1>5, <2>1 DEF Ends
<1>8. CASE FactsDone
  BY <1>4, <1>5, <1>8 DEF FactsDone, emitVars
<1>9. CASE DefinitionGraph
  BY <1>9, GraphEmits
<1>10. CASE NextComponent
  BY <1>10, ComponentEmits
<1>11. CASE EmitDefinition
  BY <1>11, DefinitionEmits
<1>12. CASE GenerateFunctions
  <2>1. /\ phase = "emit" /\ phase' = "over" /\ reachable \subseteq defined
        /\ UNCHANGED <<source, tys, args, reachable, todo, declared, defined, names, incomplete>>
    BY <1>12 DEF GenerateFunctions, Ends, ctxVars, emitVars
  <2>2. EmitTyped'
    BY <1>1, <2>1 DEF EmitTyped
  <2>3. Emitting'
    BY <1>1, <2>1 DEF Emitting
  <2> QED
    BY <2>2, <2>3
<1>13. CASE UNCHANGED vars
  <2>1. UNCHANGED <<source, phase, result, tys, args, reachable, todo, declared, defined, names,
                    incomplete>>
    BY <1>13 DEF vars, ctxVars, emitVars
  <2> QED
    BY <1>1, <2>1 DEF EmitTyped, Emitting
<1> QED
  BY <1>6, <1>7, <1>8, <1>9, <1>10, <1>11, <1>12, <1>13 DEF Next, Over

(* The definitions that are emitted are of types that the desired          *)
(* functions need, and at the end of all of them.                          *)
THEOREM EmitInvariant == Spec => []EmitInv
<1> QED
  BY InitEmit, NextEmit, PTL DEF Spec

(* Every index that typeck, compute_ty_facts and the generators keep is    *)
(* the index of a type that is in the table and has been completed.        *)
THEOREM TypesTypeCorrect == Spec => []TypeOK
<1>1. ASSUME EmitInv PROVE TypeOK
  <2>1. CtxTyped /\ FactsTyped /\ EmitTyped
    BY <1>1 DEF EmitInv, FactsInv
  <2>2. ASSUME NEW t \in Idxs
        PROVE  /\ tys[t].kind \in Nominals \cup {"prim", "empty", "array", "ref"}
               /\ tys[t].parts \in Seq(Idxs)
               /\ tys[t].real \in Idxs \cup {0}
    <3>1. tys \in Tables(0, {}, {})
      BY <2>1 DEF CtxTyped
    <3>2. /\ tys[t] \in AnyTy /\ tys[t].parts \in Seq(DOMAIN tys)
          /\ tys[t].real \in DOMAIN tys \cup {0}
      BY <3>1, TableFacts DEF Idxs
    <3>3. tys[t].kind \in Kinds
      BY <3>2 DEF AnyTy
    <3>4. tys[t].kind # "incomplete"
      <4>1. Unfilled(tys) = {}
        BY <3>1 DEF Tables
      <4> QED
        BY <4>1 DEF Unfilled, Idxs
    <3> QED
      BY <3>2, <3>3, <3>4 DEF Idxs, Kinds
  <2>3. todo \in Seq({"declare", "define"} \X Idxs)
    <3>1. PICK E : E = {"declare", "define"} \X reachable
      OBVIOUS
    <3>2. PICK F : F = {"declare", "define"} \X Idxs
      OBVIOUS
    <3>3. E \subseteq F
      BY <2>1, <3>1, <3>2 DEF EmitTyped, Idxs
    <3>4. todo \in Seq(E)
      BY <2>1, <3>1 DEF EmitTyped
    <3>5. todo \in Seq(F)
      BY <3>3, <3>4
    <3> QED
      BY <3>2, <3>5
  <2>4. \A f \in DOMAIN args : args[f] \in Seq(Idxs)
    BY <2>1 DEF CtxTyped, Idxs
  <2>5. /\ to_compute \in Seq(Idxs)
        /\ visited \cup known \cup refs \cup reachable \cup declared \cup defined \cup names
             \subseteq Idxs
        /\ incomplete \subseteq Idxs \X Idxs
    <3>1. to_compute \in Seq(Idxs)
      BY <2>1 DEF FactsTyped, Idxs
    <3>2. visited \subseteq Idxs /\ known \subseteq Idxs /\ refs \subseteq Idxs
      BY <2>1 DEF FactsTyped, Idxs
    <3>3. /\ reachable \subseteq Idxs /\ declared \subseteq Idxs /\ defined \subseteq Idxs
          /\ names \subseteq Idxs
      BY <2>1 DEF EmitTyped, Idxs
    <3>4. incomplete \subseteq Idxs \X Idxs
      <4>1. incomplete \subseteq (DOMAIN tys) \X (DOMAIN tys)
        BY <2>1 DEF EmitTyped
      <4> QED
        BY <4>1 DEF Idxs
    <3> QED
      BY <3>1, <3>2, <3>3, <3>4
  <2>6. /\ source \in Programs /\ lang \in Langs
        /\ phase \in {"typeck", "facts", "graph", "emit", "over"}
        /\ result \in {"none", "undefined", "infinite", "no_pun", "unsupported", "panic", "ok"}
    BY <2>1 DEF CtxTyped
  <2> QED
    BY <2>2, <2>3, <2>4, <2>5, <2>6 DEF TypeOK
<1> QED
  BY <1>1, EmitInvariant, PTL

(* Code that is generated for some functions of a program defines exactly  *)
(* the types that these functions mention, directly or not.                *)
THEOREM SubsetsAreClosed == Spec => []SubsetIsClosed
<1>1. ASSUME EmitInv, result = "ok"
      PROVE  defined = Reach(Needs, UNION {ToSet(args[f]) : f \in source.desired})
  <2>1. EmitTyped /\ Emitting
    BY <1>1 DEF EmitInv
  <2>2. defined = reachable
    BY <1>1, <2>1 DEF EmitTyped, Emitting
  <2>3. Needs = Linked(tys)
    <3>1. ASSUME NEW t \in DOMAIN tys
          PROVE  NamedAfter(t) \cup Mentions("define", t) = Linked(tys)[t]
      BY DEF NamedAfter, Mentions, Linked
    <3>2. Needs = [t \in DOMAIN tys |-> NamedAfter(t) \cup Mentions("define", t)]
      BY DEF Needs, Idxs
    <3>3. Linked(tys) = [t \in DOMAIN tys |-> Linked(tys)[t]]
      BY DEF Linked
    <3> QED
      BY <3>1, <3>2, <3>3
  <2>4. reachable = Near(Len(tys), Linked(tys), RootsOf(args, source.desired))[Len(tys)]
    BY <1>1, <2>1 DEF Emitting, Needed
  <2>5. PICK S : S = RootsOf(args, source.desired)
    OBVIOUS
  <2>6. reachable = Reach(Needs, S)
    BY <2>3, <2>4, <2>5, ReachIsNear
  <2>7. S = UNION {ToSet(args[f]) : f \in source.desired}
    BY <2>5 DEF RootsOf
  <2> QED
    BY <2>2, <2>6, <2>7
<1>2. EmitInv => SubsetIsClosed
  BY <1>1 DEF SubsetIsClosed
<1> QED
  BY <1>2, EmitInvariant, PTL

-----------------------------------------------------------------------------
(* The names *)

(* What the types and the names are given for: the definitions of Types as *)
(* functions of the table, the language and the names that there are.      *)
BuiltFrom(ts, t) ==
  CASE ts[t].kind \in {"array", "ref"} -> ToSet(ts[t].parts)
    [] ts[t].kind = "pun" -> {ts[t].real}
    [] OTHER -> {}
Says(ts, lg, op, t) ==
  IF \/ op = "define" /\ ts[t].kind \in {"struct", "union", "tagged", "alias"}
     \/ op = "declare" /\ ts[t].kind = "alias" /\ lg = "c"
  THEN ToSet(ts[t].parts) ELSE {}
Found(ts, lg, op, t, had) ==
  /\ t \in had \/ BuiltFrom(ts, t) \subseteq had
  /\ Says(ts, lg, op, t) \subseteq had \cup {t}

LinkedFrom(ts, S) == Near(Len(ts), Linked(ts), S)[Len(ts)]
Cycle(ts, t) == {u \in LinkedFrom(ts, {t}) : t \in LinkedFrom(ts, {u})}
Tangle(ts, lg, comp) ==
  /\ Cardinality(comp) > 1
  /\ \/ Cardinality({t \in comp : ts[t].kind \notin Nominals}) > 1
     \/ lg = "c" /\ \E t \in comp : ts[t].kind = "alias"
Untangled(ts, lg, rs) == \A t \in rs : ~Tangle(ts, lg, Cycle(ts, t))

LEMMA FoundIs ==
  ASSUME NEW op, NEW t
  PROVE  LookupFails(op, t) <=> ~Found(tys, lang, op, t, names)
<1>1. NamedAfter(t) = BuiltFrom(tys, t)
  BY DEF NamedAfter, BuiltFrom
<1>2. Mentions(op, t) = Says(tys, lang, op, t)
  BY DEF Mentions, Says
<1> QED
  BY <1>1, <1>2 DEF LookupFails, Found

LEMMA TangleIs ==
  ASSUME CtxTyped, AllPunned(tys), NEW t
  PROVE  /\ Component(t) = Cycle(tys, t)
         /\ Tangled(Component(t)) <=> Tangle(tys, lang, Cycle(tys, t))
<1>1. ASSUME NEW S PROVE Reach(Graph, S) = LinkedFrom(tys, S)
  BY GraphTyped, ReachIsNear DEF LinkedFrom
<1>2. Component(t) = Cycle(tys, t)
  BY <1>1 DEF Component, Cycle
<1>3. PICK comp : comp = Component(t)
  OBVIOUS
<1>4. {u \in comp : ~IsNominal(u)} = {u \in comp : tys[u].kind \notin Nominals}
  BY DEF IsNominal
<1>5. Tangled(comp) <=> Tangle(tys, lang, comp)
  BY <1>4 DEF Tangled, Tangle
<1> QED
  BY <1>2, <1>3, <1>5

LEMMA TypeFits ==
  ASSUME CtxTyped, NEW t \in DOMAIN tys
  PROVE  /\ tys[t].kind \in {"ref", "array"} => t \notin ToSet(tys[t].parts)
         /\ tys[t].kind = "pun" /\ tys[t].real # 0 =>
              /\ IsNominal(tys[t].real) /\ t < tys[t].real
              /\ tys[t].real \in ToSet(tys[t].parts)
<1>1. tys \in Tables(0, {}, {})
  BY DEF CtxTyped
<1>2. Fits(tys, t, tys[t]) /\ Unfilled(tys) = {}
  BY <1>1 DEF Tables, Closed
<1>3. \A u \in Slots(tys) : IsNominal(u)
  BY <1>2 DEF Unfilled, Slots, IsNominal
<1> QED
  BY <1>2, <1>3 DEF Fits

LEMMA AtMostOne ==
  ASSUME NEW S, IsFiniteSet(S), ~(Cardinality(S) > 1), NEW x \in S, NEW y \in S
  PROVE  x = y
<1> SUFFICES ASSUME x # y PROVE FALSE
  OBVIOUS
<1>1. {x} \in SUBSET S /\ {x} # S
  OBVIOUS
<1>2. Cardinality({x}) = 1
  BY FS_Singleton
<1>3. Cardinality({x}) <= Cardinality(S) /\ Cardinality({x}) # Cardinality(S)
  BY <1>1, FS_Subset
<1>4. Cardinality(S) \in Nat
  BY FS_CardinalityType
<1> QED
  BY <1>2, <1>3, <1>4

(* Types that need each other cannot do so by value only: the facts would  *)
(* have found a type that holds itself.                                    *)
LEMMA CycleHasRef ==
  ASSUME FactsInv, AllPunned(tys), known = DOMAIN tys, NEW t \in DOMAIN tys,
         NEW u \in Component(t), u # t
  PROVE  \E r \in Component(t) : tys[r].kind = "ref"
<1> SUFFICES ASSUME \A r \in Component(t) : tys[r].kind # "ref" PROVE FALSE
  OBVIOUS
<1>1. /\ CtxTyped /\ tys \in Tables(0, {}, {}) /\ NoneHoldsItself(tys, known)
      /\ Len(tys) \in Nat /\ DOMAIN tys = 1 .. Len(tys)
  BY SizeTyped DEF FactsInv, Exact
<1>2. PICK T : T = DOMAIN tys
  OBVIOUS
<1>3. PICK H : H = Held(tys)
  OBVIOUS
<1>4. PICK D : D = From(tys, H[t])
  OBVIOUS
<1>5. /\ t \in T /\ t \notin D /\ D \in SUBSET T /\ H[t] \subseteq D
      /\ \A x \in D : H[x] \subseteq D
  <2>1. H[t] \in SUBSET DOMAIN tys
    BY <1>1, <1>3, HeldTyped
  <2> QED
    BY <1>1, <1>2, <1>3, <1>4, <2>1, FromLeast DEF NoneHoldsItself, ClosedUnder
<1>6. PICK R : R = [x \in T |-> Reach(Graph, {x})]
  OBVIOUS
<1>7. \A x \in T : Edges(x) \in SUBSET T
  BY <1>1, <1>2, GraphTyped DEF Graph
<1>8. ASSUME NEW x \in T
      PROVE  /\ x \in R[x] /\ R[x] \in SUBSET T /\ \A y \in R[x] : Edges(y) \subseteq R[x]
             /\ \A C \in SUBSET T : x \in C /\ (\A y \in C : Edges(y) \subseteq C) => R[x] \subseteq C
  <2>1. {x} \in SUBSET (1 .. Len(tys)) /\ Graph \in [1 .. Len(tys) -> SUBSET (1 .. Len(tys))]
    BY <1>1, <1>2, GraphTyped
  <2>2. PICK G : G = Graph
    OBVIOUS
  <2>3. \A y \in T : G[y] = Edges(y)
    BY <1>2, <2>2 DEF Graph
  <2>4. /\ {x} \subseteq R[x] /\ R[x] \in SUBSET T /\ ClosedUnder(G, R[x])
        /\ \A C \in SUBSET T : {x} \subseteq C /\ ClosedUnder(G, C) => R[x] \subseteq C
    BY <1>1, <1>2, <1>6, <2>1, <2>2, ReachLeast
  <2> QED
    BY <2>3, <2>4 DEF ClosedUnder
<1>9. ASSUME NEW v \in T PROVE v \in Component(t) <=> v \in R[t] /\ t \in R[v]
  BY <1>2, <1>6, <1>9 DEF Component
<1>10. ASSUME NEW v \in Component(t) PROVE v \in T /\ Edges(v) \subseteq H[v]
  <2>1. v \in T
    <3>1. v \in R[t]
      BY <1>5, <1>6 DEF Component
    <3> QED
      BY <1>5, <1>8, <3>1
  <2>2. H[v] = IF tys[v].kind \in Aggregates THEN ToSet(tys[v].parts) ELSE {}
    BY <1>2, <1>3, <2>1 DEF Held
  <2>3. tys[v].kind = "pun" => tys[v].real \in ToSet(tys[v].parts)
    BY <1>1, <1>2, <2>1, TypeFits DEF AllPunned
  <2>4. tys[v].kind # "ref"
    OBVIOUS
  <2> QED
    BY <2>1, <2>2, <2>3, <2>4 DEF Edges, Aggregates
<1>11. ASSUME NEW v \in T, NEW w \in Edges(v), t \notin R[v] PROVE t \notin R[w]
  <2>1. w \in T /\ w \in R[v]
    BY <1>7, <1>8, <1>11
  <2>2. R[w] \subseteq R[v]
    BY <1>8, <2>1
  <2> QED
    BY <1>11, <2>2
<1>12. ASSUME NEW v \in R[t], v = t \/ v \in D \/ t \notin R[v], NEW w \in Edges(v)
       PROVE  w \in R[t] /\ (w \in D \/ t \notin R[w])
  <2>1. v \in T /\ w \in R[t]
    BY <1>5, <1>8, <1>12
  <2>2. CASE t \notin R[v]
    BY <1>11, <1>12, <2>1, <2>2
  <2>3. CASE t \in R[v]
    <3>1. v \in Component(t)
      BY <1>9, <1>12, <2>1, <2>3
    <3>2. w \in H[v]
      BY <1>10, <1>12, <3>1
    <3> QED
      BY <1>5, <1>12, <2>1, <2>3, <3>2
  <2> QED
    BY <2>2, <2>3
<1>13. u \in R[t] /\ u \in T /\ t \in R[u]
  BY <1>9, <1>10
<1>14. u \in D
  <2>1. PICK C : C = {v \in R[t] : v = t \/ v \in D \/ t \notin R[v]}
    OBVIOUS
  <2>2. C \in SUBSET T /\ t \in C
    BY <1>5, <1>8, <2>1
  <2>3. \A v \in C : Edges(v) \subseteq C
    BY <1>12, <2>1
  <2>4. R[t] \subseteq C
    BY <1>5, <1>8, <2>2, <2>3
  <2> QED
    BY <1>13, <2>1, <2>4
<1>15. t \in D
  <2>1. PICK C : C = {v \in R[t] : v \in D \/ t \notin R[v]}
    OBVIOUS
  <2>2. C \in SUBSET T /\ u \in C
    BY <1>5, <1>8, <1>13, <1>14, <2>1
  <2>3. \A v \in C : Edges(v) \subseteq C
    BY <1>12, <2>1
  <2>4. R[u] \subseteq C
    BY <1>8, <1>13, <2>2, <2>3
  <2>5. t \in R[t]
    BY <1>5, <1>8
  <2> QED
    BY <1>13, <2>1, <2>4, <2>5
<1> QED
  BY <1>5, <1>15

(* A list of definitions has every name when it is looked up, if it starts *)
(* with the names of had.                                                  *)
Named(list, had, i) == had \cup {list[j][2] : j \in 1 .. i - 1}
Ready(ts, lg, list, had) ==
  \A i \in DOMAIN list : Found(ts, lg, list[i][1], list[i][2], Named(list, had, i))

InOrder(comp, c, nodes, list) ==
  /\ c \in Nat \ {0} /\ nodes \in [1 .. c -> comp]
  /\ \A u \in comp : \E i \in 1 .. c : nodes[i] = u
  /\ DOMAIN list = 1 .. c - 1 + c
  /\ \A i \in 1 .. c - 1 : list[i] = <<"declare", nodes[i + 1]>>
  /\ \A i \in 1 .. c : list[c - 1 + i] = <<"define", nodes[i]>>

(* The first one, which is not declared, is built from others, and the     *)
(* declarations need no name before it is there.                           *)
EarlierNames(ts, lg, comp, had, c, nodes) ==
  /\ \A i \in 2 .. c : /\ BuiltFrom(ts, nodes[i]) \subseteq had \cup {nodes[j] : j \in 2 .. i - 1}
                       /\ Says(ts, lg, "declare", nodes[i]) \subseteq had
  /\ \A u \in comp : /\ BuiltFrom(ts, u) \subseteq (comp \ {u}) \cup had
                      /\ Says(ts, lg, "define", u) \subseteq comp \cup had

LEMMA DefinitionsAre ==
  ASSUME CtxTyped, NEW comp \in SUBSET DOMAIN tys, comp # {},
         NEW c, c = Cardinality(comp), NEW nodes, nodes = Emitted(comp),
         NEW list, list = Definitions(comp)
  PROVE  InOrder(comp, c, nodes, list)
<1>1. c \in Nat /\ nodes \in [1 .. c -> comp] /\ IsFiniteSet(comp)
  BY EmittedTyped
<1>2. c # 0
  BY <1>1, FS_EmptySet
<1>3. nodes \in Seq(comp) /\ nodes # <<>> /\ Len(nodes) = c
  BY <1>1, <1>2
<1>4. PICK rest : rest = Tail(nodes)
  OBVIOUS
<1>5. /\ rest \in Seq(comp) /\ Len(rest) = c - 1 /\ DOMAIN rest = 1 .. c - 1
      /\ \A i \in 1 .. c - 1 : rest[i] = nodes[i + 1]
  BY <1>1, <1>2, <1>3, <1>4
<1>6. PICK decls : decls = [i \in DOMAIN rest |-> <<"declare", rest[i]>>]
  OBVIOUS
<1>7. PICK defs : defs = [i \in DOMAIN nodes |-> <<"define", nodes[i]>>]
  OBVIOUS
<1>8. PICK E : E = {"declare", "define"} \X comp
  OBVIOUS
<1>9. PICK d \in Nat : d = c - 1
  BY <1>1, <1>2
<1>10. decls \in Seq(E) /\ Len(decls) = d
  <2>1. decls \in [1 .. d -> E]
    BY <1>5, <1>6, <1>8, <1>9
  <2> QED
    BY <1>9, <2>1
<1>11. defs \in Seq(E) /\ Len(defs) = c
  <2>1. defs \in [1 .. c -> E]
    BY <1>1, <1>7, <1>8
  <2> QED
    BY <1>1, <2>1
<1>12. list = decls \o defs
  BY <1>4, <1>6, <1>7 DEF Definitions
<1>13. /\ Len(list) = d + c
       /\ \A i \in 1 .. d : list[i] = decls[i]
       /\ \A i \in 1 .. c : list[d + i] = defs[i]
       /\ DOMAIN list = 1 .. d + c
  <2>1. PICK all : all = decls \o defs
    OBVIOUS
  <2>2. /\ Len(all) = Len(decls) + Len(defs) /\ DOMAIN all = 1 .. Len(decls) + Len(defs)
        /\ \A i \in 1 .. Len(decls) : all[i] = decls[i]
        /\ \A i \in 1 .. Len(defs) : all[Len(decls) + i] = defs[i]
    <3>1. decls \in Seq(E) /\ defs \in Seq(E)
      BY <1>10, <1>11
    <3>2. /\ Len(decls \o defs) = Len(decls) + Len(defs)
          /\ DOMAIN (decls \o defs) = 1 .. Len(decls) + Len(defs)
      BY <3>1, PushFacts
    <3>3. \A i \in 1 .. Len(decls) : (decls \o defs)[i] = decls[i]
      BY <3>1, PushFacts
    <3>4. \A i \in 1 .. Len(defs) : (decls \o defs)[Len(decls) + i] = defs[i]
      BY <3>1, PushFacts
    <3> QED
      BY <2>1, <3>2, <3>3, <3>4
  <2> QED
    BY <1>10, <1>11, <1>12, <2>1, <2>2
<1>14. \A i \in 1 .. d : decls[i] = <<"declare", nodes[i + 1]>>
  BY <1>5, <1>6, <1>9
<1>15. \A i \in 1 .. c : defs[i] = <<"define", nodes[i]>>
  BY <1>1, <1>7
<1>16. \A u \in comp : \E i \in 1 .. c : nodes[i] = u
  BY EmittedTyped
<1>17. \A i \in 1 .. c - 1 : list[i] = <<"declare", nodes[i + 1]>>
  BY <1>9, <1>13, <1>14
<1>18. \A i \in 1 .. c : list[c - 1 + i] = <<"define", nodes[i]>>
  BY <1>9, <1>13, <1>15
<1>19. DOMAIN list = 1 .. c - 1 + c /\ c \in Nat \ {0}
  BY <1>1, <1>2, <1>9, <1>13
<1> QED
  BY <1>1, <1>16, <1>17, <1>18, <1>19 DEF InOrder

LEMMA OrderIsReady ==
  ASSUME NEW ts, NEW lg, NEW comp, NEW had, NEW c, NEW nodes, NEW list,
         InOrder(comp, c, nodes, list), EarlierNames(ts, lg, comp, had, c, nodes)
  PROVE  Ready(ts, lg, list, had)
<1> USE DEF InOrder, EarlierNames
<1>1. ASSUME NEW k \in 1 .. c - 1
      PROVE  Found(ts, lg, list[k][1], list[k][2], Named(list, had, k))
  <2>1. PICK i \in 2 .. c : i = k + 1
    BY <1>1
  <2>2. list[k] = <<"declare", nodes[i]>>
    BY <2>1
  <2>3. list[k][1] = "declare" /\ list[k][2] = nodes[i]
    BY <2>2
  <2>4. had \subseteq Named(list, had, k)
    BY DEF Named
  <2>5. ASSUME NEW j \in 2 .. i - 1 PROVE nodes[j] \in Named(list, had, k)
    <3>1. PICK l \in 1 .. k - 1 : l + 1 = j
      <4>1. j - 1 \in 1 .. k - 1 /\ (j - 1) + 1 = j
        BY <2>1, <2>5
      <4> QED
        BY <4>1
    <3>2. list[l] = <<"declare", nodes[j]>>
      BY <3>1
    <3>3. list[l][2] = nodes[j]
      BY <3>2
    <3> QED
      BY <3>1, <3>3 DEF Named
  <2>6. BuiltFrom(ts, nodes[i]) \subseteq Named(list, had, k)
    BY <2>4, <2>5
  <2>7. Says(ts, lg, "declare", nodes[i]) \subseteq Named(list, had, k)
    BY <2>4
  <2> QED
    BY <2>3, <2>6, <2>7 DEF Found
<1>2. ASSUME NEW k \in c .. c - 1 + c
      PROVE  Found(ts, lg, list[k][1], list[k][2], Named(list, had, k))
  <2>1. PICK i \in 1 .. c : c - 1 + i = k
    <3>1. k - c + 1 \in 1 .. c /\ c - 1 + (k - c + 1) = k
      OBVIOUS
    <3> QED
      BY <3>1
  <2>2. list[k] = <<"define", nodes[i]>>
    BY <2>1
  <2>3. list[k][1] = "define" /\ list[k][2] = nodes[i]
    BY <2>2
  <2>4. PICK now : now = Named(list, had, k)
    OBVIOUS
  <2>5. had \subseteq now
    BY <2>4 DEF Named
  <2>6. ASSUME NEW j \in 2 .. c PROVE nodes[j] \in now
    <3>1. PICK l \in 1 .. c - 1 : l + 1 = j
      <4>1. j - 1 \in 1 .. c - 1 /\ (j - 1) + 1 = j
        BY <2>6
      <4> QED
        BY <4>1
    <3>2. list[l] = <<"declare", nodes[j]>>
      BY <3>1
    <3>3. list[l][2] = nodes[j] /\ l \in 1 .. k - 1
      BY <2>1, <3>2
    <3> QED
      BY <2>4, <3>3 DEF Named
  <2>7. i # 1 => nodes[1] \in now
    <3> SUFFICES ASSUME i # 1 PROVE nodes[1] \in now
      OBVIOUS
    <3>1. c \in 1 .. k - 1 /\ c - 1 + 1 = c /\ 1 \in 1 .. c
      BY <2>1
    <3>2. list[c] = <<"define", nodes[1]>>
      BY <3>1
    <3>3. list[c][2] = nodes[1]
      BY <3>2
    <3> QED
      BY <2>4, <3>1, <3>3 DEF Named
  <2>8. comp \subseteq now \cup {nodes[i]}
    <3>1. ASSUME NEW u \in comp PROVE u \in now \cup {nodes[i]}
      <4>1. PICK j \in 1 .. c : nodes[j] = u
        OBVIOUS
      <4>2. j = 1 \/ j \in 2 .. c
        OBVIOUS
      <4> QED
        BY <2>6, <2>7, <4>1, <4>2
    <3> QED
      BY <3>1
  <2>9. nodes[i] \in now \/ BuiltFrom(ts, nodes[i]) \subseteq now
    BY <2>5, <2>8
  <2>10. Says(ts, lg, "define", nodes[i]) \subseteq now \cup {nodes[i]}
    BY <2>5, <2>8
  <2> QED
    BY <2>3, <2>4, <2>9, <2>10 DEF Found
<1>3. \A k \in DOMAIN list : k \in 1 .. c - 1 \/ k \in c .. c - 1 + c
  OBVIOUS
<1> QED
  BY <1>1, <1>2, <1>3 DEF Ready

LEMMA ComponentReady ==
  ASSUME EmitInv, phase = "emit", known = DOMAIN tys, NEW t \in reachable,
         NEW comp, comp = Component(t), defined \subseteq names,
         \A u \in comp : Edges(u) \subseteq comp \cup defined, ~Tangled(comp)
  PROVE  Ready(tys, lang, Definitions(comp), names)
<1>1. CtxTyped /\ FactsInv /\ EmitTyped /\ AllPunned(tys)
  BY DEF EmitInv, FactsInv, Emitting
<1>2. t \in DOMAIN tys /\ t \in comp /\ comp \in SUBSET DOMAIN tys /\ comp # {}
  BY <1>1, ComponentTyped DEF EmitTyped
<1>3. PICK c : c = Cardinality(comp)
  OBVIOUS
<1>4. PICK nodes : nodes = Emitted(comp)
  OBVIOUS
<1>5. PICK list : list = Definitions(comp)
  OBVIOUS
<1>6. /\ InOrder(comp, c, nodes, list)
      /\ c \in Nat \ {0} /\ nodes \in [1 .. c -> comp]
      /\ \A u \in comp : \E i \in 1 .. c : nodes[i] = u
  <2>1. InOrder(comp, c, nodes, list)
    BY <1>1, <1>2, <1>3, <1>4, <1>5, DefinitionsAre
  <2> QED
    BY <2>1 DEF InOrder
<1>7. /\ IsFiniteSet(comp)
      /\ \A i \in 1 .. c : \A j \in 1 .. c : SortsBefore(nodes[i], nodes[j]) => j < i
      /\ \A i \in 1 .. c : \A j \in 1 .. c : nodes[i] = nodes[j] => i = j
  BY <1>1, <1>2, <1>3, <1>4, EmittedTyped
<1>8. ASSUME NEW u \in comp
      PROVE  /\ BuiltFrom(tys, u) \subseteq Edges(u) \ {u}
             /\ Says(tys, lang, "define", u) \subseteq Edges(u)
             /\ u \in DOMAIN tys /\ u \in Nat
  <2>1. u \in DOMAIN tys /\ DOMAIN tys = 1 .. Len(tys) /\ Len(tys) \in Nat
    BY <1>1, <1>2, SizeTyped
  <2>2. tys[u].kind \in {"ref", "array"} => u \notin ToSet(tys[u].parts)
    BY <1>1, <2>1, TypeFits
  <2>3. tys[u].kind = "pun" => u < tys[u].real
    BY <1>1, <2>1, TypeFits DEF AllPunned
  <2>4. BuiltFrom(tys, u) \subseteq Edges(u) \ {u}
    BY <2>1, <2>2, <2>3 DEF BuiltFrom, Edges
  <2>5. Says(tys, lang, "define", u) \subseteq Edges(u)
    BY DEF Says, Edges
  <2> QED
    BY <2>1, <2>4, <2>5
<1>9. \A u \in comp : /\ BuiltFrom(tys, u) \subseteq (comp \ {u}) \cup names
                      /\ Says(tys, lang, "define", u) \subseteq comp \cup names
  BY <1>8
<1>10. ASSUME NEW i \in 2 .. c
       PROVE  /\ BuiltFrom(tys, nodes[i]) \subseteq names \cup {nodes[j] : j \in 2 .. i - 1}
              /\ Says(tys, lang, "declare", nodes[i]) \subseteq names
  <2>1. PICK u \in comp : u = nodes[i]
    BY <1>6
  <2>2. PICK v \in comp : v = nodes[1]
    BY <1>6
  <2>3. c > 1 /\ i \in 1 .. c /\ 1 \in 1 .. c /\ i # 1
    BY <1>6
  <2>4. u # v
    BY <1>7, <2>1, <2>2, <2>3
  <2>5. ~IsNominal(v)
    <3>1. u # t \/ v # t
      BY <2>4
    <3>2. PICK r \in comp : tys[r].kind = "ref"
      BY <1>1, <1>2, <3>1, CycleHasRef
    <3>3. PICK j \in 1 .. c : nodes[j] = r
      BY <1>6
    <3>4. ~IsNominal(r)
      BY <3>2 DEF IsNominal, Nominals
    <3>5. ~SortsBefore(v, r)
      <4>1. SortsBefore(v, r) => j < 1
        BY <1>7, <2>2, <2>3, <3>3
      <4> QED
        BY <4>1
    <3> QED
      BY <3>4, <3>5 DEF SortsBefore
  <2>6. IsNominal(u)
    <3> SUFFICES ASSUME ~IsNominal(u) PROVE FALSE
      OBVIOUS
    <3>1. PICK S : S = {x \in comp : ~IsNominal(x)}
      OBVIOUS
    <3>2. IsFiniteSet(S)
      BY <1>7, <3>1, FS_Subset
    <3>3. ~(Cardinality(S) > 1)
      BY <1>3, <2>3, <3>1 DEF Tangled
    <3>4. u \in S /\ v \in S
      BY <2>5, <3>1
    <3>5. u = v
      BY <3>2, <3>3, <3>4, AtMostOne
    <3> QED
      BY <2>4, <3>5
  <2>7. BuiltFrom(tys, u) \subseteq names \cup {nodes[j] : j \in 2 .. i - 1}
    <3>1. CASE tys[u].kind = "pun"
      <4>1. PICK w : w = tys[u].real
        OBVIOUS
      <4>2. IsNominal(w) /\ u < w
        BY <1>1, <1>8, <3>1, <4>1, TypeFits DEF AllPunned
      <4>3. w \in comp \/ w \in names
        <5>1. w \in Edges(u)
          BY <3>1, <4>1 DEF Edges
        <5> QED
          BY <5>1
      <4>4. w \in comp => w \in {nodes[j] : j \in 2 .. i - 1}
        <5> SUFFICES ASSUME w \in comp PROVE w \in {nodes[j] : j \in 2 .. i - 1}
          OBVIOUS
        <5>1. PICK j \in 1 .. c : nodes[j] = w
          BY <1>6
        <5>2. SortsBefore(u, w)
          BY <2>6, <4>2 DEF SortsBefore
        <5>3. j < i
          BY <1>7, <2>1, <2>3, <5>1, <5>2
        <5>4. j # 1
          BY <2>2, <2>5, <4>2, <5>1
        <5>5. j \in 2 .. i - 1
          BY <5>3, <5>4
        <5> QED
          BY <5>1, <5>5
      <4>5. BuiltFrom(tys, u) = {w}
        BY <3>1, <4>1 DEF BuiltFrom
      <4> QED
        BY <4>3, <4>4, <4>5
    <3>2. CASE tys[u].kind # "pun"
      <4>1. tys[u].kind \notin {"array", "ref"}
        BY <2>6 DEF IsNominal, Nominals
      <4>2. BuiltFrom(tys, u) = {}
        BY <3>2, <4>1 DEF BuiltFrom
      <4> QED
        BY <4>2
    <3> QED
      BY <3>1, <3>2
  <2>8. Says(tys, lang, "declare", u) = {}
    <3>1. ~(lang = "c" /\ tys[u].kind = "alias")
      BY <1>3, <2>3 DEF Tangled
    <3> QED
      BY <3>1 DEF Says
  <2> QED
    BY <2>1, <2>7, <2>8
<1>11. Ready(tys, lang, list, names)
  <2>1. EarlierNames(tys, lang, comp, names, c, nodes)
    BY <1>9, <1>10 DEF EarlierNames
  <2> QED
    BY <1>6, <2>1, OrderIsReady
<1> QED
  BY <1>5, <1>11

LEMMA ReadyStep ==
  ASSUME NEW ts, NEW lg, NEW had, NEW S, NEW list \in Seq(S), list # <<>>,
         Ready(ts, lg, list, had)
  PROVE  /\ Found(ts, lg, Head(list)[1], Head(list)[2], had)
         /\ Ready(ts, lg, Tail(list), had \cup {Head(list)[2]})
<1>1. PICK n \in Nat : n = Len(list)
  OBVIOUS
<1>2. n # 0 /\ DOMAIN list = 1 .. n /\ Head(list) = list[1]
  BY <1>1
<1>3. PICK rest : rest = Tail(list)
  OBVIOUS
<1>4. DOMAIN rest = 1 .. n - 1 /\ \A i \in 1 .. n - 1 : rest[i] = list[i + 1]
  BY <1>1, <1>2, <1>3
<1>5. PICK more : more = had \cup {list[1][2]}
  OBVIOUS
<1>6. Found(ts, lg, list[1][1], list[1][2], had)
  <2>1. 1 \in DOMAIN list
    BY <1>2
  <2>2. Named(list, had, 1) = had
    BY DEF Named
  <2> QED
    BY <2>1, <2>2 DEF Ready
<1>7. ASSUME NEW i \in 1 .. n - 1
      PROVE  Found(ts, lg, rest[i][1], rest[i][2], Named(rest, more, i))
  <2>1. i + 1 \in DOMAIN list
    BY <1>2, <1>7
  <2>2. Found(ts, lg, list[i + 1][1], list[i + 1][2], Named(list, had, i + 1))
    BY <2>1 DEF Ready
  <2>3. Named(list, had, i + 1) = Named(rest, more, i)
    <3>1. ASSUME NEW j \in 1 .. (i + 1) - 1
          PROVE  list[j][2] \in {list[1][2]} \cup {rest[k][2] : k \in 1 .. i - 1}
      <4>1. CASE j = 1
        BY <4>1
      <4>2. CASE j # 1
        <5>1. j - 1 \in 1 .. i - 1 /\ (j - 1) + 1 = j /\ j - 1 \in 1 .. n - 1
          BY <1>7, <3>1, <4>2
        <5>2. rest[j - 1] = list[j]
          BY <1>4, <5>1
        <5> QED
          BY <5>1, <5>2
      <4> QED
        BY <4>1, <4>2
    <3>2. ASSUME NEW k \in 1 .. i - 1
          PROVE  rest[k][2] \in {list[j][2] : j \in 1 .. (i + 1) - 1}
      <4>1. k \in 1 .. n - 1 /\ k + 1 \in 1 .. (i + 1) - 1
        BY <1>7, <3>2
      <4>2. rest[k] = list[k + 1]
        BY <1>4, <4>1
      <4> QED
        BY <4>1, <4>2
    <3>3. list[1][2] \in {list[j][2] : j \in 1 .. (i + 1) - 1}
      <4>1. 1 \in 1 .. (i + 1) - 1
        OBVIOUS
      <4> QED
        BY <4>1
    <3> QED
      BY <1>5, <3>1, <3>2, <3>3 DEF Named
  <2>4. rest[i] = list[i + 1]
    BY <1>4
  <2> QED
    BY <2>2, <2>3, <2>4
<1>8. Ready(ts, lg, rest, more)
  BY <1>4, <1>7 DEF Ready
<1> QED
  BY <1>2, <1>3, <1>5, <1>6, <1>8

NamesInv ==
  /\ EmitInv
  /\ defined \subseteq names
  /\ phase = "emit" => known = DOMAIN tys
  /\ result = "panic" => AllPunned(tys)
  /\ Untangled(tys, lang, reachable) =>
       /\ result # "panic"
       /\ phase = "emit" => Ready(tys, lang, todo, names)

LEMMA RootsReached ==
  ASSUME EmitInv, phase = "emit", NEW f \in source.desired
  PROVE  ToSet(args[f]) \subseteq reachable
<1>1. CtxTyped /\ EmitTyped /\ Emitting
  BY DEF EmitInv, FactsInv
<1>2. AllPunned(tys) /\ Len(args) = Len(source.funcs)
  BY <1>1 DEF CtxTyped, Emitting
<1>3. Len(tys) \in Nat /\ DOMAIN tys = 1 .. Len(tys)
  BY <1>1, SizeTyped
<1>4. Graph = Linked(tys) /\ Graph \in [1 .. Len(tys) -> SUBSET (1 .. Len(tys))]
  BY <1>1, <1>2, GraphTyped
<1>5. PICK S : S = RootsOf(args, source.desired)
  OBVIOUS
<1>6. reachable = Reach(Graph, S)
  <2>1. reachable = Near(Len(tys), Linked(tys), S)[Len(tys)]
    BY <1>1, <1>5 DEF Emitting, Needed
  <2> QED
    BY <1>4, <2>1, ReachIsNear
<1>7. S \in SUBSET (1 .. Len(tys))
  BY <1>1, <1>2, <1>3, <1>5, RootsInside
<1>8. S \subseteq reachable
  BY <1>3, <1>4, <1>6, <1>7, ReachLeast
<1>9. ToSet(args[f]) \subseteq S
  BY <1>5 DEF RootsOf
<1> QED
  BY <1>8, <1>9

LEMMA NoneReady ==
  ASSUME NEW ts, NEW lg, NEW had
  PROVE  Ready(ts, lg, <<>>, had)
BY DEF Ready

LEMMA InitNames == Init => NamesInv
<1> SUFFICES ASSUME Init PROVE NamesInv
  OBVIOUS
<1>1. EmitInv
  BY InitEmit
<1>2. phase = "typeck" /\ result = "none" /\ defined = {} /\ names = {}
  BY DEF Init
<1> QED
  BY <1>1, <1>2 DEF NamesInv

LEMMA DefinitionNames ==
  ASSUME NamesInv, EmitDefinition, EmitInv'
  PROVE  NamesInv'
<1>1. EmitTyped /\ Emitting /\ CtxTyped /\ defined \subseteq names
  BY DEF EmitInv, FactsInv, NamesInv
<1>2. /\ phase = "emit" /\ todo # <<>> /\ result = "none" /\ known = DOMAIN tys /\ AllPunned(tys)
      /\ UNCHANGED <<tys, lang, known, reachable>>
  BY <1>1 DEF EmitDefinition, ctxVars, factVars, CtxTyped, Emitting, NamesInv
<1>3. PICK op : op = Head(todo)[1]
  OBVIOUS
<1>4. PICK t : t = Head(todo)[2]
  OBVIOUS
<1>5. ASSUME Untangled(tys, lang, reachable)
      PROVE  ~LookupFails(op, t) /\ Ready(tys, lang, Tail(todo), names \cup {t})
  <2>1. PICK S : S = {"declare", "define"} \X reachable
    OBVIOUS
  <2>2. todo \in Seq(S)
    BY <1>1, <2>1 DEF EmitTyped
  <2>3. Ready(tys, lang, todo, names)
    BY <1>2, <1>5 DEF NamesInv
  <2>4. Found(tys, lang, op, t, names) /\ Ready(tys, lang, Tail(todo), names \cup {t})
    BY <1>2, <1>3, <1>4, <2>2, <2>3, ReadyStep
  <2>5. ~LookupFails(op, t)
    BY <2>4, FoundIs
  <2> QED
    BY <2>4, <2>5
<1>6. CASE Unsupported(op, t)
  <2>1. Ends("unsupported") /\ UNCHANGED emitVars
    BY <1>3, <1>4, <1>6 DEF EmitDefinition
  <2>2. phase' = "over" /\ result' = "unsupported" /\ UNCHANGED <<defined, names>>
    BY <2>1 DEF Ends, emitVars
  <2> QED
    BY <1>1, <2>2 DEF NamesInv
<1>7. CASE ~Unsupported(op, t) /\ LookupFails(op, t)
  <2>1. Ends("panic") /\ UNCHANGED emitVars
    BY <1>3, <1>4, <1>7 DEF EmitDefinition
  <2>2. phase' = "over" /\ UNCHANGED <<defined, names>>
    BY <2>1 DEF Ends, emitVars
  <2>3. ~Untangled(tys, lang, reachable)
    BY <1>5, <1>7
  <2>4. ~Untangled(tys', lang', reachable') /\ AllPunned(tys')
    BY <1>2, <2>3
  <2> QED
    BY <1>1, <2>2, <2>4 DEF NamesInv
<1>8. CASE ~Unsupported(op, t) /\ ~LookupFails(op, t)
  <2>1. /\ names' = names \cup {t} /\ todo' = Tail(todo) /\ UNCHANGED <<phase, result>>
        /\ defined' = IF op = "define" THEN defined \cup {t} ELSE defined
    BY <1>3, <1>4, <1>8 DEF EmitDefinition
  <2>2. defined' \subseteq names'
    BY <1>1, <2>1
  <2>3. Untangled(tys', lang', reachable') => Ready(tys', lang', todo', names')
    BY <1>2, <1>5, <2>1
  <2>4. known' = DOMAIN tys' /\ AllPunned(tys') /\ result' # "panic"
    BY <1>2, <2>1
  <2> QED
    BY <2>2, <2>3, <2>4 DEF NamesInv
<1> QED
  BY <1>6, <1>7, <1>8

LEMMA NextNames == NamesInv /\ [Next]_vars => NamesInv'
<1> SUFFICES ASSUME NamesInv, [Next]_vars PROVE NamesInv'
  OBVIOUS
<1>1. EmitInv /\ EmitTyped /\ Emitting /\ FactsInv /\ CtxTyped /\ defined \subseteq names
  BY DEF NamesInv, EmitInv, FactsInv
<1>2. EmitInv'
  BY <1>1, NextEmit
<1>3. phase # "over" => result = "none"
  BY <1>1 DEF CtxTyped
<1>4. ASSUME phase' # "emit", result' # "panic", UNCHANGED <<defined, names>>
      PROVE  NamesInv'
  BY <1>1, <1>2, <1>4 DEF NamesInv
<1>5. CASE Typeck
  <2>1. phase = "typeck" /\ UNCHANGED <<defined, names>>
    BY <1>5 DEF Typeck, emitVars
  <2>2. phase' \in {"facts", "over"} /\ result' \in {result, "undefined"}
    BY <1>1, <1>5, TypeckTyped DEF Ends
  <2> QED
    BY <1>3, <1>4, <2>1, <2>2
<1>6. CASE ComputeFact
  <2>1. /\ phase = "facts" /\ UNCHANGED <<defined, names>>
        /\ Ends("infinite") \/ UNCHANGED <<phase, result>>
    BY <1>6, Zenon DEF ComputeFact, emitVars
  <2> QED
    BY <1>3, <1>4, <2>1 DEF Ends
<1>7. CASE FactsDone
  BY <1>3, <1>4, <1>7 DEF FactsDone, emitVars
<1>8. CASE DefinitionGraph
  <2>1. /\ phase = "graph" /\ UNCHANGED <<tys, lang, known, todo, defined, names>>
        /\ Ends("no_pun") \/ UNCHANGED result
    BY <1>8 DEF DefinitionGraph, ctxVars, factVars, emitVars
  <2>2. known = DOMAIN tys /\ todo = <<>> /\ result = "none"
    BY <1>1, <1>3, <2>1 DEF FactsInv, Worklist, Emitting
  <2>3. result' # "panic"
    BY <2>1, <2>2 DEF Ends
  <2>4. Ready(tys', lang', todo', names') /\ known' = DOMAIN tys' /\ defined' \subseteq names'
    BY <1>1, <2>1, <2>2, NoneReady
  <2> QED
    BY <1>2, <2>3, <2>4 DEF NamesInv
<1>9. CASE NextComponent
  <2>1. /\ phase = "emit"
        /\ UNCHANGED <<phase, result, tys, lang, known, reachable, defined, names>>
    BY <1>9 DEF NextComponent, ctxVars, factVars
  <2>2. PICK t \in reachable \ defined :
          /\ \A u \in Component(t) : Edges(u) \subseteq Component(t) \cup defined
          /\ todo' = Definitions(Component(t))
    BY <1>9 DEF NextComponent
  <2>3. known = DOMAIN tys /\ AllPunned(tys)
    BY <1>1, <2>1 DEF NamesInv, Emitting
  <2>4. ASSUME Untangled(tys, lang, reachable) PROVE Ready(tys, lang, todo', names)
    <3>1. ~Tangle(tys, lang, Cycle(tys, t))
      BY <2>2, <2>4 DEF Untangled
    <3>2. ~Tangled(Component(t))
      BY <1>1, <2>3, <3>1, TangleIs
    <3>3. PICK comp : comp = Component(t)
      OBVIOUS
    <3>4. t \in reachable /\ (\A u \in comp : Edges(u) \subseteq comp \cup defined) /\ ~Tangled(comp)
      BY <2>2, <3>2, <3>3
    <3>5. Ready(tys, lang, Definitions(comp), names)
      BY <1>1, <2>1, <2>3, <3>3, <3>4, ComponentReady
    <3> QED
      BY <2>2, <3>3, <3>5
  <2>5. Untangled(tys', lang', reachable') =>
          result' # "panic" /\ Ready(tys', lang', todo', names')
    BY <1>3, <2>1, <2>4
  <2>6. defined' \subseteq names' /\ known' = DOMAIN tys' /\ AllPunned(tys')
    BY <1>1, <2>1, <2>3
  <2> QED
    BY <1>2, <2>5, <2>6 DEF NamesInv
<1>10. CASE EmitDefinition
  BY <1>2, <1>10, DefinitionNames
<1>11. CASE GenerateFunctions
  <2>1. /\ phase = "emit" /\ reachable \subseteq defined /\ UNCHANGED <<defined, names>>
        /\ phase' = "over"
        /\ result' = IF \A f \in source.desired : ToSet(args[f]) \subseteq names
                     THEN "ok" ELSE "panic"
    BY <1>11 DEF GenerateFunctions, Ends, emitVars
  <2>2. \A f \in source.desired : ToSet(args[f]) \subseteq reachable
    BY <1>1, <2>1, RootsReached
  <2>3. result' = "ok"
    BY <1>1, <2>1, <2>2
  <2> QED
    BY <1>4, <2>1, <2>3
<1>12. CASE UNCHANGED vars
  <2>1. UNCHANGED <<phase, result, tys, lang, known, reachable, todo, defined, names>>
    BY <1>12 DEF vars, ctxVars, factVars, emitVars
  <2> QED
    BY <1>2, <2>1 DEF NamesInv
<1> QED
  BY <1>5, <1>6, <1>7, <1>8, <1>9, <1>10, <1>11, <1>12 DEF Next, Over

(* A toolchain that looks up a name finds it, in every program whose types *)
(* are not tangled: types that need each other do so through one reference *)
(* or array and, in C, through no alias.                                   *)
THEOREM LookupsSucceed == Spec => []LookupsFailOnlyInTangles
<1>1. ASSUME NamesInv, result = "panic" PROVE \E t \in reachable : Tangled(Component(t))
  <2>1. CtxTyped /\ AllPunned(tys) /\ ~Untangled(tys, lang, reachable)
    BY <1>1 DEF NamesInv, EmitInv, FactsInv
  <2>2. PICK t \in reachable : Tangle(tys, lang, Cycle(tys, t))
    BY <2>1 DEF Untangled
  <2>3. Tangled(Component(t))
    BY <2>1, <2>2, TangleIs
  <2> QED
    BY <2>3
<1>2. NamesInv => LookupsFailOnlyInTangles
  BY <1>1 DEF LookupsFailOnlyInTangles
<1> QED
  BY <1>2, InitNames, NextNames, PTL DEF Spec

-----------------------------------------------------------------------------
(* How long the worklist gets *)

(* How many parts the types of s have between them. *)
IsSum(f, n, w) ==
  f = [s \in SUBSET (1 .. n) |-> IF s = {} THEN 0 ELSE f[s \ {Max(s)}] + w[Max(s)]]
Sum(n, w) == CHOOSE f : IsSum(f, n, w)

LEMMA SumIs ==
  ASSUME NEW n \in Nat, NEW w \in [1 .. n -> Nat]
  PROVE  IsSum(Sum(n, w), n, w) /\ \A s \in SUBSET (1 .. n) : Sum(n, w)[s] \in Nat
<1> DEFINE A == [s \in SUBSET (1 .. n) |-> Nat]
           G == [i \in 1 .. n |-> [a \in Nat |-> a + w[i]]]
<1>1. Steps(n, A, G)
  <2> SUFFICES ASSUME NEW s \in SUBSET (1 .. n), s # {}, NEW a \in A[s \ {Max(s)}]
               PROVE  G[Max(s)][a] \in A[s]
    BY DEF Steps
  <2>1. Max(s) \in 1 .. n /\ s \ {Max(s)} \in SUBSET (1 .. n)
    BY MaxIs
  <2>2. a \in Nat
    BY <2>1
  <2> QED
    BY <2>1, <2>2
<1>2. 0 \in A[{}]
  OBVIOUS
<1>3. PICK f : IsFold(f, n, 0, G) /\ \A s \in SUBSET (1 .. n) : f[s] \in A[s]
  <2> HIDE DEF A, G
  <2> QED
    BY <1>1, <1>2, FoldExists
<1>4. IsSum(f, n, w)
  <2>1. ASSUME NEW s \in SUBSET (1 .. n), s # {}
        PROVE  G[Max(s)][f[s \ {Max(s)}]] = f[s \ {Max(s)}] + w[Max(s)]
    <3>1. Max(s) \in 1 .. n /\ s \ {Max(s)} \in SUBSET (1 .. n)
      BY <2>1, MaxIs
    <3>2. f[s \ {Max(s)}] \in Nat
      BY <1>3, <3>1
    <3> QED
      BY <3>1, <3>2
  <2>2. [s \in SUBSET (1 .. n) |-> IF s = {} THEN 0 ELSE G[Max(s)][f[s \ {Max(s)}]]]
        = [s \in SUBSET (1 .. n) |-> IF s = {} THEN 0 ELSE f[s \ {Max(s)}] + w[Max(s)]]
    BY <2>1
  <2> QED
    BY <1>3, <2>2 DEF IsFold, IsSum
<1>5. IsSum(Sum(n, w), n, w)
  BY <1>4 DEF Sum
<1>6. PICK h : h = Sum(n, w)
  OBVIOUS
<1>7. \A s \in SUBSET (1 .. n) : h[s] \in A[s]
  <2>1. h[{}] \in A[{}]
    BY <1>5, <1>6 DEF IsSum
  <2>2. ASSUME NEW s \in SUBSET (1 .. n), s # {}, h[s \ {Max(s)}] \in A[s \ {Max(s)}]
        PROVE  h[s] \in A[s]
    <3>1. h[s] = h[s \ {Max(s)}] + w[Max(s)]
      BY <1>5, <1>6, <2>2 DEF IsSum
    <3>2. Max(s) \in 1 .. n /\ s \ {Max(s)} \in SUBSET (1 .. n)
      BY <2>2, MaxIs
    <3>3. h[s \ {Max(s)}] \in Nat /\ w[Max(s)] \in Nat
      BY <2>2, <3>2
    <3> QED
      BY <3>1, <3>3
  <2> HIDE DEF A
  <2> QED
    BY <2>1, <2>2, FoldStays
<1> QED
  BY <1>5, <1>6, <1>7

(* One more type adds its parts, wherever in the order it comes. *)
Adds(h, n, w) ==
  \A s \in SUBSET (1 .. n) : \A t \in (1 .. n) \ s : h[s \cup {t}] = h[s] + w[t]

LEMMA SumAdds ==
  ASSUME NEW n \in Nat, NEW w \in [1 .. n -> Nat]
  PROVE  Adds(Sum(n, w), n, w)
<1>1. PICK h : h = Sum(n, w)
  OBVIOUS
<1>2. /\ \A s \in SUBSET (1 .. n) : h[s] \in Nat
      /\ h[{}] = 0
      /\ \A s \in SUBSET (1 .. n) : s # {} => h[s] = h[s \ {Max(s)}] + w[Max(s)]
  <2>1. IsSum(h, n, w) /\ \A s \in SUBSET (1 .. n) : h[s] \in Nat
    BY <1>1, SumIs
  <2> QED
    BY <2>1 DEF IsSum
<1> DEFINE A == [s \in SUBSET (1 .. n) |->
                   {x \in Nat : \A t \in (1 .. n) \ s : h[s \cup {t}] = x + w[t]}]
<1>3. ASSUME NEW s \in SUBSET (1 .. n), NEW t \in (1 .. n) \ s, \A u \in s : u < t
      PROVE  h[s \cup {t}] = h[s] + w[t]
  <2>1. PICK r : r = s \cup {t}
    OBVIOUS
  <2>2. r \in SUBSET (1 .. n) /\ r # {}
    BY <2>1
  <2>3. Max(r) \in r /\ \A x \in r : x <= Max(r)
    BY <2>2, MaxIs
  <2>4. Max(r) = t
    <3>1. PICK m : m = Max(r)
      OBVIOUS
    <3>2. m \in r /\ t <= m /\ t \in 1 .. n /\ m \in 1 .. n
      BY <2>1, <2>2, <2>3, <3>1
    <3>3. m = t \/ m < t
      BY <1>3, <2>1, <3>2
    <3> QED
      BY <3>1, <3>2, <3>3
  <2>5. r \ {t} = s
    BY <2>1
  <2> QED
    BY <1>2, <2>1, <2>2, <2>4, <2>5
<1>4. h[{}] \in A[{}]
  <2>1. ASSUME NEW t \in (1 .. n) \ {} PROVE h[{} \cup {t}] = 0 + w[t]
    BY <1>2, <1>3
  <2> QED
    BY <1>2, <2>1
<1>5. ASSUME NEW s \in SUBSET (1 .. n), s # {}, h[s \ {Max(s)}] \in A[s \ {Max(s)}]
      PROVE  h[s] \in A[s]
  <2>1. PICK m : m = Max(s)
    OBVIOUS
  <2>2. m \in s /\ m \in 1 .. n /\ (\A x \in s : x <= m) /\ s \ {m} \in SUBSET (1 .. n)
    BY <1>5, <2>1, MaxIs
  <2>3. \A t \in (1 .. n) \ (s \ {m}) : h[(s \ {m}) \cup {t}] = h[s \ {m}] + w[t]
    BY <1>5, <2>1, <2>2
  <2>4. ASSUME NEW t \in (1 .. n) \ s PROVE h[s \cup {t}] = h[s] + w[t]
    <3>1. CASE m < t
      <4>1. \A u \in s : u < t
        BY <2>2, <3>1
      <4> QED
        BY <1>3, <4>1
    <3>2. CASE ~(m < t)
      <4>1. t < m
        BY <2>2, <3>2
      <4>2. PICK r : r = s \cup {t}
        OBVIOUS
      <4>3. r \in SUBSET (1 .. n) /\ r # {}
        BY <4>2
      <4>4. Max(r) \in r /\ \A x \in r : x <= Max(r)
        BY <4>3, MaxIs
      <4>5. Max(r) = m
        <5>1. PICK x : x = Max(r)
          OBVIOUS
        <5>2. x \in r /\ m <= x /\ x \in 1 .. n
          BY <2>2, <4>2, <4>3, <4>4, <5>1
        <5>3. x <= m
          BY <2>2, <4>1, <4>2, <5>2
        <5> QED
          BY <2>2, <5>1, <5>2, <5>3
      <4>6. r \ {m} = (s \ {m}) \cup {t}
        BY <4>1, <4>2
      <4>7. h[r] = h[(s \ {m}) \cup {t}] + w[m]
        BY <1>2, <4>3, <4>5, <4>6
      <4>8. h[(s \ {m}) \cup {t}] = h[s \ {m}] + w[t]
        BY <2>3
      <4>9. h[s] = h[s \ {m}] + w[m]
        BY <1>2, <1>5, <2>1
      <4>10. h[s \ {m}] \in Nat /\ w[m] \in Nat /\ w[t] \in Nat
        BY <1>2, <2>2
      <4> QED
        BY <4>2, <4>7, <4>8, <4>9, <4>10
    <3> QED
      BY <3>1, <3>2
  <2> QED
    BY <1>2, <2>4
<1>6. \A s \in SUBSET (1 .. n) : h[s] \in A[s]
  <2> HIDE DEF A
  <2> QED
    BY <1>4, <1>5, FoldStays
<1>7. Adds(h, n, w)
  BY <1>6 DEF Adds
<1> QED
  BY <1>1, <1>7

LEMMA SumGrows ==
  ASSUME NEW n \in Nat, NEW w \in [1 .. n -> Nat], NEW s \in SUBSET (1 .. n)
  PROVE  Sum(n, w)[s] <= Sum(n, w)[1 .. n]
<1>1. PICK h : h = Sum(n, w)
  OBVIOUS
<1>2. /\ \A r \in SUBSET (1 .. n) : h[r] \in Nat
      /\ \A r \in SUBSET (1 .. n) : \A t \in (1 .. n) \ r : h[r \cup {t}] = h[r] + w[t]
  <2>1. \A r \in SUBSET (1 .. n) : h[r] \in Nat
    BY <1>1, SumIs
  <2>2. Adds(h, n, w)
    BY <1>1, SumAdds
  <2> QED
    BY <2>1, <2>2 DEF Adds
<1> DEFINE I == {m \in Nat : m <= n => h[s] <= h[s \cup (1 .. m)]}
<1>3. 0 \in I
  <2>1. s \cup (1 .. 0) = s
    OBVIOUS
  <2> QED
    BY <1>2, <2>1
<1>4. ASSUME NEW m \in Nat, m \in I PROVE m + 1 \in I
  <2> SUFFICES ASSUME m + 1 <= n PROVE h[s] <= h[s \cup (1 .. m + 1)]
    OBVIOUS
  <2>1. PICK r : r = s \cup (1 .. m)
    OBVIOUS
  <2>2. r \in SUBSET (1 .. n) /\ m + 1 \in 1 .. n /\ s \cup (1 .. m + 1) = r \cup {m + 1}
    BY <2>1
  <2>3. h[s] <= h[r] /\ h[s] \in Nat /\ h[r] \in Nat /\ w[m + 1] \in Nat
    BY <1>2, <1>4, <2>1, <2>2
  <2>4. CASE m + 1 \in r
    <3>1. r \cup {m + 1} = r
      BY <2>4
    <3> QED
      BY <2>2, <2>3, <3>1
  <2>5. CASE m + 1 \notin r
    <3>1. PICK q : q = r \cup {m + 1}
      OBVIOUS
    <3>2. h[q] = h[r] + w[m + 1]
      BY <1>2, <2>2, <2>5, <3>1
    <3>3. h[s] <= h[q]
      BY <2>3, <3>2
    <3> QED
      BY <2>2, <3>1, <3>3
  <2> QED
    BY <2>4, <2>5
<1>5. n \in I
  <2> HIDE DEF I
  <2> QED BY <1>3, <1>4, SetInduction
<1>6. s \cup (1 .. n) = 1 .. n
  OBVIOUS
<1>7. h[s] <= h[s \cup (1 .. n)]
  BY <1>5
<1> QED
  BY <1>1, <1>6, <1>7

Weights(ts) == [t \in 1 .. Len(ts) |-> Len(ts[t].parts)]

LEMMA PartCountIsSum ==
  ASSUME NEW ts \in Tables(0, {}, {})
  PROVE  /\ Weights(ts) \in [1 .. Len(ts) -> Nat]
         /\ PartCount(ts) = Sum(Len(ts), Weights(ts))[1 .. Len(ts)]
<1>1. PICK n \in Nat : n = Len(ts) /\ DOMAIN ts = 1 .. n
  BY TableFacts
<1>2. PICK w : w = Weights(ts)
  OBVIOUS
<1>3. \A t \in 1 .. n : w[t] = Len(ts[t].parts) /\ Len(ts[t].parts) \in Nat
  <2>1. \A t \in 1 .. n : ts[t].parts \in Seq(DOMAIN ts)
    BY <1>1, TableFacts
  <2> QED
    BY <1>1, <1>2, <2>1 DEF Weights
<1>4. w \in [1 .. n -> Nat]
  BY <1>1, <1>2, <1>3 DEF Weights
<1> DEFINE Is(f) == f = [s \in SUBSET (1 .. n) |->
                           IF s = {} THEN 0 ELSE f[s \ {Max(s)}] + Len(ts[Max(s)].parts)]
           h == CHOOSE f : Is(f)
<1>5. PICK g : g = Sum(n, w)
  OBVIOUS
<1>6. \A s \in SUBSET (1 .. n) : s # {} => w[Max(s)] = Len(ts[Max(s)].parts)
  BY <1>3, MaxIs
<1>7. Is(g)
  <2>1. IsSum(g, n, w)
    BY <1>4, <1>5, SumIs
  <2>2. [s \in SUBSET (1 .. n) |-> IF s = {} THEN 0 ELSE g[s \ {Max(s)}] + w[Max(s)]]
        = [s \in SUBSET (1 .. n) |-> IF s = {} THEN 0 ELSE g[s \ {Max(s)}] + Len(ts[Max(s)].parts)]
    BY <1>6
  <2> QED
    BY <2>1, <2>2 DEF IsSum
<1>8. Is(h)
  <2> HIDE DEF Is
  <2> QED BY <1>7
<1> HIDE DEF h
<1>9. \A s \in SUBSET (1 .. n) : h[s] = g[s]
  <2> DEFINE A == [s \in SUBSET (1 .. n) |-> {g[s]}]
  <2>1. h[{}] \in A[{}]
    BY <1>7, <1>8
  <2>2. ASSUME NEW s \in SUBSET (1 .. n), s # {}, h[s \ {Max(s)}] \in A[s \ {Max(s)}]
        PROVE  h[s] \in A[s]
    <3>1. s \ {Max(s)} \in SUBSET (1 .. n)
      OBVIOUS
    <3>2. h[s \ {Max(s)}] = g[s \ {Max(s)}]
      BY <2>2, <3>1
    <3>3. /\ h[s] = h[s \ {Max(s)}] + Len(ts[Max(s)].parts)
          /\ g[s] = g[s \ {Max(s)}] + Len(ts[Max(s)].parts)
      BY <1>7, <1>8, <2>2
    <3> QED
      BY <3>2, <3>3
  <2>3. \A s \in SUBSET (1 .. n) : h[s] \in A[s]
    <3> HIDE DEF A
    <3> QED
      BY <1>1, <2>1, <2>2, FoldStays
  <2> QED
    BY <2>3
<1>10. PartCount(ts) = h[1 .. n]
  BY <1>1 DEF PartCount, FoldLeft, MapThenFoldSet, h, Is
<1>11. PartCount(ts) = g[1 .. n]
  BY <1>9, <1>10
<1> QED
  BY <1>1, <1>2, <1>4, <1>5, <1>11

(* Every type that waits for a part of it is on the worklist for the parts *)
(* of types that were visited, besides once from the start.                *)
StackBounded == Len(to_compute) <= Len(tys) + Sum(Len(tys), Weights(tys))[visited]
BoundInv == FactsInv /\ StackBounded

LEMMA InitBound == Init => BoundInv
<1> SUFFICES ASSUME Init PROVE StackBounded
  BY InitFacts DEF BoundInv
<1>1. tys = <<>> /\ to_compute = <<>> /\ visited = {}
  BY DEF Init
<1>2. FactsInv
  BY InitFacts
<1>3. tys \in Tables(0, {}, {})
  BY <1>2 DEF FactsInv, CtxTyped
<1>4. Len(to_compute) = 0 /\ Len(tys) = 0
  BY <1>1
<1>5. Sum(Len(tys), Weights(tys))[visited] \in Nat
  <2>1. Weights(tys) \in [1 .. Len(tys) -> Nat]
    BY <1>3, PartCountIsSum
  <2>2. Len(tys) \in Nat /\ visited \in SUBSET (1 .. Len(tys))
    BY <1>1, <1>4
  <2> QED
    BY <2>1, <2>2, SumIs
<1> QED
  BY <1>4, <1>5 DEF StackBounded

LEMMA NextBound == BoundInv /\ [Next]_vars => BoundInv'
<1> SUFFICES ASSUME BoundInv, [Next]_vars PROVE StackBounded'
  BY NextFacts DEF BoundInv
<1>1. FactsInv /\ FactsInv' /\ StackBounded
  BY NextFacts DEF BoundInv
<1>2. /\ CtxTyped /\ FactsTyped /\ tys \in Tables(0, {}, {}) /\ to_compute \in Seq(DOMAIN tys)
      /\ visited \in SUBSET DOMAIN tys
  BY <1>1 DEF FactsInv, CtxTyped, FactsTyped
<1>3. PICK n \in Nat : n = Len(tys) /\ DOMAIN tys = 1 .. n
  BY <1>2, TableFacts
<1>4. PICK h : h = Sum(n, Weights(tys))
  OBVIOUS
<1>5. PICK w \in [1 .. n -> Nat] : w = Weights(tys)
  BY <1>2, <1>3, PartCountIsSum
<1>6. Len(to_compute) <= n + h[visited] /\ Len(to_compute) \in Nat /\ h[visited] \in Nat
  <2>1. h[visited] \in Nat
    BY <1>2, <1>3, <1>4, <1>5, SumIs
  <2> QED
    BY <1>1, <1>2, <1>3, <1>4, <2>1 DEF StackBounded
<1>7. CASE UNCHANGED <<tys, to_compute, visited>>
  BY <1>1, <1>7 DEF StackBounded
<1>8. CASE Typeck
  <2>1. \/ UNCHANGED <<tys, to_compute, visited>>
        \/ /\ tys' \in Tables(0, {}, {}) /\ Len(to_compute') = Len(tys') /\ visited' = {}
    <3>1. visited = {} /\ visited' = visited
      BY <1>1, <1>8 DEF Typeck, FactsInv, Worklist
    <3>2. Undefined \/ Len(to_compute') = Len(tys')
      BY <1>8 DEF Typeck
    <3>3. Undefined => UNCHANGED <<tys, to_compute>>
      BY <1>8 DEF Typeck, ctxVars
    <3>4. tys' \in Tables(0, {}, {})
      BY <1>1 DEF FactsInv, CtxTyped
    <3> QED
      BY <3>1, <3>2, <3>3, <3>4
  <2>2. ASSUME tys' \in Tables(0, {}, {}), Len(to_compute') = Len(tys'), visited' = {}
        PROVE  StackBounded'
    <3>1. PICK m : m = Len(tys')
      OBVIOUS
    <3>2. PICK ts : ts = tys'
      OBVIOUS
    <3>3. m \in Nat /\ ts \in Tables(0, {}, {}) /\ m = Len(ts)
      BY <2>2, <3>1, <3>2, TableFacts
    <3>4. Sum(m, Weights(ts))[{}] \in Nat
      BY <3>3, SumIs, PartCountIsSum
    <3>5. Len(to_compute') <= m + Sum(m, Weights(ts))[{}]
      BY <2>2, <3>1, <3>3, <3>4
    <3>6. Weights(tys)' = Weights(ts)
      BY <3>2 DEF Weights
    <3> QED
      BY <2>2, <3>1, <3>2, <3>5, <3>6 DEF StackBounded
  <2> QED
    BY <1>7, <2>1, <2>2
<1>9. CASE ComputeFact
  <2>1. PICK t : t = Last(to_compute)
    OBVIOUS
  <2>2. to_compute # <<>> /\ tys' = tys
    BY <1>9 DEF ComputeFact, ctxVars
  <2>3. t \in DOMAIN tys /\ Len(Front(to_compute)) = Len(to_compute) - 1
    <3>1. /\ t \in DOMAIN tys /\ Front(to_compute) \in Seq(DOMAIN tys)
          /\ DOMAIN Front(to_compute) = 1 .. Len(to_compute) - 1 /\ Len(to_compute) \in Nat \ {0}
      BY <1>2, <2>1, <2>2, PopFacts
    <3>2. PICK f : f = Front(to_compute)
      OBVIOUS
    <3>3. PICK k \in Nat \ {0} : k = Len(to_compute)
      BY <3>1
    <3>4. f \in Seq(DOMAIN tys) /\ DOMAIN f = 1 .. k - 1
      BY <3>1, <3>2, <3>3
    <3>5. Len(f) = k - 1
      BY <3>4
    <3> QED
      BY <3>1, <3>2, <3>3, <3>5
  <2>4. CASE Missing(t) = <<>>
    <3>1. to_compute' = Front(to_compute) /\ visited' = visited
      BY <1>9, <2>1, <2>4 DEF ComputeFact
    <3>2. Len(to_compute') <= n + h[visited]
      BY <1>6, <2>3, <3>1
    <3> QED
      BY <1>3, <1>4, <2>2, <3>1, <3>2 DEF StackBounded, Weights
  <2>5. CASE Missing(t) # <<>> /\ Restacked(t)
    <3>1. UNCHANGED <<to_compute, visited>>
      BY <1>9, <2>1, <2>5 DEF ComputeFact, factVars
    <3> QED
      BY <1>7, <2>2, <3>1
  <2>6. CASE Missing(t) # <<>> /\ ~Restacked(t)
    <3>1. visited' = visited \cup {t} /\ to_compute' = to_compute \o Missing(t)
      BY <1>9, <2>1, <2>6 DEF ComputeFact
    <3>2. t \in (1 .. n) \ visited
      BY <1>3, <2>3, <2>6 DEF Restacked
    <3>3. h[visited \cup {t}] = h[visited] + w[t]
      <4>1. visited \in SUBSET (1 .. n)
        BY <1>2, <1>3
      <4>2. Adds(h, n, w)
        BY <1>4, <1>5, SumAdds
      <4> QED
        BY <3>2, <4>1, <4>2 DEF Adds
    <3>4. PICK miss : miss = Missing(t)
      OBVIOUS
    <3>5. miss \in Seq(DOMAIN tys) /\ Len(miss) <= Len(Children(t))
      BY <1>2, <2>3, <3>4, ChildrenHeld
    <3>6. Len(Children(t)) <= w[t] /\ w[t] \in Nat /\ Len(Children(t)) \in Nat
      <4>1. w[t] = Len(tys[t].parts) /\ w[t] \in Nat
        BY <1>3, <1>5, <2>3 DEF Weights
      <4>2. Children(t) = tys[t].parts \/ Children(t) = <<>>
        BY DEF Children
      <4>3. Len(<<>>) = 0
        OBVIOUS
      <4> QED
        BY <4>1, <4>2, <4>3
    <3>7. Len(to_compute \o miss) = Len(to_compute) + Len(miss) /\ Len(miss) \in Nat
      BY <1>2, <3>5, PushFacts
    <3>8. Len(to_compute') <= n + h[visited']
      BY <1>6, <3>1, <3>3, <3>4, <3>5, <3>6, <3>7
    <3> QED
      BY <1>3, <1>4, <2>2, <3>8 DEF StackBounded, Weights
  <2> QED
    BY <2>4, <2>5, <2>6
<1>10. CASE FactsDone
  BY <1>7, <1>10 DEF FactsDone, ctxVars, factVars
<1>11. CASE DefinitionGraph
  BY <1>7, <1>11 DEF DefinitionGraph, ctxVars, factVars
<1>12. CASE NextComponent
  BY <1>7, <1>12 DEF NextComponent, ctxVars, factVars
<1>13. CASE EmitDefinition
  BY <1>7, <1>13 DEF EmitDefinition, ctxVars, factVars
<1>14. CASE GenerateFunctions
  BY <1>7, <1>14 DEF GenerateFunctions, ctxVars, factVars
<1>15. CASE UNCHANGED vars
  BY <1>7, <1>15 DEF vars, ctxVars, factVars
<1> QED
  BY <1>8, <1>9, <1>10, <1>11, <1>12, <1>13, <1>14, <1>15 DEF Next, Over

(* The worklist of compute_ty_facts never holds more than every type once, *)
(* and every part of every type once, also in a program it rejects.        *)
THEOREM WorklistIsBounded == Spec => []WorklistBounded
<1>1. BoundInv => WorklistBounded
  <2> SUFFICES ASSUME BoundInv PROVE WorklistBounded
    OBVIOUS
  <2>1. /\ tys \in Tables(0, {}, {}) /\ to_compute \in Seq(DOMAIN tys) /\ visited \in SUBSET DOMAIN tys
        /\ StackBounded
    BY DEF BoundInv, FactsInv, CtxTyped, FactsTyped
  <2>2. PICK n \in Nat : n = Len(tys) /\ DOMAIN tys = 1 .. n
    BY <2>1, TableFacts
  <2>3. PICK w \in [1 .. n -> Nat] : w = Weights(tys)
    BY <2>1, <2>2, PartCountIsSum
  <2>4. PartCount(tys) = Sum(n, w)[1 .. n]
    BY <2>1, <2>2, <2>3, PartCountIsSum
  <2>5. Sum(n, w)[visited] <= Sum(n, w)[1 .. n]
    BY <2>1, <2>2, <2>3, SumGrows
  <2>6. Sum(n, w)[visited] \in Nat /\ Sum(n, w)[1 .. n] \in Nat
    BY <2>1, <2>2, <2>3, SumIs
  <2>7. Len(to_compute) <= n + Sum(n, w)[visited] /\ Len(to_compute) \in Nat
    BY <2>1, <2>2, <2>3 DEF StackBounded
  <2> QED
    BY <2>2, <2>4, <2>5, <2>6, <2>7 DEF WorklistBounded
<1> QED
  BY <1>1, InitBound, NextBound, PTL DEF Spec
=============================================================================
