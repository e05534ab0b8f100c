---------------------------- MODULE ValuesProofs ----------------------------
(***************************************************************************)
(* Proofs about Values, for every table of types, every program and every  *)
(* draw.                                                                   *)
(*   First come the two recursions, build_values and the visits of the     *)
(* generators, and that they stay in step: both are inductions over the    *)
(* depth of the calls.  Then what the statements of the bodies write, the  *)
(* invariant, and the properties: who takes which value, the indices, the  *)
(* verdicts and the minimized sources.                                     *)
(***************************************************************************)
EXTENDS Values, DataLemmas

-----------------------------------------------------------------------------
(* The types *)

LEMMA TypeFacts ==
  ASSUME NEW t \in DOMAIN Ty
  PROVE  /\ Kind(t) \in Kinds /\ Len(Cases(t)) \in Nat /\ DOMAIN Cases(t) = 1 .. Len(Cases(t))
         /\ \A case : /\ Parts(t, case) \in Seq(DOMAIN Ty)
                      /\ Len(Parts(t, case)) \in Nat
                      /\ DOMAIN Parts(t, case) = 1 .. Len(Parts(t, case))
                      /\ \A k \in 1 .. Len(Parts(t, case)) : Parts(t, case)[k] \in DOMAIN Ty
<1> DEFINE R == [kind : Kinds, cases : Seq(Seq(Nat)), refs : BOOLEAN, width : Nat,
                 lacking : SUBSET Languages, langs : Seq(SUBSET Languages)]
<1>1. Ty[t] \in R
  <2>1. Ty \in Seq(R)
    BY TypesAssumption
  <2> HIDE DEF R
  <2> QED
    BY <2>1
<1>2. Kind(t) \in Kinds /\ Cases(t) \in Seq(Seq(Nat))
  BY <1>1 DEF Kind, Cases
<1>3. Len(Cases(t)) \in Nat /\ DOMAIN Cases(t) = 1 .. Len(Cases(t))
  <2>1. PICK S : S = Seq(Nat)
    OBVIOUS
  <2>2. PICK cs : cs = Cases(t)
    OBVIOUS
  <2>3. cs \in Seq(S)
    BY <1>2, <2>1, <2>2
  <2> QED
    BY <2>2, <2>3, LenProperties
<1>4. ASSUME NEW case PROVE Parts(t, case) \in Seq(DOMAIN Ty)
  <2>1. CASE case \in DOMAIN Cases(t)
    BY <2>1, TypesAssumption DEF Parts
  <2>2. CASE case \notin DOMAIN Cases(t)
    BY <2>2 DEF Parts
  <2> QED
    BY <2>1, <2>2
<1>5. ASSUME NEW case
      PROVE  /\ Len(Parts(t, case)) \in Nat
             /\ DOMAIN Parts(t, case) = 1 .. Len(Parts(t, case))
             /\ \A k \in 1 .. Len(Parts(t, case)) : Parts(t, case)[k] \in DOMAIN Ty
  <2>1. PICK S : S = DOMAIN Ty
    OBVIOUS
  <2>2. PICK ps : ps = Parts(t, case)
    OBVIOUS
  <2>3. ps \in Seq(S)
    BY <1>4, <2>1, <2>2
  <2> QED
    BY <2>1, <2>2, <2>3, LenProperties
<1> QED
  BY <1>2, <1>3, <1>4, <1>5

LEMMA PunFacts ==
  ASSUME NEW t \in DOMAIN Ty, Kind(t) = "pun"
  PROVE  /\ \A b \in DOMAIN Cases(t) : Cases(t)[b][1] \in DOMAIN Ty
         /\ \A l \in Languages : Resolved(t, l) \in DOMAIN Cases(t)
<1>1. ASSUME NEW b \in DOMAIN Cases(t) PROVE Cases(t)[b][1] \in DOMAIN Ty
  <2>1. Len(Cases(t)[b]) = 1 /\ Parts(t, b) = Cases(t)[b]
    BY TypesAssumption DEF Parts
  <2>2. \A k \in 1 .. Len(Parts(t, b)) : Parts(t, b)[k] \in DOMAIN Ty
    BY TypeFacts
  <2>3. Len(Parts(t, b)) = 1 /\ 1 \in 1 .. 1
    BY <2>1
  <2> QED
    BY <2>1, <2>2, <2>3
<1>2. ASSUME NEW l \in Languages PROVE Resolved(t, l) \in DOMAIN Cases(t)
  <2>1. Matching(t, l) # {}
    BY TypesAssumption
  <2>2. PICK M : M = Matching(t, l)
    OBVIOUS
  <2>3. M \subseteq DOMAIN Cases(t)
    BY <2>2 DEF Matching
  <2>4. M \subseteq Nat
    BY <2>3, TypeFacts
  <2>5. \E b \in M : \A x \in M : b <= x
    BY <2>1, <2>2, <2>4, LeastExists
  <2>6. Resolved(t, l) \in M
    BY <2>2, <2>5 DEF Resolved
  <2> QED
    BY <2>3, <2>6
<1> QED
  BY <1>1, <1>2

-----------------------------------------------------------------------------
(* The loops of build_values and of the visits, turn by turn *)

(* The numbers up to j are a set whose greatest is j. *)
LEMMA Upto ==
  ASSUME NEW j \in Nat, j # 0
  PROVE  1 .. j # {} /\ Max(1 .. j) = j /\ (1 .. j) \ {j} = 1 .. j - 1
<1>1. 1 .. j # {} /\ 1 .. j \in SUBSET (1 .. j) /\ j \in 1 .. j
  OBVIOUS
<1>2. PICK m : m = Max(1 .. j)
  OBVIOUS
<1>3. m \in 1 .. j /\ \A x \in 1 .. j : x <= m
  BY <1>1, <1>2, MaxIs
<1> QED
  BY <1>1, <1>2, <1>3

LEMMA BuildPartsTurns ==
  ASSUME NEW sub, NEW t, NEW case, NEW r,
         NEW N \in Nat, DOMAIN Parts(t, case) = 1 .. N
  PROVE  \E u : /\ u[0] = r /\ BuildParts(sub, t, case, r) = u[N]
                /\ \A j \in 1 .. N : u[j] = BuildPart(sub, t, case, u[j - 1], j)
<1> DEFINE id == [j \in DOMAIN Parts(t, case) |-> j]
           step(acc, j) == BuildPart(sub, t, case, acc, id[j])
           Eq(f, m) == f = [s \in SUBSET (1 .. m) |->
                              IF s = {} THEN r ELSE step(f[s \ {Max(s)}], Max(s))]
           I == {m \in Nat : \E f : Eq(f, m)}
           h == CHOOSE f : Eq(f, N)
<1>1. DOMAIN id = 1 .. N /\ \A j \in 1 .. N : id[j] = j
  OBVIOUS
<1>2. BuildParts(sub, t, case, r) = h[1 .. N]
  <2>1. BuildParts(sub, t, case, r)
        = (CHOOSE f : f = [s \in SUBSET DOMAIN id |->
             IF s = {} THEN r ELSE step(f[s \ {Max(s)}], Max(s))])[DOMAIN id]
    BY DEF BuildParts, FoldLeftDomain, FoldLeft, MapThenFoldSet
  <2> HIDE DEF step, id
  <2> QED
    BY <1>1, <2>1
<1>3. \A acc, j : j \in 1 .. N => step(acc, j) = BuildPart(sub, t, case, acc, j)
  BY <1>1
<1> HIDE DEF step, id
<1>4. 0 \in I
  <2>1. SUBSET (1 .. 0) = {{}}
    OBVIOUS
  <2>2. Eq([s \in {{}} |-> r], 0)
    BY <2>1
  <2> HIDE DEF Eq
  <2> QED
    BY <2>2
<1>5. ASSUME NEW m \in Nat, m \in I PROVE m + 1 \in I
  <2>1. PICK f : Eq(f, m)
    <3> HIDE DEF Eq
    <3> QED BY <1>5
  <2>2. PICK v : v = [s \in SUBSET (1 .. m + 1) |->
                        IF s = {} THEN r ELSE step(f[s \ {Max(s)}], Max(s))]
    OBVIOUS
  <2>3. ASSUME NEW s \in SUBSET (1 .. m + 1), s # {}
        PROVE  s \ {Max(s)} \in SUBSET (1 .. m) /\ s \ {Max(s)} \in SUBSET (1 .. m + 1)
    <3>1. PICK n \in Nat : n = m + 1
      OBVIOUS
    <3>2. s \in SUBSET (1 .. n) /\ s \subseteq 1 .. m + 1 /\ 1 .. m \subseteq 1 .. m + 1
      BY <3>1
    <3> QED
      BY <2>3, <3>2, MaxIs
  <2>4. ASSUME NEW s \in SUBSET (1 .. m) PROVE v[s] = f[s]
    <3>1. s \in SUBSET (1 .. m + 1)
      OBVIOUS
    <3> QED
      BY <2>1, <2>2, <3>1
  <2>5. ASSUME NEW s \in SUBSET (1 .. m + 1)
        PROVE  v[s] = IF s = {} THEN r ELSE step(v[s \ {Max(s)}], Max(s))
    <3>1. CASE s = {}
      BY <2>2, <3>1
    <3>2. CASE s # {}
      <4>1. v[s] = step(f[s \ {Max(s)}], Max(s))
        BY <2>2, <3>2
      <4>2. v[s \ {Max(s)}] = f[s \ {Max(s)}]
        BY <2>3, <2>4, <3>2
      <4> QED
        BY <3>2, <4>1, <4>2
    <3> QED
      BY <3>1, <3>2
  <2>6. Eq(v, m + 1)
    <3>1. v = [s \in SUBSET (1 .. m + 1) |-> v[s]]
      BY <2>2
    <3> QED
      BY <2>5, <3>1
  <2> HIDE DEF Eq
  <2> QED
    BY <2>6
<1>6. Eq(h, N)
  <2>1. N \in I
    <3> HIDE DEF I
    <3> QED BY <1>4, <1>5, SetInduction
  <2> HIDE DEF Eq
  <2> QED
    BY <2>1
<1> HIDE DEF h, I
<1>7. PICK u : u = [j \in 0 .. N |-> h[1 .. j]]
  OBVIOUS
<1>8. u[0] = r /\ u[N] = h[1 .. N]
  <2>1. 1 .. 0 = {} /\ {} \in SUBSET (1 .. N)
    OBVIOUS
  <2>2. h[{}] = r
    BY <1>6, <2>1
  <2> QED
    BY <1>7, <2>1, <2>2
<1>9. ASSUME NEW j \in 1 .. N PROVE u[j] = BuildPart(sub, t, case, u[j - 1], j)
  <2>1. 1 .. j # {} /\ Max(1 .. j) = j /\ (1 .. j) \ {j} = 1 .. j - 1
    <3>1. j \in Nat /\ j # 0
      OBVIOUS
    <3> QED
      BY <3>1, Upto
  <2>2. 1 .. j \in SUBSET (1 .. N) /\ j - 1 \in 0 .. N /\ j \in 0 .. N
    OBVIOUS
  <2>3. h[1 .. j] = step(h[1 .. j - 1], j)
    BY <1>6, <2>1, <2>2
  <2> QED
    BY <1>3, <1>7, <2>2, <2>3
<1> QED
  BY <1>2, <1>8, <1>9

LEMMA BuildBlocksTurns ==
  ASSUME NEW sub, NEW t, NEW g,
         NEW N \in Nat, DOMAIN Cases(t) = 1 .. N
  PROVE  \E u : /\ u[0] = Start(g) /\ BuildBlocks(sub, t, g) = u[N]
                /\ \A j \in 1 .. N : u[j] = BuildBlock(sub, t, g, u[j - 1], j)
<1> DEFINE id == [j \in DOMAIN Cases(t) |-> j]
           step(acc, j) == BuildBlock(sub, t, g, acc, id[j])
           Eq(f, m) == f = [s \in SUBSET (1 .. m) |->
                              IF s = {} THEN Start(g) ELSE step(f[s \ {Max(s)}], Max(s))]
           I == {m \in Nat : \E f : Eq(f, m)}
           h == CHOOSE f : Eq(f, N)
<1>1. DOMAIN id = 1 .. N /\ \A j \in 1 .. N : id[j] = j
  OBVIOUS
<1>2. BuildBlocks(sub, t, g) = h[1 .. N]
  <2>1. BuildBlocks(sub, t, g)
        = (CHOOSE f : f = [s \in SUBSET DOMAIN id |->
             IF s = {} THEN Start(g) ELSE step(f[s \ {Max(s)}], Max(s))])[DOMAIN id]
    BY DEF BuildBlocks, FoldLeftDomain, FoldLeft, MapThenFoldSet
  <2> HIDE DEF step, id
  <2> QED
    BY <1>1, <2>1
<1>3. \A acc, j : j \in 1 .. N => step(acc, j) = BuildBlock(sub, t, g, acc, j)
  BY <1>1
<1> HIDE DEF step, id
<1>4. 0 \in I
  <2>1. SUBSET (1 .. 0) = {{}}
    OBVIOUS
  <2>2. Eq([s \in {{}} |-> Start(g)], 0)
    BY <2>1
  <2> HIDE DEF Eq
  <2> QED
    BY <2>2
<1>5. ASSUME NEW m \in Nat, m \in I PROVE m + 1 \in I
  <2>1. PICK f : Eq(f, m)
    <3> HIDE DEF Eq
    <3> QED BY <1>5
  <2>2. PICK v : v = [s \in SUBSET (1 .. m + 1) |->
                        IF s = {} THEN Start(g) ELSE step(f[s \ {Max(s)}], Max(s))]
    OBVIOUS
  <2>3. ASSUME NEW s \in SUBSET (1 .. m + 1), s # {}
        PROVE  s \ {Max(s)} \in SUBSET (1 .. m) /\ s \ {Max(s)} \in SUBSET (1 .. m + 1)
    <3>1. PICK n \in Nat : n = m + 1
      OBVIOUS
    <3>2. s \in SUBSET (1 .. n) /\ s \subseteq 1 .. m + 1 /\ 1 .. m \subseteq 1 .. m + 1
      BY <3>1
    <3> QED
      BY <2>3, <3>2, MaxIs
  <2>4. ASSUME NEW s \in SUBSET (1 .. m) PROVE v[s] = f[s]
    <3>1. s \in SUBSET (1 .. m + 1)
      OBVIOUS
    <3> QED
      BY <2>1, <2>2, <3>1
  <2>5. ASSUME NEW s \in SUBSET (1 .. m + 1)
        PROVE  v[s] = IF s = {} THEN Start(g) ELSE step(v[s \ {Max(s)}], Max(s))
    <3>1. CASE s = {}
      BY <2>2, <3>1
    <3>2. CASE s # {}
      <4>1. v[s] = step(f[s \ {Max(s)}], Max(s))
        BY <2>2, <3>2
      <4>2. v[s \ {Max(s)}] = f[s \ {Max(s)}]
        BY <2>3, <2>4, <3>2
      <4> QED
        BY <3>2, <4>1, <4>2
    <3> QED
      BY <3>1, <3>2
  <2>6. Eq(v, m + 1)
    <3>1. v = [s \in SUBSET (1 .. m + 1) |-> v[s]]
      BY <2>2
    <3> QED
      BY <2>5, <3>1
  <2> HIDE DEF Eq
  <2> QED
    BY <2>6
<1>6. Eq(h, N)
  <2>1. N \in I
    <3> HIDE DEF I
    <3> QED BY <1>4, <1>5, SetInduction
  <2> HIDE DEF Eq
  <2> QED
    BY <2>1
<1> HIDE DEF h, I
<1>7. PICK u : u = [j \in 0 .. N |-> h[1 .. j]]
  OBVIOUS
<1>8. u[0] = Start(g) /\ u[N] = h[1 .. N]
  <2>1. 1 .. 0 = {} /\ {} \in SUBSET (1 .. N)
    OBVIOUS
  <2>2. h[{}] = Start(g)
    BY <1>6, <2>1
  <2> QED
    BY <1>7, <2>1, <2>2
<1>9. ASSUME NEW j \in 1 .. N PROVE u[j] = BuildBlock(sub, t, g, u[j - 1], j)
  <2>1. 1 .. j # {} /\ Max(1 .. j) = j /\ (1 .. j) \ {j} = 1 .. j - 1
    <3>1. j \in Nat /\ j # 0
      OBVIOUS
    <3> QED
      BY <3>1, Upto
  <2>2. 1 .. j \in SUBSET (1 .. N) /\ j - 1 \in 0 .. N /\ j \in 0 .. N
    OBVIOUS
  <2>3. h[1 .. j] = step(h[1 .. j - 1], j)
    BY <1>6, <2>1, <2>2
  <2> QED
    BY <1>3, <1>7, <2>2, <2>3
<1> QED
  BY <1>2, <1>8, <1>9

LEMMA VisitPartsTurns ==
  ASSUME NEW sub, NEW t, NEW case, NEW within, NEW r,
         NEW N \in Nat, DOMAIN Parts(t, case) = 1 .. N
  PROVE  \E u : /\ u[0] = r /\ VisitParts(sub, t, case, within, r) = u[N]
                /\ \A j \in 1 .. N : u[j] = VisitPart(sub, t, case, within, u[j - 1], j)
<1> DEFINE id == [j \in DOMAIN Parts(t, case) |-> j]
           step(acc, j) == VisitPart(sub, t, case, within, acc, id[j])
           Eq(f, m) == f = [s \in SUBSET (1 .. m) |->
                              IF s = {} THEN r ELSE step(f[s \ {Max(s)}], Max(s))]
           I == {m \in Nat : \E f : Eq(f, m)}
           h == CHOOSE f : Eq(f, N)
<1>1. DOMAIN id = 1 .. N /\ \A j \in 1 .. N : id[j] = j
  OBVIOUS
<1>2. VisitParts(sub, t, case, within, r) = h[1 .. N]
  <2>1. VisitParts(sub, t, case, within, r)
        = (CHOOSE f : f = [s \in SUBSET DOMAIN id |->
             IF s = {} THEN r ELSE step(f[s \ {Max(s)}], Max(s))])[DOMAIN id]
    BY DEF VisitParts, FoldLeftDomain, FoldLeft, MapThenFoldSet
  <2> HIDE DEF step, id
  <2> QED
    BY <1>1, <2>1
<1>3. \A acc, j : j \in 1 .. N => step(acc, j) = VisitPart(sub, t, case, within, acc, j)
  BY <1>1
<1> HIDE DEF step, id
<1>4. 0 \in I
  <2>1. SUBSET (1 .. 0) = {{}}
    OBVIOUS
  <2>2. Eq([s \in {{}} |-> r], 0)
    BY <2>1
  <2> HIDE DEF Eq
  <2> QED
    BY <2>2
<1>5. ASSUME NEW m \in Nat, m \in I PROVE m + 1 \in I
  <2>1. PICK f : Eq(f, m)
    <3> HIDE DEF Eq
    <3> QED BY <1>5
  <2>2. PICK v : v = [s \in SUBSET (1 .. m + 1) |->
                        IF s = {} THEN r ELSE step(f[s \ {Max(s)}], Max(s))]
    OBVIOUS
  <2>3. ASSUME NEW s \in SUBSET (1 .. m + 1), s # {}
        PROVE  s \ {Max(s)} \in SUBSET (1 .. m) /\ s \ {Max(s)} \in SUBSET (1 .. m + 1)
    <3>1. PICK n \in Nat : n = m + 1
      OBVIOUS
    <3>2. s \in SUBSET (1 .. n) /\ s \subseteq 1 .. m + 1 /\ 1 .. m \subseteq 1 .. m + 1
      BY <3>1
    <3> QED
      BY <2>3, <3>2, MaxIs
  <2>4. ASSUME NEW s \in SUBSET (1 .. m) PROVE v[s] = f[s]
    <3>1. s \in SUBSET (1 .. m + 1)
      OBVIOUS
    <3> QED
      BY <2>1, <2>2, <3>1
  <2>5. ASSUME NEW s \in SUBSET (1 .. m + 1)
        PROVE  v[s] = IF s = {} THEN r ELSE step(v[s \ {Max(s)}], Max(s))
    <3>1. CASE s = {}
      BY <2>2, <3>1
    <3>2. CASE s # {}
      <4>1. v[s] = step(f[s \ {Max(s)}], Max(s))
        BY <2>2, <3>2
      <4>2. v[s \ {Max(s)}] = f[s \ {Max(s)}]
        BY <2>3, <2>4, <3>2
      <4> QED
        BY <3>2, <4>1, <4>2
    <3> QED
      BY <3>1, <3>2
  <2>6. Eq(v, m + 1)
    <3>1. v = [s \in SUBSET (1 .. m + 1) |-> v[s]]
      BY <2>2
    <3> QED
      BY <2>5, <3>1
  <2> HIDE DEF Eq
  <2> QED
    BY <2>6
<1>6. Eq(h, N)
  <2>1. N \in I
    <3> HIDE DEF I
    <3> QED BY <1>4, <1>5, SetInduction
  <2> HIDE DEF Eq
  <2> QED
    BY <2>1
<1> HIDE DEF h, I
<1>7. PICK u : u = [j \in 0 .. N |-> h[1 .. j]]
  OBVIOUS
<1>8. u[0] = r /\ u[N] = h[1 .. N]
  <2>1. 1 .. 0 = {} /\ {} \in SUBSET (1 .. N)
    OBVIOUS
  <2>2. h[{}] = r
    BY <1>6, <2>1
  <2> QED
    BY <1>7, <2>1, <2>2
<1>9. ASSUME NEW j \in 1 .. N PROVE u[j] = VisitPart(sub, t, case, within, u[j - 1], j)
  <2>1. 1 .. j # {} /\ Max(1 .. j) = j /\ (1 .. j) \ {j} = 1 .. j - 1
    <3>1. j \in Nat /\ j # 0
      OBVIOUS
    <3> QED
      BY <3>1, Upto
  <2>2. 1 .. j \in SUBSET (1 .. N) /\ j - 1 \in 0 .. N /\ j \in 0 .. N
    OBVIOUS
  <2>3. h[1 .. j] = step(h[1 .. j - 1], j)
    BY <1>6, <2>1, <2>2
  <2> QED
    BY <1>3, <1>7, <2>2, <2>3
<1> QED
  BY <1>2, <1>8, <1>9

(* The nested calls, by how many of them fit on the stack. *)

NoBuild == [t \in DOMAIN Ty |-> [g \in Nat |-> [Start(g) EXCEPT !.err = <<[error |-> "overflow"]>>]]]
BuildCalls(d, sub) == [t \in DOMAIN Ty |-> [g \in Nat |-> BuildAt(d, sub, t, g)]]
NoVisit == [t \in DOMAIN Ty |-> [k \in Nat |-> [Nothing(k) EXCEPT !.res = "overflow"]]]
VisitCalls(how, vals, sub) == [t \in DOMAIN Ty |-> [k \in Nat |-> VisitAt(how, vals, sub, t, k)]]

LEMMA BuildsNest ==
  ASSUME NEW d
  PROVE  \E b : /\ b = Builds(d) /\ b[0] = NoBuild
                /\ \A n \in Nat : n + 1 <= Depth => b[n + 1] = BuildCalls(d, b[n])
<1> DEFINE zero == NoBuild
           step(b) == BuildCalls(d, b)
           Eq(f, m) == f = [n \in 0 .. m |-> IF n = 0 THEN zero ELSE step(f[n - 1])]
           I == {m \in Nat : \E f : Eq(f, m)}
<1>1. Builds(d) = CHOOSE f : Eq(f, Depth)
  <2> DEFINE at(f, n) == [t \in DOMAIN Ty |-> [g \in Nat |->
                            IF n = 0 THEN [Start(g) EXCEPT !.err = <<[error |-> "overflow"]>>]
                            ELSE BuildAt(d, f[n - 1], t, g)]]
             F(f) == [n \in 0 .. Depth |-> at(f, n)]
             G(f) == [n \in 0 .. Depth |-> IF n = 0 THEN zero ELSE step(f[n - 1])]
  <2>1. Builds(d) = CHOOSE f : f = F(f)
    BY DEF Builds
  <2>2. \A f : \A n \in 0 .. Depth : at(f, n) = IF n = 0 THEN zero ELSE step(f[n - 1])
    BY DEF NoBuild, BuildCalls
  <2>3. \A f : F(f) = G(f)
    <3> HIDE DEF at, zero, step
    <3> QED BY <2>2
  <2>4. (CHOOSE f : f = F(f)) = (CHOOSE f : f = G(f))
    <3> HIDE DEF F, G
    <3> QED BY <2>3
  <2> QED
    BY <2>1, <2>4
<1> HIDE DEF zero, step
<1>2. 0 \in I
  <2>1. Eq([n \in 0 .. 0 |-> zero], 0)
    OBVIOUS
  <2> HIDE DEF Eq
  <2> QED
    BY <2>1
<1>3. ASSUME NEW m \in Nat, m \in I PROVE m + 1 \in I
  <2>1. PICK w : Eq(w, m)
    BY <1>3
  <2>2. PICK v : v = [n \in 0 .. m + 1 |-> IF n = 0 THEN zero ELSE step(w[n - 1])]
    OBVIOUS
  <2>3. ASSUME NEW n \in 0 .. m PROVE v[n] = w[n]
    BY <2>1, <2>2
  <2>4. ASSUME NEW n \in 0 .. m + 1 PROVE v[n] = IF n = 0 THEN zero ELSE step(v[n - 1])
    <3>1. CASE n = 0
      BY <2>2, <3>1
    <3>2. CASE n # 0
      <4>1. n - 1 \in 0 .. m
        BY <3>2
      <4>2. v[n] = step(w[n - 1])
        BY <2>2, <3>2
      <4>3. v[n - 1] = w[n - 1]
        BY <2>3, <4>1
      <4> QED
        BY <3>2, <4>2, <4>3
    <3> QED
      BY <3>1, <3>2
  <2>5. Eq(v, m + 1)
    <3>1. v = [n \in 0 .. m + 1 |-> v[n]]
      BY <2>2
    <3> QED
      BY <2>4, <3>1
  <2> HIDE DEF Eq
  <2> QED
    BY <2>5
<1>4. Depth \in Nat
  BY DrawsAssumption
<1>5. Depth \in I
  <2> HIDE DEF I
  <2> QED BY <1>2, <1>3, <1>4, SetInduction
<1>6. PICK b : b = Builds(d)
  OBVIOUS
<1>7. Eq(b, Depth)
  <2>1. \E f : Eq(f, Depth)
    BY <1>5
  <2>2. b = CHOOSE f : Eq(f, Depth)
    BY <1>1, <1>6
  <2> HIDE DEF Eq
  <2> QED
    BY <2>1, <2>2
<1>8. b[0] = zero
  BY <1>4, <1>7
<1>9. ASSUME NEW n \in Nat, n + 1 <= Depth PROVE b[n + 1] = step(b[n])
  <2>1. PICK i \in 0 .. Depth : i = n + 1 /\ i # 0 /\ i - 1 = n
    BY <1>4, <1>9
  <2>2. b[i] = step(b[i - 1])
    BY <1>7, <2>1
  <2> QED
    BY <2>1, <2>2
<1> QED
  BY <1>6, <1>8, <1>9 DEF zero, step

LEMMA VisitsNest ==
  ASSUME NEW how, NEW vals
  PROVE  \E b : /\ b = Visits(how, vals) /\ b[0] = NoVisit
                /\ \A n \in Nat : n + 1 <= Depth => b[n + 1] = VisitCalls(how, vals, b[n])
<1> DEFINE zero == NoVisit
           step(b) == VisitCalls(how, vals, b)
           Eq(f, m) == f = [n \in 0 .. m |-> IF n = 0 THEN zero ELSE step(f[n - 1])]
           I == {m \in Nat : \E f : Eq(f, m)}
<1>1. Visits(how, vals) = CHOOSE f : Eq(f, Depth)
  <2> DEFINE at(f, n) == [t \in DOMAIN Ty |-> [k \in Nat |->
                            IF n = 0 THEN [Nothing(k) EXCEPT !.res = "overflow"]
                            ELSE VisitAt(how, vals, f[n - 1], t, k)]]
             F(f) == [n \in 0 .. Depth |-> at(f, n)]
             G(f) == [n \in 0 .. Depth |-> IF n = 0 THEN zero ELSE step(f[n - 1])]
  <2>1. Visits(how, vals) = CHOOSE f : f = F(f)
    BY DEF Visits
  <2>2. \A f : \A n \in 0 .. Depth : at(f, n) = IF n = 0 THEN zero ELSE step(f[n - 1])
    BY DEF NoVisit, VisitCalls
  <2>3. \A f : F(f) = G(f)
    <3> HIDE DEF at, zero, step
    <3> QED BY <2>2
  <2>4. (CHOOSE f : f = F(f)) = (CHOOSE f : f = G(f))
    <3> HIDE DEF F, G
    <3> QED BY <2>3
  <2> QED
    BY <2>1, <2>4
<1> HIDE DEF zero, step
<1>2. 0 \in I
  <2>1. Eq([n \in 0 .. 0 |-> zero], 0)
    OBVIOUS
  <2> HIDE DEF Eq
  <2> QED
    BY <2>1
<1>3. ASSUME NEW m \in Nat, m \in I PROVE m + 1 \in I
  <2>1. PICK w : Eq(w, m)
    BY <1>3
  <2>2. PICK v : v = [n \in 0 .. m + 1 |-> IF n = 0 THEN zero ELSE step(w[n - 1])]
    OBVIOUS
  <2>3. ASSUME NEW n \in 0 .. m PROVE v[n] = w[n]
    BY <2>1, <2>2
  <2>4. ASSUME NEW n \in 0 .. m + 1 PROVE v[n] = IF n = 0 THEN zero ELSE step(v[n - 1])
    <3>1. CASE n = 0
      BY <2>2, <3>1
    <3>2. CASE n # 0
      <4>1. n - 1 \in 0 .. m
        BY <3>2
      <4>2. v[n] = step(w[n - 1])
        BY <2>2, <3>2
      <4>3. v[n - 1] = w[n - 1]
        BY <2>3, <4>1
      <4> QED
        BY <3>2, <4>2, <4>3
    <3> QED
      BY <3>1, <3>2
  <2>5. Eq(v, m + 1)
    <3>1. v = [n \in 0 .. m + 1 |-> v[n]]
      BY <2>2
    <3> QED
      BY <2>4, <3>1
  <2> HIDE DEF Eq
  <2> QED
    BY <2>5
<1>4. Depth \in Nat
  BY DrawsAssumption
<1>5. Depth \in I
  <2> HIDE DEF I
  <2> QED BY <1>2, <1>3, <1>4, SetInduction
<1>6. PICK b : b = Visits(how, vals)
  OBVIOUS
<1>7. Eq(b, Depth)
  <2>1. \E f : Eq(f, Depth)
    BY <1>5
  <2>2. b = CHOOSE f : Eq(f, Depth)
    BY <1>1, <1>6
  <2> HIDE DEF Eq
  <2> QED
    BY <2>1, <2>2
<1>8. b[0] = zero
  BY <1>4, <1>7
<1>9. ASSUME NEW n \in Nat, n + 1 <= Depth PROVE b[n + 1] = step(b[n])
  <2>1. PICK i \in 0 .. Depth : i = n + 1 /\ i # 0 /\ i - 1 = n
    BY <1>4, <1>9
  <2>2. b[i] = step(b[i - 1])
    BY <1>7, <2>1
  <2> QED
    BY <2>1, <2>2
<1> QED
  BY <1>6, <1>8, <1>9 DEF zero, step

-----------------------------------------------------------------------------
(* What build_values makes *)

(* vals are those with the numbers from g on, as d draws them. *)
Drawn(d, vals, g) ==
  /\ vals \in Seq(Value)
  /\ \A i \in 1 .. Len(vals) : /\ vals[i].num = g + i - 1
                               /\ vals[i].pick = Pick(d, g + i - 1)
                               /\ Kind(vals[i].ty) \in Taking

Built3(b) == b = [vals |-> b.vals, next |-> b.next, err |-> b.err]
BuiltWell(d, g, b) ==
  /\ Built3(b)
  /\ b.err = <<>> => Drawn(d, b.vals, g) /\ b.next = g + Len(b.vals)
BuildsWell(d, sub) == \A t \in DOMAIN Ty, g \in Nat : BuiltWell(d, g, sub[t][g])

LEMMA PickTyped ==
  ASSUME NEW d \in Draws, NEW g \in Nat
  PROVE  Pick(d, g) \in Nat
<1>1. d \in Seq(Nat)
  BY DrawsAssumption
<1>2. CASE g < Len(d)
  <2>1. g + 1 \in 1 .. Len(d)
    BY <1>1, <1>2
  <2> QED
    BY <1>1, <1>2, <2>1 DEF Pick
<1>3. CASE ~(g < Len(d))
  BY <1>3 DEF Pick
<1> QED
  BY <1>2, <1>3

LEMMA SegmentTyped ==
  ASSUME NEW t, NEW case \in Nat, NEW k \in Nat
  PROVE  Segment(t, case, k) \in Seq(Nat \X Nat)
<1>1. <<case, k>> \in Nat \X Nat
  OBVIOUS
<1>2. PICK S : S = Nat \X Nat
  OBVIOUS
<1>3. <<<<case, k>>>> \in Seq(S) /\ <<>> \in Seq(S)
  BY <1>1, <1>2
<1> QED
  BY <1>2, <1>3 DEF Segment

LEMMA UnderIs ==
  ASSUME NEW segment \in Seq(Nat \X Nat), NEW list \in Seq(Value)
  PROVE  /\ Under(segment, list) \in Seq(Value)
         /\ Len(Under(segment, list)) = Len(list)
         /\ \A i \in 1 .. Len(list) :
              /\ Under(segment, list)[i].num = list[i].num
              /\ Under(segment, list)[i].pick = list[i].pick
              /\ Under(segment, list)[i].ty = list[i].ty
              /\ Under(segment, list)[i].path = segment \o list[i].path
<1>1. Len(list) \in Nat /\ DOMAIN list = 1 .. Len(list) /\ \A i \in 1 .. Len(list) : list[i] \in Value
  BY LenProperties
<1>2. ASSUME NEW v \in Value
      PROVE  /\ [v EXCEPT !.path = segment \o @] \in Value
             /\ [v EXCEPT !.path = segment \o @].num = v.num
             /\ [v EXCEPT !.path = segment \o @].pick = v.pick
             /\ [v EXCEPT !.path = segment \o @].ty = v.ty
             /\ [v EXCEPT !.path = segment \o @].path = segment \o v.path
  <2>1. PICK S : S = Nat \X Nat
    OBVIOUS
  <2>2. v.path \in Seq(S) /\ segment \in Seq(S)
    BY <2>1 DEF Value
  <2>3. segment \o v.path \in Seq(S)
    BY <2>2
  <2> QED
    BY <2>1, <2>3 DEF Value
<1>3. PICK u : u = Under(segment, list)
  OBVIOUS
<1>4. u = [i \in 1 .. Len(list) |-> [list[i] EXCEPT !.path = segment \o @]]
  BY <1>1, <1>3 DEF Under
<1>5. \A i \in 1 .. Len(list) :
        /\ u[i] \in Value
        /\ u[i].num = list[i].num /\ u[i].pick = list[i].pick
        /\ u[i].ty = list[i].ty /\ u[i].path = segment \o list[i].path
  BY <1>1, <1>2, <1>4
<1>6. u \in Seq(Value) /\ Len(u) = Len(list)
  <2>1. DOMAIN u = 1 .. Len(list) /\ \A i \in 1 .. Len(list) : u[i] \in Value
    BY <1>4, <1>5
  <2>2. u \in [1 .. Len(list) -> Value]
    BY <1>4, <1>5
  <2> QED
    BY <1>1, <2>2
<1> QED
  BY <1>3, <1>5, <1>6

(* Where the elements of a concatenation are. *)
LEMMA ConcatIs ==
  ASSUME NEW T, NEW v \in Seq(T), NEW w \in Seq(T)
  PROVE  /\ v \o w \in Seq(T) /\ Len(v) \in Nat /\ Len(w) \in Nat
         /\ Len(v \o w) = Len(v) + Len(w)
         /\ \A i \in 1 .. Len(v) : (v \o w)[i] = v[i]
         /\ \A i \in 1 .. Len(w) : (v \o w)[Len(v) + i] = w[i]
         /\ \A i \in 1 .. Len(v) + Len(w) :
              i \in 1 .. Len(v) \/ \E j \in 1 .. Len(w) : i = Len(v) + j
<1>1. Len(v) \in Nat /\ Len(w) \in Nat
  BY LenProperties
<1>2. PICK m \in Nat : m = Len(v)
  BY <1>1
<1>3. PICK n \in Nat : n = Len(w)
  BY <1>1
<1>4. ASSUME NEW i \in 1 .. m + n PROVE i \in 1 .. m \/ \E j \in 1 .. n : i = m + j
  <2>1. CASE i <= m
    BY <2>1
  <2>2. CASE ~(i <= m)
    <3>1. i - m \in 1 .. n /\ i = m + (i - m)
      BY <2>2
    <3> QED
      BY <3>1
  <2> QED
    BY <2>1, <2>2
<1>5. v \o w \in Seq(T) /\ Len(v \o w) = m + n
  BY <1>2, <1>3
<1>6. \A i \in 1 .. m + n : (v \o w)[i] = IF i <= m THEN v[i] ELSE w[i - m]
  BY <1>2, <1>3
<1>7. \A i \in 1 .. m : i \in 1 .. m + n /\ i <= m
  OBVIOUS
<1>8. \A i \in 1 .. n : m + i \in 1 .. m + n /\ ~(m + i <= m) /\ m + i - m = i
  OBVIOUS
<1>9. \A i \in 1 .. m : (v \o w)[i] = v[i]
  BY <1>6, <1>7
<1>10. ASSUME NEW i \in 1 .. n PROVE (v \o w)[m + i] = w[i]
  <2>1. PICK x \in 1 .. m + n : x = m + i /\ ~(x <= m) /\ x - m = i
    BY <1>8
  <2> QED
    BY <1>6, <2>1
<1> QED
  BY <1>2, <1>3, <1>4, <1>5, <1>9, <1>10

LEMMA DrawnMore ==
  ASSUME NEW d, NEW g \in Nat, NEW v, NEW w, Drawn(d, v, g), Drawn(d, w, g + Len(v))
  PROVE  Drawn(d, v \o w, g)
<1>1. v \in Seq(Value) /\ w \in Seq(Value) /\ Len(v) \in Nat /\ Len(w) \in Nat
  BY LenProperties DEF Drawn
<1>2. PICK x : x = v \o w
  OBVIOUS
<1>3. x \in Seq(Value) /\ Len(x) = Len(v) + Len(w)
  BY <1>1, <1>2, ConcatIs
<1>4. ASSUME NEW i \in 1 .. Len(v) + Len(w)
      PROVE  /\ x[i].num = g + i - 1 /\ x[i].pick = Pick(d, g + i - 1)
             /\ Kind(x[i].ty) \in Taking
  <2>1. CASE i \in 1 .. Len(v)
    <3>1. x[i] = v[i]
      BY <1>1, <1>2, <2>1, ConcatIs
    <3> QED
      BY <2>1, <3>1 DEF Drawn
  <2>2. CASE \E j \in 1 .. Len(w) : i = Len(v) + j
    <3>1. PICK j \in 1 .. Len(w) : i = Len(v) + j
      BY <2>2
    <3>2. x[i] = w[j]
      BY <1>1, <1>2, <3>1, ConcatIs
    <3>3. g + Len(v) + j - 1 = g + i - 1
      BY <1>1, <3>1
    <3> QED
      BY <3>2, <3>3 DEF Drawn
  <2> QED
    BY <1>1, <2>1, <2>2, ConcatIs
<1> QED
  BY <1>2, <1>3, <1>4 DEF Drawn

(* The turns of BuildParts keep it, and take from what was there. *)
PartTurns(sub, t, case, u, N) == \A j \in 1 .. N : u[j] = BuildPart(sub, t, case, u[j - 1], j)

PartBuilt(d, g, sub, t, case, acc, j, out) ==
  /\ BuiltWell(d, g, out)
  /\ out.err = <<>> =>
       LET new == sub[Parts(t, case)[j]][acc.next]
       IN  /\ acc.err = <<>> /\ acc.next \in Nat /\ new.err = <<>>
           /\ BuiltWell(d, acc.next, new)
           /\ out = [vals |-> acc.vals \o Under(Segment(t, case, j), new.vals),
                     next |-> new.next, err |-> <<>>]

LEMMA BuildPartWell ==
  ASSUME NEW d \in Draws, NEW g \in Nat, NEW sub, BuildsWell(d, sub),
         NEW t \in DOMAIN Ty, NEW case \in Nat, NEW j \in 1 .. Len(Parts(t, case)),
         NEW acc, BuiltWell(d, g, acc)
  PROVE  PartBuilt(d, g, sub, t, case, acc, j, BuildPart(sub, t, case, acc, j))
<1>1. CASE acc.err # <<>>
  BY <1>1 DEF BuildPart, PartBuilt
<1>2. CASE acc.err = <<>>
  <2>1. Drawn(d, acc.vals, g) /\ acc.next = g + Len(acc.vals) /\ acc.vals \in Seq(Value)
    BY <1>2 DEF BuiltWell, Drawn
  <2>2. acc.next \in Nat /\ Len(acc.vals) \in Nat
    BY <2>1, LenProperties
  <2>3. Parts(t, case)[j] \in DOMAIN Ty
    BY TypeFacts
  <2>4. PICK new : new = sub[Parts(t, case)[j]][acc.next]
    OBVIOUS
  <2>5. BuiltWell(d, acc.next, new)
    BY <2>2, <2>3, <2>4 DEF BuildsWell
  <2>6. PICK more : more = Under(Segment(t, case, j), new.vals)
    OBVIOUS
  <2>7. BuildPart(sub, t, case, acc, j)
        = [vals |-> acc.vals \o more, next |-> new.next, err |-> new.err]
    BY <1>2, <2>4, <2>5, <2>6 DEF BuildPart, BuiltWell, Built3
  <2>8. ASSUME new.err = <<>>
        PROVE  Drawn(d, acc.vals \o more, g) /\ new.next = g + Len(acc.vals \o more)
    <3>1. Drawn(d, new.vals, acc.next) /\ new.next = acc.next + Len(new.vals)
      BY <2>5, <2>8 DEF BuiltWell
    <3>2. new.vals \in Seq(Value) /\ Len(new.vals) \in Nat
      BY <3>1, LenProperties DEF Drawn
    <3>3. Segment(t, case, j) \in Seq(Nat \X Nat)
      BY SegmentTyped
    <3>4. /\ more \in Seq(Value) /\ Len(more) = Len(new.vals)
          /\ \A i \in 1 .. Len(new.vals) :
               /\ more[i].num = new.vals[i].num /\ more[i].pick = new.vals[i].pick
               /\ more[i].ty = new.vals[i].ty
      BY <2>6, <3>2, <3>3, UnderIs
    <3>5. Drawn(d, more, acc.next)
      BY <3>1, <3>4 DEF Drawn
    <3>6. Drawn(d, acc.vals \o more, g)
      BY <2>1, <3>5, DrawnMore
    <3>7. Len(acc.vals \o more) = Len(acc.vals) + Len(more)
      <4>1. more \in Seq(Value) /\ acc.vals \in Seq(Value)
        BY <2>1, <3>4
      <4> QED
        BY <4>1, ConcatIs
    <3>8. PICK m \in Nat : m = Len(acc.vals)
      BY <2>2
    <3>9. PICK n \in Nat : n = Len(new.vals)
      BY <3>2
    <3>10. new.next = acc.next + n /\ acc.next = g + m /\ Len(more) = n
      BY <2>1, <3>1, <3>4, <3>8, <3>9
    <3>11. new.next = g + (m + n)
      BY <3>10
    <3> QED
      BY <3>6, <3>7, <3>8, <3>10, <3>11
  <2>9. BuiltWell(d, g, BuildPart(sub, t, case, acc, j))
    BY <2>7, <2>8 DEF BuiltWell, Built3
  <2>10. BuildPart(sub, t, case, acc, j).err = new.err
    BY <2>7
  <2>11. new.err = <<>> => BuildPart(sub, t, case, acc, j)
           = [vals |-> acc.vals \o more, next |-> new.next, err |-> <<>>]
    BY <2>7
  <2> QED
    BY <1>2, <2>2, <2>4, <2>5, <2>6, <2>9, <2>10, <2>11 DEF PartBuilt
<1> QED
  BY <1>1, <1>2

LEMMA PartTurnsWell ==
  ASSUME NEW d \in Draws, NEW g \in Nat, NEW sub, BuildsWell(d, sub),
         NEW t \in DOMAIN Ty, NEW case \in Nat, NEW N \in Nat, N = Len(Parts(t, case)),
         NEW u, PartTurns(sub, t, case, u, N), BuiltWell(d, g, u[0])
  PROVE  \A j \in 0 .. N :
           /\ BuiltWell(d, g, u[j])
           /\ u[j].err = <<>> => u[0].err = <<>> /\ Len(u[0].vals) <= Len(u[j].vals)
<1> DEFINE Good(j) == /\ BuiltWell(d, g, u[j])
                      /\ u[j].err = <<>> => u[0].err = <<>> /\ Len(u[0].vals) <= Len(u[j].vals)
           I == {j \in Nat : j <= N => Good(j)}
<1>1. 0 \in I
  <2>1. u[0].err = <<>> => Len(u[0].vals) \in Nat
    BY LenProperties DEF BuiltWell, Drawn
  <2> QED
    BY <2>1
<1>2. ASSUME NEW j \in Nat, j \in I PROVE j + 1 \in I
  <2> SUFFICES ASSUME j + 1 <= N PROVE Good(j + 1)
    <3> HIDE DEF Good
    <3> QED OBVIOUS
  <2>1. Good(j)
    <3> HIDE DEF Good
    <3> QED BY <1>2
  <2>2. PICK i \in 1 .. N : i = j + 1 /\ i - 1 = j
    OBVIOUS
  <2>3. u[i] = BuildPart(sub, t, case, u[j], i)
    BY <2>2 DEF PartTurns
  <2>4. i \in 1 .. Len(Parts(t, case)) /\ BuiltWell(d, g, u[j])
    BY <2>1
  <2>7. PartBuilt(d, g, sub, t, case, u[j], i, BuildPart(sub, t, case, u[j], i))
    BY <2>4, BuildPartWell
  <2>8. PartBuilt(d, g, sub, t, case, u[j], i, u[i])
    BY <2>3, <2>7
  <2>6. BuiltWell(d, g, u[i])
    BY <2>8 DEF PartBuilt
  <2>5. ASSUME u[i].err = <<>> PROVE u[0].err = <<>> /\ Len(u[0].vals) <= Len(u[i].vals)
    <3>1. PICK new : new = sub[Parts(t, case)[i]][u[j].next]
      OBVIOUS
    <3>2. /\ u[j].err = <<>> /\ new.err = <<>> /\ u[j].next \in Nat /\ BuiltWell(d, u[j].next, new)
          /\ u[i] = [vals |-> u[j].vals \o Under(Segment(t, case, i), new.vals),
                     next |-> new.next, err |-> <<>>]
      BY <2>5, <2>8, <3>1 DEF PartBuilt
    <3>3. u[j].vals \in Seq(Value) /\ new.vals \in Seq(Value) /\ u[0].vals \in Seq(Value)
      BY <2>1, <3>2 DEF BuiltWell, Drawn
    <3>4. Segment(t, case, i) \in Seq(Nat \X Nat)
      BY SegmentTyped
    <3>8. PICK more : more = Under(Segment(t, case, i), new.vals)
      OBVIOUS
    <3>9. more \in Seq(Value) /\ Len(more) = Len(new.vals)
      BY <3>3, <3>4, <3>8, UnderIs
    <3>10. u[i].vals = u[j].vals \o more
      <4>1. u[i] = [vals |-> u[j].vals \o more, next |-> new.next, err |-> <<>>]
        BY <3>2, <3>8
      <4> QED
        BY <4>1
    <3>11. Len(u[j].vals \o more) = Len(u[j].vals) + Len(more)
      BY <3>3, <3>9, ConcatIs
    <3>5. Len(u[i].vals) = Len(u[j].vals) + Len(new.vals)
      BY <3>9, <3>10, <3>11
    <3>6. Len(u[j].vals) \in Nat /\ Len(new.vals) \in Nat /\ Len(u[0].vals) \in Nat
      BY <3>3, LenProperties
    <3>7. Len(u[0].vals) <= Len(u[j].vals) /\ u[0].err = <<>>
      BY <2>1, <3>2
    <3>12. \A a, b, c \in Nat : a <= b => a <= b + c
      OBVIOUS
    <3>13. Len(u[0].vals) <= Len(u[j].vals) + Len(new.vals)
      BY <3>6, <3>7, <3>12
    <3> QED
      BY <3>5, <3>7, <3>13
  <2> QED
    BY <2>2, <2>5, <2>6
<1>3. \A j \in Nat : j \in I
  <2> HIDE DEF I
  <2> QED BY <1>1, <1>2, SetInduction
<1> QED
  BY <1>3

LEMMA BuildPartsWell ==
  ASSUME NEW d \in Draws, NEW g \in Nat, NEW sub, BuildsWell(d, sub),
         NEW t \in DOMAIN Ty, NEW case \in Nat, NEW r, BuiltWell(d, g, r)
  PROVE  /\ BuiltWell(d, g, BuildParts(sub, t, case, r))
         /\ BuildParts(sub, t, case, r).err = <<>> =>
              r.err = <<>> /\ Len(r.vals) <= Len(BuildParts(sub, t, case, r).vals)
<1>1. PICK N \in Nat : N = Len(Parts(t, case)) /\ DOMAIN Parts(t, case) = 1 .. N
  BY TypeFacts
<1>2. PICK u : /\ u[0] = r /\ BuildParts(sub, t, case, r) = u[N]
               /\ \A j \in 1 .. N : u[j] = BuildPart(sub, t, case, u[j - 1], j)
  BY <1>1, BuildPartsTurns
<1>3. PartTurns(sub, t, case, u, N) /\ N \in 0 .. N
  BY <1>2 DEF PartTurns
<1> QED
  BY <1>1, <1>2, <1>3, PartTurnsWell

(* All blocks of a pun make as many values. *)
LEMMA BuildBlocksWell ==
  ASSUME NEW d \in Draws, NEW g \in Nat, NEW sub, BuildsWell(d, sub),
         NEW t \in DOMAIN Ty, Kind(t) = "pun"
  PROVE  /\ BuiltWell(d, g, BuildBlocks(sub, t, g))
         /\ BuildBlocks(sub, t, g).err = <<>> =>
              \A b \in DOMAIN Cases(t) :
                LET new == sub[Cases(t)[b][1]][g]
                IN  new.err = <<>> /\ Len(new.vals) = Len(BuildBlocks(sub, t, g).vals)
<1>1. PICK N \in Nat : N = Len(Cases(t)) /\ DOMAIN Cases(t) = 1 .. N
  BY TypeFacts
<1>2. PICK u : /\ u[0] = Start(g) /\ BuildBlocks(sub, t, g) = u[N]
               /\ \A j \in 1 .. N : u[j] = BuildBlock(sub, t, g, u[j - 1], j)
  BY <1>1, BuildBlocksTurns
<1>3. PICK w : w = [b \in 1 .. N |-> sub[Cases(t)[b][1]][g]]
  OBVIOUS
<1>4. \A b \in 1 .. N : w[b] = sub[Cases(t)[b][1]][g] /\ BuiltWell(d, g, w[b])
  <2>1. \A b \in 1 .. N : Cases(t)[b][1] \in DOMAIN Ty
    BY <1>1, PunFacts
  <2> QED
    BY <1>3, <2>1 DEF BuildsWell
<1> DEFINE Good(j) == /\ BuiltWell(d, g, u[j])
                      /\ u[j].err = <<>> =>
                           \A b \in 1 .. j : w[b].err = <<>> /\ Len(w[b].vals) = Len(u[j].vals)
           I == {j \in Nat : j <= N => Good(j)}
<1>5. 0 \in I
  <2>1. PICK e : e = <<>>
    OBVIOUS
  <2>2. e \in Seq(Value) /\ Len(e) = 0 /\ u[0] = [vals |-> e, next |-> g, err |-> e]
    BY <1>2, <2>1 DEF Start
  <2>3. Drawn(d, e, g)
    BY <2>2 DEF Drawn
  <2>4. BuiltWell(d, g, u[0])
    BY <2>1, <2>2, <2>3 DEF BuiltWell, Built3
  <2> QED
    BY <2>4
<1>6. ASSUME NEW j \in Nat, j \in I PROVE j + 1 \in I
  <2> SUFFICES ASSUME j + 1 <= N PROVE Good(j + 1)
    <3> HIDE DEF Good
    <3> QED OBVIOUS
  <2>1. Good(j)
    <3> HIDE DEF Good
    <3> QED BY <1>6
  <2>2. PICK i \in 1 .. N : i = j + 1 /\ i - 1 = j
    OBVIOUS
  <2>3. u[i] = BuildBlock(sub, t, g, u[j], i) /\ w[i] = sub[Cases(t)[i][1]][g]
    BY <1>2, <1>4, <2>2
  <2>4. CASE u[j].err # <<>>
    <3>1. u[i] = u[j]
      BY <2>3, <2>4 DEF BuildBlock
    <3> QED
      BY <2>1, <2>2, <2>4, <3>1
  <2>5. CASE u[j].err = <<>> /\ w[i].err = <<>> /\ i > 1 /\ Len(u[j].vals) # Len(w[i].vals)
    <3>1. PICK e : e = [error |-> "MismatchedPunVals", pun |-> t,
                        block1 |-> i,     block1_val_count |-> Len(u[j].vals),
                        block2 |-> i - 1, block2_val_count |-> Len(u[j].vals)]
      OBVIOUS
    <3>2. u[i] = [u[j] EXCEPT !.err = <<e>>]
      BY <2>3, <2>5, <3>1 DEF BuildBlock
    <3>3. u[j] = [vals |-> u[j].vals, next |-> u[j].next, err |-> u[j].err]
      BY <2>1 DEF BuiltWell, Built3
    <3>4. u[i] = [vals |-> u[j].vals, next |-> u[j].next, err |-> <<e>>]
      BY <3>2, <3>3
    <3>5. u[i].err # <<>> /\ Built3(u[i])
      BY <3>4 DEF Built3
    <3> QED
      BY <2>2, <3>5 DEF BuiltWell
  <2>6. CASE u[j].err = <<>> /\ ~(w[i].err = <<>> /\ i > 1 /\ Len(u[j].vals) # Len(w[i].vals))
    <3>1. u[i] = w[i]
      BY <2>3, <2>6 DEF BuildBlock
    <3>2. BuiltWell(d, g, u[i])
      BY <1>4, <3>1
    <3>3. ASSUME u[i].err = <<>>, NEW b \in 1 .. i
          PROVE  w[b].err = <<>> /\ Len(w[b].vals) = Len(u[i].vals)
      <4>1. CASE b = i
        BY <3>1, <3>3, <4>1
      <4>2. CASE b # i
        <5>1. b \in 1 .. j /\ i > 1
          BY <2>2, <4>2
        <5>2. Len(u[j].vals) = Len(w[i].vals)
          BY <2>6, <3>1, <3>3, <5>1
        <5> QED
          BY <2>1, <2>6, <3>1, <5>1, <5>2
      <4> QED
        BY <4>1, <4>2
    <3> QED
      BY <2>2, <3>2, <3>3
  <2> QED
    BY <2>4, <2>5, <2>6
<1>7. Good(N)
  <2>1. N \in I
    <3> HIDE DEF I
    <3> QED BY <1>5, <1>6, SetInduction
  <2> HIDE DEF Good
  <2> QED
    BY <2>1
<1> QED
  BY <1>1, <1>2, <1>4, <1>7

First(d, t, g) == [num |-> g, pick |-> Pick(d, g), ty |-> t, path |-> <<>>]
One(d, t, g) == [vals |-> <<First(d, t, g)>>, next |-> g + 1, err |-> <<>>]

LEMMA StartWell ==
  ASSUME NEW d, NEW g \in Nat
  PROVE  BuiltWell(d, g, Start(g)) /\ Len(Start(g).vals) = 0 /\ Start(g).err = <<>>
<1>1. PICK e : e = <<>>
  OBVIOUS
<1>2. e \in Seq(Value) /\ Len(e) = 0 /\ Start(g) = [vals |-> e, next |-> g, err |-> e]
  BY <1>1 DEF Start
<1>3. Drawn(d, e, g)
  BY <1>2 DEF Drawn
<1> QED
  BY <1>1, <1>2, <1>3 DEF BuiltWell, Built3

LEMMA OneWell ==
  ASSUME NEW d \in Draws, NEW g \in Nat, NEW t \in DOMAIN Ty, Kind(t) \in Taking
  PROVE  BuiltWell(d, g, One(d, t, g)) /\ Len(One(d, t, g).vals) = 1
<1>1. PICK val : val = First(d, t, g)
  OBVIOUS
<1>2. /\ val \in Value /\ val.num = g /\ val.pick = Pick(d, g) /\ val.ty = t
  <2>1. PICK S : S = Nat \X Nat
    OBVIOUS
  <2>2. <<>> \in Seq(S)
    OBVIOUS
  <2>3. Pick(d, g) \in Nat
    BY PickTyped
  <2> QED
    BY <1>1, <2>1, <2>2, <2>3 DEF First, Value
<1>3. PICK l : l = <<val>>
  OBVIOUS
<1>4. l \in Seq(Value) /\ Len(l) = 1 /\ l[1] = val
  BY <1>2, <1>3
<1>5. Drawn(d, l, g)
  <2>1. \A i \in 1 .. 1 : i = 1 /\ g + i - 1 = g
    OBVIOUS
  <2> QED
    BY <1>2, <1>4, <2>1 DEF Drawn
<1>6. PICK o : o = [vals |-> l, next |-> g + 1, err |-> <<>>]
  OBVIOUS
<1>7. One(d, t, g) = o
  BY <1>1, <1>3, <1>6 DEF One
<1>8. o.vals = l /\ o.next = g + 1 /\ Built3(o)
  BY <1>6 DEF Built3
<1>9. BuiltWell(d, g, o)
  BY <1>4, <1>5, <1>8 DEF BuiltWell
<1> QED
  BY <1>4, <1>7, <1>8, <1>9

LEMMA BuildAtIs ==
  ASSUME NEW d, NEW sub, NEW t \in DOMAIN Ty, NEW g
  PROVE  /\ Kind(t) \in Leaves => BuildAt(d, sub, t, g) = One(d, t, g)
         /\ Kind(t) \in Unions =>
              BuildAt(d, sub, t, g)
              = BuildParts(sub, t, Idx(First(d, t, g), Len(Cases(t))) + 1, One(d, t, g))
         /\ Kind(t) = "empty" => BuildAt(d, sub, t, g) = Start(g)
         /\ Kind(t) = "pun" => BuildAt(d, sub, t, g) = BuildBlocks(sub, t, g)
         /\ Kind(t) \notin Taking \cup {"empty", "pun"} =>
              BuildAt(d, sub, t, g) = BuildParts(sub, t, 1, Start(g))
<1>1. Kind(t) \in Leaves => BuildAt(d, sub, t, g) = One(d, t, g)
  BY DEF BuildAt, One, First, Leaves, Unions
<1>2. Kind(t) \in Unions =>
        BuildAt(d, sub, t, g)
        = BuildParts(sub, t, Idx(First(d, t, g), Len(Cases(t))) + 1, One(d, t, g))
  BY DEF BuildAt, One, First, Leaves, Unions
<1>3. Kind(t) = "empty" => BuildAt(d, sub, t, g) = Start(g)
  BY DEF BuildAt, Leaves, Unions
<1>4. Kind(t) = "pun" => BuildAt(d, sub, t, g) = BuildBlocks(sub, t, g)
  BY DEF BuildAt, Leaves, Unions
<1>5. Kind(t) \notin Taking \cup {"empty", "pun"} =>
        BuildAt(d, sub, t, g) = BuildParts(sub, t, 1, Start(g))
  BY DEF BuildAt, Leaves, Unions, Taking
<1> QED
  BY <1>1, <1>2, <1>3, <1>4, <1>5

LEMMA IdxTyped ==
  ASSUME NEW val, val.pick \in Nat, NEW len \in Nat
  PROVE  Idx(val, len) \in Nat /\ Idx(val, len) + 1 \in Nat
<1>1. CASE len = 0
  BY <1>1 DEF Idx
<1>2. CASE len # 0
  <2>1. \A p \in Nat : p % len \in Nat
    BY <1>2
  <2> QED
    BY <1>2, <2>1 DEF Idx
<1> QED
  BY <1>1, <1>2

LEMMA FirstCase ==
  ASSUME NEW d \in Draws, NEW t \in DOMAIN Ty, NEW g \in Nat
  PROVE  Idx(First(d, t, g), Len(Cases(t))) + 1 \in Nat
<1>1. First(d, t, g).pick \in Nat
  BY PickTyped DEF First
<1>2. Len(Cases(t)) \in Nat
  BY TypeFacts
<1> QED
  BY <1>1, <1>2, IdxTyped

LEMMA BuildAtWell ==
  ASSUME NEW d \in Draws, NEW sub, BuildsWell(d, sub), NEW t \in DOMAIN Ty, NEW g \in Nat
  PROVE  BuiltWell(d, g, BuildAt(d, sub, t, g))
<1>1. CASE Kind(t) \in Leaves
  <2>1. Kind(t) \in Taking
    BY <1>1 DEF Taking
  <2> QED
    BY <1>1, <2>1, BuildAtIs, OneWell
<1>2. CASE Kind(t) \in Unions
  <2>1. Kind(t) \in Taking
    BY <1>2 DEF Taking
  <2>2. PICK case \in Nat : case = Idx(First(d, t, g), Len(Cases(t))) + 1
    BY FirstCase
  <2>3. BuiltWell(d, g, One(d, t, g))
    BY <2>1, OneWell
  <2>4. BuiltWell(d, g, BuildParts(sub, t, case, One(d, t, g)))
    BY <2>3, BuildPartsWell
  <2> QED
    BY <1>2, <2>2, <2>4, BuildAtIs
<1>3. CASE Kind(t) = "empty"
  BY <1>3, BuildAtIs, StartWell
<1>4. CASE Kind(t) = "pun"
  BY <1>4, BuildAtIs, BuildBlocksWell
<1>5. CASE Kind(t) \notin Taking \cup {"empty", "pun"}
  <2>1. BuiltWell(d, g, BuildParts(sub, t, 1, Start(g)))
    BY StartWell, BuildPartsWell
  <2> QED
    BY <1>5, <2>1, BuildAtIs
<1> QED
  BY <1>1, <1>2, <1>3, <1>4, <1>5 DEF Taking

LEMMA NoBuildWell ==
  ASSUME NEW d
  PROVE  BuildsWell(d, NoBuild) /\ \A t \in DOMAIN Ty, g \in Nat : NoBuild[t][g].err # <<>>
<1>1. ASSUME NEW t \in DOMAIN Ty, NEW g \in Nat
      PROVE  BuiltWell(d, g, NoBuild[t][g]) /\ NoBuild[t][g].err # <<>>
  <2>1. PICK e : e = <<[error |-> "overflow"]>>
    OBVIOUS
  <2>2. NoBuild[t][g] = [vals |-> <<>>, next |-> g, err |-> e] /\ e # <<>>
    BY <2>1 DEF NoBuild, Start
  <2> QED
    BY <2>2 DEF BuiltWell, Built3
<1> QED
  BY <1>1 DEF BuildsWell

LEMMA CallsWell ==
  ASSUME NEW d \in Draws, NEW n \in Nat, n <= Depth
  PROVE  BuildsWell(d, Builds(d)[n])
<1>1. PICK b : /\ b = Builds(d) /\ b[0] = NoBuild
               /\ \A m \in Nat : m + 1 <= Depth => b[m + 1] = BuildCalls(d, b[m])
  BY BuildsNest
<1> DEFINE I == {m \in Nat : m <= Depth => BuildsWell(d, b[m])}
<1>2. 0 \in I
  BY <1>1, NoBuildWell
<1>3. ASSUME NEW m \in Nat, m \in I PROVE m + 1 \in I
  <2> SUFFICES ASSUME m + 1 <= Depth PROVE BuildsWell(d, b[m + 1])
    OBVIOUS
  <2>1. BuildsWell(d, b[m])
    BY <1>3, DrawsAssumption
  <2>2. ASSUME NEW t \in DOMAIN Ty, NEW g \in Nat PROVE BuiltWell(d, g, b[m + 1][t][g])
    <3>1. b[m + 1] = BuildCalls(d, b[m])
      BY <1>1
    <3>2. b[m + 1][t][g] = BuildAt(d, b[m], t, g)
      BY <3>1 DEF BuildCalls
    <3> QED
      BY <2>1, <3>2, BuildAtWell
  <2> QED
    BY <2>2 DEF BuildsWell
<1>4. n \in I
  <2> HIDE DEF I
  <2> QED BY <1>2, <1>3, SetInduction
<1> QED
  BY <1>1, <1>4

-----------------------------------------------------------------------------
(* What a visit of the code generators does with the values *)

Line == [val : Nat, ty : DOMAIN Ty, path : Seq(Nat \X Nat), inside : SUBSET Nat]

(* Value after value from k on, each inside earlier ones only. *)
Lined(lines, k) ==
  /\ lines \in Seq(Line)
  /\ \A i \in 1 .. Len(lines) : /\ lines[i].val = k + i - 1
                                /\ Kind(lines[i].ty) \in Taking
                                /\ lines[i].inside \subseteq k .. k + i - 2

SamePlaces(lines, vals) ==
  \A i \in 1 .. Len(lines) : lines[i].path = vals[i].path /\ lines[i].ty = vals[i].ty

(* From k on, vals draw what d gives the m numbers from g on. *)
Fits(d, vals, k, g, m) ==
  k + m <= Len(vals) /\ \A i \in 1 .. m : vals[k + i].pick = Pick(d, g + i - 1)

(* A visit v from value k on meets the values that b has made, up to a     *)
(* failure if there is one, and if t is in C, where and with what type.     *)
Visit3(v) == v = [lines |-> v.lines, next |-> v.next, res |-> v.res]
Follows(t, C, b, v, k) ==
  /\ Visit3(v) /\ v.res \in {"ok", "unsupported"}
  /\ Lined(v.lines, k) /\ v.next = k + Len(v.lines)
  /\ Len(v.lines) <= Len(b.vals) /\ (v.res = "ok" => Len(v.lines) = Len(b.vals))
  /\ t \in C => SamePlaces(v.lines, b.vals)

(* Types that puns are not part of. *)
PunFree(C) ==
  \A t \in C : /\ Kind(t) # "pun"
               /\ \A case : \A k \in 1 .. Len(Parts(t, case)) : Parts(t, case)[k] \in C

VisitsFollow(d, vals, C, bs, vs) ==
  \A t \in DOMAIN Ty, g, k \in Nat :
    (bs[t][g].err = <<>> /\ Fits(d, vals, k, g, Len(bs[t][g].vals)))
    => Follows(t, C, bs[t][g], vs[t][k], k)

LEMMA WrappedIs ==
  ASSUME NEW segment \in Seq(Nat \X Nat), NEW within \in SUBSET Nat, NEW lines \in Seq(Line)
  PROVE  /\ Wrapped(segment, within, lines) \in Seq(Line)
         /\ Len(Wrapped(segment, within, lines)) = Len(lines)
         /\ \A i \in 1 .. Len(lines) :
              /\ Wrapped(segment, within, lines)[i].val = lines[i].val
              /\ Wrapped(segment, within, lines)[i].ty = lines[i].ty
              /\ Wrapped(segment, within, lines)[i].inside = within \cup lines[i].inside
              /\ Wrapped(segment, within, lines)[i].path = segment \o lines[i].path
<1>1. Len(lines) \in Nat /\ DOMAIN lines = 1 .. Len(lines) /\ \A i \in 1 .. Len(lines) : lines[i] \in Line
  BY LenProperties
<1> DEFINE wrap(v) == [val |-> v.val, ty |-> v.ty, path |-> segment \o v.path,
                       inside |-> within \cup v.inside]
<1>2. ASSUME NEW v \in Line
      PROVE  /\ wrap(v) \in Line /\ wrap(v).val = v.val /\ wrap(v).ty = v.ty
             /\ wrap(v).inside = within \cup v.inside
             /\ wrap(v).path = segment \o v.path
  <2>1. PICK S : S = Nat \X Nat
    OBVIOUS
  <2>2. v.path \in Seq(S) /\ segment \in Seq(S)
    BY <2>1 DEF Line
  <2>3. segment \o v.path \in Seq(S)
    BY <2>2
  <2>4. within \cup v.inside \in SUBSET Nat
    BY DEF Line
  <2> QED
    BY <2>1, <2>3, <2>4 DEF Line
<1>3. PICK u : u = Wrapped(segment, within, lines)
  OBVIOUS
<1>4. u = [i \in 1 .. Len(lines) |-> wrap(lines[i])]
  BY <1>1, <1>3 DEF Wrapped
<1> HIDE DEF wrap
<1>5. \A i \in 1 .. Len(lines) :
        /\ u[i] \in Line
        /\ u[i].val = lines[i].val /\ u[i].ty = lines[i].ty
        /\ u[i].inside = within \cup lines[i].inside /\ u[i].path = segment \o lines[i].path
  BY <1>1, <1>2, <1>4
<1>6. u \in Seq(Line) /\ Len(u) = Len(lines)
  <2>1. u \in [1 .. Len(lines) -> Line]
    BY <1>4, <1>5
  <2> QED
    BY <1>1, <2>1
<1> QED
  BY <1>3, <1>5, <1>6

LEMMA LinedMore ==
  ASSUME NEW k \in Nat, NEW v, Lined(v, k), NEW w \in Seq(Line),
         \A i \in 1 .. Len(w) : /\ w[i].val = k + Len(v) + i - 1
                                /\ Kind(w[i].ty) \in Taking
                                /\ w[i].inside \subseteq k .. k + Len(v) + i - 2
  PROVE  Lined(v \o w, k)
<1>1. v \in Seq(Line) /\ Len(v) \in Nat /\ Len(w) \in Nat
  BY LenProperties DEF Lined
<1>2. PICK x : x = v \o w
  OBVIOUS
<1>3. x \in Seq(Line) /\ Len(x) = Len(v) + Len(w)
  BY <1>1, <1>2, ConcatIs
<1>5. \A i \in 1 .. Len(v) + Len(w) : i \in 1 .. Len(v) \/ \E j \in 1 .. Len(w) : i = Len(v) + j
  BY <1>1, ConcatIs
<1>4. ASSUME NEW i \in 1 .. Len(v) + Len(w)
      PROVE  /\ x[i].val = k + i - 1 /\ Kind(x[i].ty) \in Taking
             /\ x[i].inside \subseteq k .. k + i - 2
  <2>1. CASE i \in 1 .. Len(v)
    <3>1. x[i] = v[i]
      BY <1>1, <1>2, <2>1, ConcatIs
    <3> QED
      BY <2>1, <3>1 DEF Lined
  <2>2. CASE \E j \in 1 .. Len(w) : i = Len(v) + j
    <3>1. PICK j \in 1 .. Len(w) : i = Len(v) + j
      BY <2>2
    <3>2. x[i] = w[j]
      <4>1. (v \o w)[Len(v) + j] = w[j]
        BY <1>1, ConcatIs
      <4> QED
        BY <1>2, <3>1, <4>1
    <3>3. k + Len(v) + j - 1 = k + i - 1 /\ k + Len(v) + j - 2 = k + i - 2
      BY <1>1, <3>1
    <3>4. /\ w[j].val = k + Len(v) + j - 1 /\ Kind(w[j].ty) \in Taking
          /\ w[j].inside \subseteq k .. k + Len(v) + j - 2
      OBVIOUS
    <3> QED
      BY <3>2, <3>3, <3>4
  <2> QED
    BY <1>5, <2>1, <2>2
<1> QED
  BY <1>2, <1>3, <1>4 DEF Lined

LEMMA PlacesMore ==
  ASSUME NEW k \in Nat, NEW v \in Seq(Line), NEW w \in Seq(Line),
         NEW x \in Seq(Value), NEW y \in Seq(Value),
         Len(v) = Len(x), Len(w) <= Len(y), SamePlaces(v, x), SamePlaces(w, y)
  PROVE  SamePlaces(v \o w, x \o y)
<1>1. Len(v) \in Nat /\ Len(w) \in Nat /\ Len(x) \in Nat /\ Len(y) \in Nat
  BY LenProperties
<1>2. PICK vw : vw = v \o w
  OBVIOUS
<1>3. PICK xy : xy = x \o y
  OBVIOUS
<1>6. /\ \A i \in 1 .. Len(v) : vw[i] = v[i]
      /\ \A i \in 1 .. Len(w) : vw[Len(v) + i] = w[i]
  <2>1. PICK T : T = Line
    OBVIOUS
  <2>2. v \in Seq(T) /\ w \in Seq(T)
    BY <2>1
  <2> HIDE <2>1
  <2>3. \A i \in 1 .. Len(v) : (v \o w)[i] = v[i]
    BY <2>2, ConcatIs
  <2>4. \A i \in 1 .. Len(w) : (v \o w)[Len(v) + i] = w[i]
    BY <2>2, ConcatIs
  <2> QED
    BY <1>2, <2>3, <2>4
<1>8. \A i \in 1 .. Len(v) + Len(w) : i \in 1 .. Len(v) \/ \E j \in 1 .. Len(w) : i = Len(v) + j
  BY ConcatIs
<1>7. /\ \A i \in 1 .. Len(x) : xy[i] = x[i]
      /\ \A i \in 1 .. Len(y) : xy[Len(x) + i] = y[i]
  BY <1>3, ConcatIs
<1>4. ASSUME NEW i \in 1 .. Len(v) + Len(w) PROVE vw[i].path = xy[i].path /\ vw[i].ty = xy[i].ty
  <2>1. CASE i \in 1 .. Len(v)
    <3>1. vw[i] = v[i] /\ xy[i] = x[i]
      BY <1>6, <1>7, <2>1
    <3> QED
      BY <2>1, <3>1 DEF SamePlaces
  <2>2. CASE \E j \in 1 .. Len(w) : i = Len(v) + j
    <3>1. PICK j \in 1 .. Len(w) : i = Len(v) + j
      BY <2>2
    <3>2. j \in 1 .. Len(y)
      BY <1>1
    <3>3. vw[i] = w[j] /\ xy[i] = y[j]
      BY <1>6, <1>7, <3>1, <3>2
    <3> QED
      BY <3>1, <3>3 DEF SamePlaces
  <2> QED
    BY <1>8, <2>1, <2>2
<1>5. Len(vw) = Len(v) + Len(w)
  BY <1>2, ConcatIs
<1> QED
  BY <1>2, <1>3, <1>4, <1>5 DEF SamePlaces

LEMMA FitsPart ==
  ASSUME NEW d, NEW vals, NEW k \in Nat, NEW g \in Nat, NEW a \in Nat, NEW m \in Nat,
         Len(vals) \in Nat, Fits(d, vals, k, g, a + m)
  PROVE  Fits(d, vals, k, g, a) /\ Fits(d, vals, k + a, g + a, m)
<1>1. k + (a + m) <= Len(vals) /\ \A i \in 1 .. a + m : vals[k + i].pick = Pick(d, g + i - 1)
  BY DEF Fits
<1>2. Fits(d, vals, k, g, a)
  <2>1. \A i \in 1 .. a : i \in 1 .. a + m
    OBVIOUS
  <2>2. k + a <= Len(vals)
    BY <1>1
  <2> QED
    BY <1>1, <2>1, <2>2 DEF Fits
<1>3. Fits(d, vals, k + a, g + a, m)
  <2>1. ASSUME NEW i \in 1 .. m PROVE vals[k + a + i].pick = Pick(d, g + a + i - 1)
    <3>1. PICK j \in 1 .. a + m : j = a + i
      OBVIOUS
    <3>2. k + a + i = k + j /\ g + a + i - 1 = g + j - 1
      BY <3>1
    <3> QED
      BY <1>1, <3>2
  <2>2. k + a + m <= Len(vals)
    BY <1>1
  <2> QED
    BY <2>1, <2>2 DEF Fits
<1> QED
  BY <1>2, <1>3

(* One part after another. *)
LEMMA PartFollows ==
  ASSUME NEW d \in Draws, NEW g \in Nat, NEW k \in Nat, NEW vals, Len(vals) \in Nat,
         NEW C, NEW bs, BuildsWell(d, bs), NEW vs, VisitsFollow(d, vals, C, bs, vs),
         NEW t \in DOMAIN Ty, NEW case \in Nat, NEW j \in 1 .. Len(Parts(t, case)),
         t \in C => Parts(t, case)[j] \in C,
         NEW acc, BuiltWell(d, g, acc), NEW V, Follows(t, C, acc, V, k),
         NEW within \in SUBSET {k}, within = {} \/ Len(acc.vals) >= 1,
         NEW out, out = BuildPart(bs, t, case, acc, j), out.err = <<>>,
         Fits(d, vals, k, g, Len(out.vals))
  PROVE  Follows(t, C, out, VisitPart(vs, t, case, within, V, j), k)
<1>1. PICK new : new = bs[Parts(t, case)[j]][acc.next]
  OBVIOUS
<1>2. PICK seg : seg = Segment(t, case, j)
  OBVIOUS
<1>3. PICK more : more = Under(seg, new.vals)
  OBVIOUS
<1>4. /\ acc.err = <<>> /\ acc.next \in Nat /\ new.err = <<>> /\ BuiltWell(d, acc.next, new)
      /\ out = [vals |-> acc.vals \o more, next |-> new.next, err |-> <<>>]
  <2>1. PartBuilt(d, g, bs, t, case, acc, j, out)
    BY BuildPartWell
  <2> QED
    BY <1>1, <1>2, <1>3, <2>1 DEF PartBuilt
<1>5. out.vals = acc.vals \o more
  BY <1>4
<1>6. acc.vals \in Seq(Value) /\ new.vals \in Seq(Value) /\ acc.next = g + Len(acc.vals)
  BY <1>4 DEF BuiltWell, Drawn
<1>7. seg \in Seq(Nat \X Nat)
  BY <1>2, SegmentTyped
<1>8. /\ more \in Seq(Value) /\ Len(more) = Len(new.vals)
      /\ \A i \in 1 .. Len(new.vals) :
           more[i].path = seg \o new.vals[i].path /\ more[i].ty = new.vals[i].ty
  BY <1>3, <1>6, <1>7, UnderIs
<1>9. PICK a \in Nat : a = Len(acc.vals)
  BY <1>6, LenProperties
<1>10. PICK m \in Nat : m = Len(new.vals)
  BY <1>6, LenProperties
<1>11. Len(out.vals) = a + m
  <2>1. Len(acc.vals \o more) = Len(acc.vals) + Len(more)
    BY <1>6, <1>8, ConcatIs
  <2> QED
    BY <1>5, <1>8, <1>9, <1>10, <2>1
<1>12. /\ V = [lines |-> V.lines, next |-> V.next, res |-> V.res] /\ V.res \in {"ok", "unsupported"}
       /\ Lined(V.lines, k) /\ V.next = k + Len(V.lines)
       /\ Len(V.lines) <= a /\ (V.res = "ok" => Len(V.lines) = a)
       /\ t \in C => SamePlaces(V.lines, acc.vals)
  BY <1>9 DEF Follows, Visit3
<1>13. V.lines \in Seq(Line)
  BY <1>12 DEF Lined
<1>14. PICK had \in Nat : had = Len(V.lines)
  BY <1>13, LenProperties
<1>15. CASE V.res # "ok"
  <2>1. VisitPart(vs, t, case, within, V, j) = V
    BY <1>15 DEF VisitPart
  <2>2. had <= a + m
    BY <1>12, <1>14
  <2>3. ASSUME t \in C PROVE SamePlaces(V.lines, out.vals)
    <3>1. \A i \in 1 .. Len(acc.vals) : (acc.vals \o more)[i] = acc.vals[i]
      BY <1>6, <1>8, ConcatIs
    <3>2. \A i \in 1 .. had : i \in 1 .. a
      BY <1>12, <1>14
    <3> QED
      BY <1>5, <1>9, <1>12, <1>14, <2>3, <3>1, <3>2 DEF SamePlaces
  <2> QED
    BY <1>11, <1>12, <1>14, <1>15, <2>1, <2>2, <2>3 DEF Follows, Visit3
<1>16. CASE V.res = "ok"
  <2>1. had = a /\ V.next = k + a
    BY <1>12, <1>14, <1>16
  <2>2. PICK x : x = vs[Parts(t, case)[j]][V.next]
    OBVIOUS
  <2>3. Parts(t, case)[j] \in DOMAIN Ty /\ k + a \in Nat
    BY TypeFacts
  <2>4. Fits(d, vals, k + a, acc.next, m)
    <3>1. Fits(d, vals, k, g, a + m)
      BY <1>11
    <3>2. Fits(d, vals, k + a, g + a, m)
      BY <3>1, FitsPart
    <3> QED
      BY <1>6, <1>9, <3>2
  <2>5. Follows(Parts(t, case)[j], C, new, x, k + a)
    <3>1. bs[Parts(t, case)[j]][acc.next].err = <<>>
      BY <1>1, <1>4
    <3>2. Fits(d, vals, k + a, acc.next, Len(bs[Parts(t, case)[j]][acc.next].vals))
      BY <1>1, <1>10, <2>4
    <3> QED
      BY <1>1, <1>4, <2>1, <2>2, <2>3, <3>1, <3>2 DEF VisitsFollow
  <2>6. /\ x = [lines |-> x.lines, next |-> x.next, res |-> x.res] /\ x.res \in {"ok", "unsupported"}
        /\ Lined(x.lines, k + a) /\ x.next = k + a + Len(x.lines)
        /\ Len(x.lines) <= m /\ (x.res = "ok" => Len(x.lines) = m)
        /\ Parts(t, case)[j] \in C => SamePlaces(x.lines, new.vals)
    BY <1>10, <2>5 DEF Follows, Visit3
  <2>7. x.lines \in Seq(Line)
    BY <2>6 DEF Lined
  <2>8. PICK n \in Nat : n = Len(x.lines)
    BY <2>7, LenProperties
  <2>9. PICK w : w = Wrapped(seg, within, x.lines)
    OBVIOUS
  <2>10. PICK y : y = VisitPart(vs, t, case, within, V, j)
    OBVIOUS
  <2>11. y = [lines |-> V.lines \o w, next |-> x.next, res |-> x.res]
    BY <1>2, <1>16, <2>2, <2>6, <2>9, <2>10 DEF VisitPart
  <2>12. within \in SUBSET Nat
    OBVIOUS
  <2>13. /\ w \in Seq(Line) /\ Len(w) = n
         /\ \A i \in 1 .. n : /\ w[i].val = x.lines[i].val /\ w[i].ty = x.lines[i].ty
                              /\ w[i].inside = within \cup x.lines[i].inside
                              /\ w[i].path = seg \o x.lines[i].path
    <3>1. PICK xs \in Seq(Line) : xs = x.lines
      BY <2>7
    <3>2. /\ Wrapped(seg, within, xs) \in Seq(Line)
          /\ Len(Wrapped(seg, within, xs)) = Len(xs)
          /\ \A i \in 1 .. Len(xs) :
               /\ Wrapped(seg, within, xs)[i].val = xs[i].val
               /\ Wrapped(seg, within, xs)[i].ty = xs[i].ty
               /\ Wrapped(seg, within, xs)[i].inside = within \cup xs[i].inside
               /\ Wrapped(seg, within, xs)[i].path = seg \o xs[i].path
      BY <1>7, <2>12, WrappedIs
    <3> QED
      BY <2>8, <2>9, <3>1, <3>2
  <2>14. Lined(V.lines \o w, k)
    <3>1. ASSUME NEW i \in 1 .. Len(w)
          PROVE  /\ w[i].val = k + Len(V.lines) + i - 1 /\ Kind(w[i].ty) \in Taking
                 /\ w[i].inside \subseteq k .. k + Len(V.lines) + i - 2
      <4>1. i \in 1 .. n
        BY <2>13
      <4>2. /\ x.lines[i].val = k + a + i - 1 /\ Kind(x.lines[i].ty) \in Taking
            /\ x.lines[i].inside \subseteq k + a .. k + a + i - 2
        BY <2>6, <2>8, <4>1 DEF Lined
      <4>3. /\ w[i].val = x.lines[i].val /\ w[i].ty = x.lines[i].ty
            /\ w[i].inside = within \cup x.lines[i].inside
        BY <2>13, <4>1
      <4>4. within = {} \/ a >= 1
        BY <1>9
      <4>5. within \subseteq k .. k + a + i - 2 /\ k + a .. k + a + i - 2 \subseteq k .. k + a + i - 2
        BY <4>1, <4>4
      <4>6. w[i].inside \subseteq k .. k + a + i - 2
        BY <4>2, <4>3, <4>5
      <4> QED
        BY <1>14, <2>1, <4>2, <4>3, <4>6
    <3> QED
      BY <1>12, <2>13, <3>1, LinedMore
  <2>15. Len(V.lines \o w) = a + n
    <3>1. PICK vl \in Seq(Line) : vl = V.lines
      BY <1>13
    <3>2. w \in Seq(Line)
      BY <2>13
    <3>3. Len(vl \o w) = Len(vl) + Len(w)
      BY <3>2, ConcatIs
    <3>4. Len(V.lines \o w) = Len(V.lines) + Len(w)
      BY <3>1, <3>3
    <3> QED
      BY <1>14, <2>1, <2>13, <3>4
  <2>16. ASSUME t \in C PROVE SamePlaces(V.lines \o w, acc.vals \o more)
    <3>1. SamePlaces(w, more)
      <4>1. ASSUME NEW i \in 1 .. n PROVE w[i].path = more[i].path /\ w[i].ty = more[i].ty
        <5>1. i \in 1 .. Len(new.vals)
          BY <1>10, <2>6, <2>8
        <5>2. x.lines[i].path = new.vals[i].path /\ x.lines[i].ty = new.vals[i].ty
          BY <2>6, <2>8, <2>16 DEF SamePlaces
        <5> QED
          BY <1>8, <2>13, <5>1, <5>2
      <4> QED
        BY <2>13, <4>1 DEF SamePlaces
    <3>2. Len(V.lines) = Len(acc.vals) /\ Len(w) <= Len(more)
      BY <1>8, <1>9, <1>10, <1>14, <2>1, <2>6, <2>8, <2>13
    <3>3. SamePlaces(V.lines, acc.vals)
      BY <1>12, <2>16
    <3> QED
      BY <1>6, <1>8, <1>13, <2>13, <3>1, <3>2, <3>3, PlacesMore
  <2>17. k + a + n = k + (a + n) /\ a + n <= a + m
    BY <2>6, <2>8
  <2>18. y.lines = V.lines \o w /\ y.next = x.next /\ y.res = x.res
    BY <2>11
  <2>19. Follows(t, C, out, y, k)
    <3>1. Visit3(y)
      BY <2>11 DEF Visit3
    <3>2. y.next = k + Len(y.lines) /\ Len(y.lines) = a + n
      BY <2>6, <2>8, <2>15, <2>17, <2>18
    <3>3. Len(y.lines) <= Len(out.vals) /\ (y.res = "ok" => Len(y.lines) = Len(out.vals))
      BY <1>11, <2>6, <2>8, <2>17, <2>18, <3>2
    <3>4. Lined(y.lines, k) /\ y.res \in {"ok", "unsupported"}
      BY <2>6, <2>14, <2>18
    <3>5. t \in C => SamePlaces(y.lines, out.vals)
      BY <1>5, <2>16, <2>18
    <3> QED
      BY <3>1, <3>2, <3>3, <3>4, <3>5 DEF Follows
  <2> QED
    BY <2>10, <2>19
<1> QED
  BY <1>15, <1>16

LEMMA PartsFollow ==
  ASSUME NEW d \in Draws, NEW g \in Nat, NEW k \in Nat, NEW vals, Len(vals) \in Nat,
         NEW C, NEW bs, BuildsWell(d, bs), NEW vs, VisitsFollow(d, vals, C, bs, vs),
         NEW t \in DOMAIN Ty, NEW case \in Nat,
         t \in C => \A j \in 1 .. Len(Parts(t, case)) : Parts(t, case)[j] \in C,
         NEW r, BuiltWell(d, g, r), NEW R, Follows(t, C, r, R, k),
         NEW within \in SUBSET {k}, within = {} \/ Len(r.vals) >= 1,
         NEW out, out = BuildParts(bs, t, case, r), out.err = <<>>,
         Fits(d, vals, k, g, Len(out.vals))
  PROVE  Follows(t, C, out, VisitParts(vs, t, case, within, R), k)
<1>1. PICK N \in Nat : N = Len(Parts(t, case)) /\ DOMAIN Parts(t, case) = 1 .. N
  BY TypeFacts
<1>2. PICK u : /\ u[0] = r /\ BuildParts(bs, t, case, r) = u[N]
               /\ \A j \in 1 .. N : u[j] = BuildPart(bs, t, case, u[j - 1], j)
  BY <1>1, BuildPartsTurns
<1>3. PICK w : /\ w[0] = R /\ VisitParts(vs, t, case, within, R) = w[N]
               /\ \A j \in 1 .. N : w[j] = VisitPart(vs, t, case, within, w[j - 1], j)
  BY <1>1, VisitPartsTurns
<1>4. \A j \in 0 .. N : /\ BuiltWell(d, g, u[j])
                        /\ u[j].err = <<>> => r.err = <<>> /\ Len(r.vals) <= Len(u[j].vals)
  <2>1. PartTurns(bs, t, case, u, N) /\ BuiltWell(d, g, u[0])
    BY <1>2 DEF PartTurns
  <2> QED
    BY <1>1, <1>2, <2>1, PartTurnsWell
<1> DEFINE Good(j) == u[j].err = <<>> /\ Fits(d, vals, k, g, Len(u[j].vals))
                      => Follows(t, C, u[j], w[j], k)
           I == {j \in Nat : j <= N => Good(j)}
<1>5. 0 \in I
  BY <1>2, <1>3
<1>6. ASSUME NEW j \in Nat, j \in I PROVE j + 1 \in I
  <2> SUFFICES ASSUME j + 1 <= N, u[j + 1].err = <<>>, Fits(d, vals, k, g, Len(u[j + 1].vals))
               PROVE  Follows(t, C, u[j + 1], w[j + 1], k)
    OBVIOUS
  <2>1. PICK i \in 1 .. N : i = j + 1 /\ i - 1 = j /\ j \in 0 .. N
    OBVIOUS
  <2>2. u[i] = BuildPart(bs, t, case, u[j], i) /\ w[i] = VisitPart(vs, t, case, within, w[j], i)
    BY <1>2, <1>3, <2>1
  <2>3. BuiltWell(d, g, u[j]) /\ i \in 1 .. Len(Parts(t, case))
    <3>1. j \in 0 .. N
      BY <2>1
    <3>2. BuiltWell(d, g, u[j])
      BY <1>4, <3>1
    <3> QED
      BY <1>1, <3>2
  <2>4. PartBuilt(d, g, bs, t, case, u[j], i, u[i])
    BY <2>2, <2>3, BuildPartWell
  <2>5. PICK new : new = bs[Parts(t, case)[i]][u[j].next]
    OBVIOUS
  <2>6. PICK more : more = Under(Segment(t, case, i), new.vals)
    OBVIOUS
  <2>7. /\ u[j].err = <<>> /\ new.err = <<>> /\ u[j].next \in Nat /\ BuiltWell(d, u[j].next, new)
        /\ u[i] = [vals |-> u[j].vals \o more, next |-> new.next, err |-> <<>>]
    BY <2>1, <2>4, <2>5, <2>6 DEF PartBuilt
  <2>8. u[j].vals \in Seq(Value) /\ new.vals \in Seq(Value)
    BY <2>3, <2>7 DEF BuiltWell, Drawn
  <2>9. more \in Seq(Value)
    BY <2>6, <2>8, SegmentTyped, UnderIs
  <2>10. PICK had \in Seq(Value) : had = u[j].vals
    BY <2>8
  <2>11. Len(had \o more) = Len(had) + Len(more) /\ Len(had) \in Nat /\ Len(more) \in Nat
    BY <2>9, ConcatIs
  <2>12. u[i].vals = had \o more
    BY <2>7, <2>10
  <2>13. Fits(d, vals, k, g, Len(had) + Len(more))
    BY <2>1, <2>11, <2>12
  <2>14. Fits(d, vals, k, g, Len(had))
    BY <2>11, <2>13, FitsPart
  <2>15. Follows(t, C, u[j], w[j], k)
    BY <1>6, <2>7, <2>10, <2>14
  <2>16. within = {} \/ Len(u[j].vals) >= 1
    <3>3. j \in 0 .. N
      BY <2>1
    <3>1. Len(r.vals) <= Len(u[j].vals) /\ r.err = <<>>
      BY <1>4, <2>7, <3>3
    <3>2. Len(r.vals) \in Nat
      BY <3>1, LenProperties DEF BuiltWell, Drawn
    <3> QED
      BY <2>10, <2>11, <3>1, <3>2
  <2>17. Follows(t, C, u[i], VisitPart(vs, t, case, within, w[j], i), k)
    <3>1. t \in C => Parts(t, case)[i] \in C
      BY <2>3
    <3>2. u[i].err = <<>> /\ Fits(d, vals, k, g, Len(u[i].vals))
      BY <2>1
    <3>3. PICK b : b = u[j]
      OBVIOUS
    <3>4. PICK V : V = w[j]
      OBVIOUS
    <3>5. PICK o : o = u[i]
      OBVIOUS
    <3>6. /\ BuiltWell(d, g, b) /\ Follows(t, C, b, V, k) /\ (within = {} \/ Len(b.vals) >= 1)
          /\ o = BuildPart(bs, t, case, b, i) /\ o.err = <<>> /\ Fits(d, vals, k, g, Len(o.vals))
      BY <2>2, <2>3, <2>15, <2>16, <3>2, <3>3, <3>4, <3>5
    <3>7. Follows(t, C, o, VisitPart(vs, t, case, within, V, i), k)
      <4>1. i \in 1 .. Len(Parts(t, case)) /\ within \in SUBSET {k}
        BY <2>3
      <4> QED
        BY <3>1, <3>6, <4>1, PartFollows
    <3> QED
      BY <3>4, <3>5, <3>7
  <2> QED
    BY <2>1, <2>2, <2>17
<1>7. N \in I
  <2> HIDE DEF I
  <2> QED BY <1>5, <1>6, SetInduction
<1> QED
  BY <1>2, <1>3, <1>7

LineOne(t, k) == [val |-> k, ty |-> t, path |-> <<>>, inside |-> {}]
VisitOne(t, k) == [lines |-> <<LineOne(t, k)>>, next |-> k + 1, res |-> "ok"]
Barred(k) == [lines |-> <<>>, next |-> k, res |-> "unsupported"]
Beyond(k) == [lines |-> <<>>, next |-> k, res |-> "exceeded"]

VisitCases(how, vals, sub, t, k, v) ==
  /\ Refused(how, t) => v = Barred(k)
  /\ ~Refused(how, t) =>
       /\ Kind(t) \in Taking /\ k >= Len(vals) => v = Beyond(k)
       /\ Kind(t) \in Leaves /\ ~(k >= Len(vals)) => v = VisitOne(t, k)
       /\ Kind(t) \in Unions /\ ~(k >= Len(vals)) =>
            v = VisitParts(sub, t, Idx(vals[k + 1], Len(Cases(t))) + 1,
                           IF Kind(t) = "tagged" THEN {k} ELSE {}, VisitOne(t, k))
       /\ Kind(t) = "empty" => v = Nothing(k)
       /\ Kind(t) = "pun" => v = sub[Cases(t)[Resolved(t, how.l)][1]][k]
       /\ Kind(t) \notin Taking \cup {"empty", "pun"} => v = VisitParts(sub, t, 1, {}, Nothing(k))

LEMMA VisitAtIs ==
  ASSUME NEW how, how.takes = Taking, NEW vals, NEW sub, NEW t \in DOMAIN Ty, NEW k
  PROVE  VisitCases(how, vals, sub, t, k, VisitAt(how, vals, sub, t, k))
<1>1. Refused(how, t) => VisitAt(how, vals, sub, t, k) = Barred(k)
  BY DEF VisitAt, Barred, Nothing
<1>2. ~Refused(how, t) /\ Kind(t) \in Leaves /\ ~(k >= Len(vals)) =>
        VisitAt(how, vals, sub, t, k) = VisitOne(t, k)
  BY DEF VisitAt, VisitOne, LineOne, Leaves, Unions
<1>3. ~Refused(how, t) /\ Kind(t) \in Unions /\ ~(k >= Len(vals)) =>
        VisitAt(how, vals, sub, t, k)
        = VisitParts(sub, t, Idx(vals[k + 1], Len(Cases(t))) + 1,
                     IF Kind(t) = "tagged" THEN {k} ELSE {}, VisitOne(t, k))
  BY DEF VisitAt, VisitOne, LineOne, Leaves, Unions, Taking
<1>4. ~Refused(how, t) /\ Kind(t) = "empty" => VisitAt(how, vals, sub, t, k) = Nothing(k)
  BY DEF VisitAt, Leaves, Unions, Taking
<1>5. ~Refused(how, t) /\ Kind(t) = "pun" =>
        VisitAt(how, vals, sub, t, k) = sub[Cases(t)[Resolved(t, how.l)][1]][k]
  BY DEF VisitAt, Leaves, Unions, Taking
<1>6. ~Refused(how, t) /\ Kind(t) \notin Taking \cup {"empty", "pun"} =>
        VisitAt(how, vals, sub, t, k) = VisitParts(sub, t, 1, {}, Nothing(k))
  BY DEF VisitAt, Leaves, Unions, Taking
<1>7. ~Refused(how, t) /\ Kind(t) \in Taking /\ k >= Len(vals) =>
        VisitAt(how, vals, sub, t, k) = Beyond(k)
  BY DEF VisitAt, Beyond, Nothing
<1> QED
  BY <1>1, <1>2, <1>3, <1>4, <1>5, <1>6, <1>7 DEF VisitCases

LEMMA NothingFollows ==
  ASSUME NEW t, NEW C, NEW k \in Nat, NEW b, Len(b.vals) \in Nat
  PROVE  /\ Follows(t, C, b, Barred(k), k)
         /\ Len(b.vals) = 0 => Follows(t, C, b, Nothing(k), k)
<1>1. PICK e : e = <<>>
  OBVIOUS
<1>2. e \in Seq(Line) /\ Len(e) = 0 /\ Lined(e, k) /\ SamePlaces(e, b.vals)
  BY <1>1 DEF Lined, SamePlaces
<1>3. Barred(k) = [lines |-> e, next |-> k, res |-> "unsupported"]
  BY <1>1 DEF Barred
<1>4. Nothing(k) = [lines |-> e, next |-> k, res |-> "ok"]
  BY <1>1 DEF Nothing
<1>5. k = k + Len(e) /\ Len(e) <= Len(b.vals)
  BY <1>2
<1>6. Follows(t, C, b, Barred(k), k)
  BY <1>2, <1>3, <1>5 DEF Follows, Visit3
<1>7. Len(b.vals) = 0 => Follows(t, C, b, Nothing(k), k)
  BY <1>2, <1>4, <1>5 DEF Follows, Visit3
<1> QED
  BY <1>6, <1>7

LEMMA OneFollows ==
  ASSUME NEW d \in Draws, NEW g \in Nat, NEW k \in Nat, NEW C, NEW t \in DOMAIN Ty,
         Kind(t) \in Taking
  PROVE  Follows(t, C, One(d, t, g), VisitOne(t, k), k)
<1>1. PICK line : line = LineOne(t, k)
  OBVIOUS
<1>2. PICK val : val = First(d, t, g)
  OBVIOUS
<1>3. /\ line \in Line /\ line.val = k /\ line.ty = t /\ line.path = <<>> /\ line.inside = {}
  <2>1. PICK S : S = Nat \X Nat
    OBVIOUS
  <2>2. <<>> \in Seq(S)
    OBVIOUS
  <2> QED
    BY <1>1, <2>1, <2>2 DEF LineOne, Line
<1>4. val.ty = t /\ val.path = <<>>
  BY <1>2 DEF First
<1>5. PICK l : l = <<line>>
  OBVIOUS
<1>6. PICK v : v = <<val>>
  OBVIOUS
<1>7. l \in Seq(Line) /\ Len(l) = 1 /\ l[1] = line /\ Len(v) = 1 /\ v[1] = val
  BY <1>3, <1>5, <1>6
<1>8. \A i \in 1 .. 1 : i = 1 /\ k + i - 1 = k
  OBVIOUS
<1>9. Lined(l, k)
  BY <1>3, <1>7, <1>8 DEF Lined
<1>10. SamePlaces(l, v)
  BY <1>3, <1>4, <1>7, <1>8 DEF SamePlaces
<1>11. PICK x : x = [lines |-> l, next |-> k + 1, res |-> "ok"]
  OBVIOUS
<1>12. x = VisitOne(t, k) /\ Visit3(x) /\ x.lines = l /\ x.next = k + 1 /\ x.res = "ok"
  BY <1>1, <1>5, <1>11 DEF VisitOne, Visit3
<1>13. One(d, t, g).vals = v
  BY <1>2, <1>6 DEF One
<1>14. PICK o : o = One(d, t, g)
  OBVIOUS
<1>15. Len(x.lines) = 1 /\ Len(o.vals) = 1 /\ SamePlaces(x.lines, o.vals) /\ Lined(x.lines, k)
  BY <1>7, <1>9, <1>10, <1>12, <1>13, <1>14
<1>16. Follows(t, C, o, x, k)
  BY <1>12, <1>15 DEF Follows
<1> QED
  BY <1>12, <1>14, <1>16

LEMMA VisitAtFollows ==
  ASSUME NEW d \in Draws, NEW vals, Len(vals) \in Nat, NEW C, PunFree(C),
         NEW bs, BuildsWell(d, bs), NEW vs, VisitsFollow(d, vals, C, bs, vs),
         NEW how, how.takes = Taking, how.l \in Languages,
         NEW t \in DOMAIN Ty, NEW g \in Nat, NEW k \in Nat,
         NEW out, out = BuildAt(d, bs, t, g), out.err = <<>>,
         Fits(d, vals, k, g, Len(out.vals))
  PROVE  Follows(t, C, out, VisitAt(how, vals, vs, t, k), k)
<1>1. Len(out.vals) \in Nat
  <2>1. BuiltWell(d, g, out)
    BY BuildAtWell
  <2> QED
    BY <2>1, LenProperties DEF BuiltWell, Drawn
<1>2. PICK v : v = VisitAt(how, vals, vs, t, k)
  OBVIOUS
<1>11. /\ Refused(how, t) => v = Barred(k)
       /\ ~Refused(how, t) =>
            /\ Kind(t) \in Leaves /\ ~(k >= Len(vals)) => v = VisitOne(t, k)
            /\ Kind(t) \in Unions /\ ~(k >= Len(vals)) =>
                 v = VisitParts(vs, t, Idx(vals[k + 1], Len(Cases(t))) + 1,
                                IF Kind(t) = "tagged" THEN {k} ELSE {}, VisitOne(t, k))
            /\ Kind(t) = "empty" => v = Nothing(k)
            /\ Kind(t) = "pun" => v = vs[Cases(t)[Resolved(t, how.l)][1]][k]
            /\ Kind(t) \notin Taking \cup {"empty", "pun"} =>
                 v = VisitParts(vs, t, 1, {}, Nothing(k))
  <2>1. VisitCases(how, vals, vs, t, k, VisitAt(how, vals, vs, t, k))
    BY VisitAtIs
  <2>2. VisitCases(how, vals, vs, t, k, v)
    BY <1>2, <2>1
  <2> QED
    BY <2>2 DEF VisitCases
<1>3. CASE Refused(how, t)
  BY <1>1, <1>2, <1>3, <1>11, NothingFollows
<1>4. ASSUME ~Refused(how, t), Kind(t) \in Taking, Len(out.vals) >= 1
      PROVE  /\ ~(k >= Len(vals))
             /\ Idx(vals[k + 1], Len(Cases(t))) = Idx(First(d, t, g), Len(Cases(t)))
  <2>1. k + Len(out.vals) <= Len(vals) /\ 1 \in 1 .. Len(out.vals)
    BY <1>1, <1>4 DEF Fits
  <2>2. vals[k + 1].pick = Pick(d, g + 1 - 1)
    BY <2>1 DEF Fits
  <2>3. g + 1 - 1 = g
    OBVIOUS
  <2>4. vals[k + 1].pick = First(d, t, g).pick
    BY <2>2, <2>3 DEF First
  <2>5. ~(k >= Len(vals))
    BY <1>1, <1>4, <2>1
  <2> QED
    BY <2>4, <2>5 DEF Idx
<1>5. CASE ~Refused(how, t) /\ Kind(t) \in Leaves
  <2>1. Kind(t) \in Taking /\ out = One(d, t, g)
    BY <1>5, BuildAtIs DEF Taking
  <2>2. Len(out.vals) = 1
    BY <2>1, OneWell
  <2>3. v = VisitOne(t, k)
    BY <1>4, <1>5, <1>11, <2>1, <2>2
  <2> QED
    BY <1>2, <2>1, <2>3, OneFollows
<1>6. ASSUME t \in C PROVE \A case : \A j \in 1 .. Len(Parts(t, case)) : Parts(t, case)[j] \in C
  BY <1>6 DEF PunFree
<1>7. CASE ~Refused(how, t) /\ Kind(t) \in Unions
  <2>1. Kind(t) \in Taking
    BY <1>7 DEF Taking
  <2>2. PICK case \in Nat : case = Idx(First(d, t, g), Len(Cases(t))) + 1
    BY FirstCase
  <2>3. PICK one : one = One(d, t, g)
    OBVIOUS
  <2>4. BuiltWell(d, g, one) /\ Len(one.vals) = 1
    BY <2>1, <2>3, OneWell
  <2>5. out = BuildParts(bs, t, case, one)
    BY <1>7, <2>2, <2>3, BuildAtIs
  <2>6. Len(out.vals) >= 1
    <3>1. Len(one.vals) <= Len(out.vals)
      BY <2>4, <2>5, BuildPartsWell
    <3> QED
      BY <1>1, <2>4, <3>1
  <2>7. PICK within \in SUBSET {k} : within = IF Kind(t) = "tagged" THEN {k} ELSE {}
    OBVIOUS
  <2>8. v = VisitParts(vs, t, case, within, VisitOne(t, k))
    BY <1>4, <1>7, <1>11, <2>1, <2>2, <2>6, <2>7
  <2>9. Follows(t, C, one, VisitOne(t, k), k)
    BY <2>1, <2>3, OneFollows
  <2>10. t \in C => \A j \in 1 .. Len(Parts(t, case)) : Parts(t, case)[j] \in C
    BY <1>6
  <2>11. within = {} \/ Len(one.vals) >= 1
    BY <2>4
  <2>12. Follows(t, C, out, VisitParts(vs, t, case, within, VisitOne(t, k)), k)
    BY <2>4, <2>5, <2>9, <2>10, <2>11, PartsFollow
  <2> QED
    BY <1>2, <2>8, <2>12
<1>8. CASE ~Refused(how, t) /\ Kind(t) = "empty"
  <2>1. out = Start(g) /\ v = Nothing(k)
    BY <1>8, <1>11, BuildAtIs
  <2>2. Len(out.vals) = 0
    BY <2>1, StartWell
  <2> QED
    BY <1>1, <1>2, <2>1, <2>2, NothingFollows
<1>9. CASE ~Refused(how, t) /\ Kind(t) = "pun"
  <2>1. PICK b \in DOMAIN Cases(t) : b = Resolved(t, how.l)
    BY <1>9, PunFacts
  <2>2. PICK p \in DOMAIN Ty : p = Cases(t)[b][1]
    BY <1>9, PunFacts
  <2>3. v = vs[p][k]
    BY <1>9, <1>11, <2>1, <2>2
  <2>4. out = BuildBlocks(bs, t, g)
    BY <1>9, BuildAtIs
  <2>5. bs[p][g].err = <<>> /\ Len(bs[p][g].vals) = Len(out.vals)
    BY <1>9, <2>2, <2>4, BuildBlocksWell
  <2>6. Follows(p, C, bs[p][g], v, k)
    BY <2>3, <2>5 DEF VisitsFollow
  <2>7. t \notin C
    BY <1>9 DEF PunFree
  <2> QED
    BY <1>2, <2>5, <2>6, <2>7 DEF Follows
<1>10. CASE ~Refused(how, t) /\ Kind(t) \notin Taking \cup {"empty", "pun"}
  <2>1. PICK r : r = Start(g)
    OBVIOUS
  <2>2. BuiltWell(d, g, r) /\ Len(r.vals) = 0
    BY <2>1, StartWell
  <2>3. PICK case \in Nat : case = 1
    OBVIOUS
  <2>4. out = BuildParts(bs, t, case, r) /\ v = VisitParts(vs, t, case, {}, Nothing(k))
    BY <1>10, <1>11, <2>1, <2>3, BuildAtIs
  <2>5. Follows(t, C, r, Nothing(k), k)
    BY <2>2, NothingFollows
  <2>6. t \in C => \A j \in 1 .. Len(Parts(t, case)) : Parts(t, case)[j] \in C
    BY <1>6
  <2>7. PICK within \in SUBSET {k} : within = {}
    OBVIOUS
  <2>8. Follows(t, C, out, VisitParts(vs, t, case, within, Nothing(k)), k)
    BY <2>2, <2>4, <2>5, <2>6, <2>7, PartsFollow
  <2> QED
    BY <1>2, <2>4, <2>7, <2>8
<1> QED
  BY <1>3, <1>5, <1>7, <1>8, <1>9, <1>10 DEF Taking

LEMMA CallsFollow ==
  ASSUME NEW d \in Draws, NEW vals, Len(vals) \in Nat, NEW C, PunFree(C),
         NEW how, how.takes = Taking, how.l \in Languages, NEW n \in Nat, n <= Depth
  PROVE  VisitsFollow(d, vals, C, Builds(d)[n], Visits(how, vals)[n])
<1>1. PICK b : /\ b = Builds(d) /\ b[0] = NoBuild
               /\ \A m \in Nat : m + 1 <= Depth => b[m + 1] = BuildCalls(d, b[m])
  BY BuildsNest
<1>2. PICK v : /\ v = Visits(how, vals) /\ v[0] = NoVisit
               /\ \A m \in Nat : m + 1 <= Depth => v[m + 1] = VisitCalls(how, vals, v[m])
  BY VisitsNest
<1> DEFINE I == {m \in Nat : m <= Depth => VisitsFollow(d, vals, C, b[m], v[m])}
<1>3. 0 \in I
  <2>1. \A t \in DOMAIN Ty, g \in Nat : b[0][t][g].err # <<>>
    BY <1>1, NoBuildWell
  <2> QED
    BY <2>1 DEF VisitsFollow
<1>4. ASSUME NEW m \in Nat, m \in I PROVE m + 1 \in I
  <2> SUFFICES ASSUME m + 1 <= Depth PROVE VisitsFollow(d, vals, C, b[m + 1], v[m + 1])
    OBVIOUS
  <2>1. m <= Depth
    BY DrawsAssumption
  <2>2. VisitsFollow(d, vals, C, b[m], v[m]) /\ BuildsWell(d, b[m])
    BY <1>1, <1>4, <2>1, CallsWell
  <2>3. ASSUME NEW t \in DOMAIN Ty, NEW g \in Nat, NEW k \in Nat,
               b[m + 1][t][g].err = <<>>, Fits(d, vals, k, g, Len(b[m + 1][t][g].vals))
        PROVE  Follows(t, C, b[m + 1][t][g], v[m + 1][t][k], k)
    <3>1. PICK out : out = BuildAt(d, b[m], t, g)
      OBVIOUS
    <3>9. b[m + 1] = BuildCalls(d, b[m]) /\ v[m + 1] = VisitCalls(how, vals, v[m])
      BY <1>1, <1>2
    <3>2. b[m + 1][t][g] = out
      BY <3>1, <3>9 DEF BuildCalls
    <3>3. v[m + 1][t][k] = VisitAt(how, vals, v[m], t, k)
      BY <3>9 DEF VisitCalls
    <3>4. PICK bs : bs = b[m]
      OBVIOUS
    <3>5. PICK vs : vs = v[m]
      OBVIOUS
    <3>6. BuildsWell(d, bs) /\ VisitsFollow(d, vals, C, bs, vs) /\ out = BuildAt(d, bs, t, g)
      BY <2>2, <3>1, <3>4, <3>5
    <3>7. out.err = <<>> /\ Fits(d, vals, k, g, Len(out.vals))
      BY <2>3, <3>2
    <3>8. Follows(t, C, out, VisitAt(how, vals, vs, t, k), k)
      BY <3>6, <3>7, VisitAtFollows
    <3> QED
      BY <3>2, <3>3, <3>5, <3>8
  <2> QED
    BY <2>3 DEF VisitsFollow
<1>5. n \in I
  <2> HIDE DEF I
  <2> QED BY <1>3, <1>4, SetInduction
<1> QED
  BY <1>1, <1>2, <1>5

(* A visit of an argument takes exactly the values that were built for it, *)
(* unless the language lacks what it needs.                                *)
LEMMA ValuesWell ==
  ASSUME NEW d \in Draws, NEW t \in DOMAIN Ty, NEW g \in Nat
  PROVE  BuiltWell(d, g, BuildValues(d, t, g))
<1>1. Depth \in Nat /\ Depth <= Depth
  BY DrawsAssumption
<1>2. BuildsWell(d, Builds(d)[Depth])
  BY <1>1, CallsWell
<1> QED
  BY <1>2 DEF BuildsWell, BuildValues

LEMMA VisitFollows ==
  ASSUME NEW d \in Draws, NEW t \in DOMAIN Ty, NEW g \in Nat, NEW C, PunFree(C),
         NEW b, b = BuildValues(d, t, g), b.err = <<>>,
         NEW how, how.takes = Taking, how.l \in Languages
  PROVE  Follows(t, C, b, Visit(how, t, b.vals), 0)
<1>1. Drawn(d, b.vals, g) /\ b.vals \in Seq(Value)
  BY ValuesWell DEF BuiltWell, Drawn
<1>2. Len(b.vals) \in Nat /\ Depth \in Nat /\ Depth <= Depth
  BY <1>1, LenProperties, DrawsAssumption
<1>3. Fits(d, b.vals, 0, g, Len(b.vals))
  <2>1. \A i \in 1 .. Len(b.vals) : b.vals[i].pick = Pick(d, g + i - 1)
    BY <1>1 DEF Drawn
  <2>2. \A i \in 1 .. Len(b.vals) : 0 + i = i
    BY <1>2
  <2>3. 0 + Len(b.vals) <= Len(b.vals)
    BY <1>2
  <2> QED
    BY <2>1, <2>2, <2>3 DEF Fits
<1>4. PICK bs : bs = Builds(d)[Depth]
  OBVIOUS
<1>5. PICK vs : vs = Visits(how, b.vals)[Depth]
  OBVIOUS
<1>6. VisitsFollow(d, b.vals, C, bs, vs)
  BY <1>2, <1>4, <1>5, CallsFollow
<1>7. b = bs[t][g] /\ Visit(how, t, b.vals) = vs[t][0]
  BY <1>4, <1>5 DEF BuildValues, Visit
<1>8. Follows(t, C, bs[t][g], vs[t][0], 0)
  BY <1>3, <1>6, <1>7 DEF VisitsFollow
<1> QED
  BY <1>7, <1>8

-----------------------------------------------------------------------------
(* Two visits of the same values in the same language *)

(* If both get through, they have met the same. *)
Pair(v, w) == v.res = "ok" /\ w.res = "ok" => v = w /\ v.next \in Nat
VisitsPair(vs, ws) == \A t \in DOMAIN Ty, k \in Nat : Pair(vs[t][k], ws[t][k])

LEMMA PartPairs ==
  ASSUME NEW vs, NEW ws, VisitsPair(vs, ws), NEW t \in DOMAIN Ty, NEW case, NEW within,
         NEW j \in 1 .. Len(Parts(t, case)), NEW V, NEW W, Pair(V, W)
  PROVE  Pair(VisitPart(vs, t, case, within, V, j), VisitPart(ws, t, case, within, W, j))
<1>1. PICK p \in DOMAIN Ty : p = Parts(t, case)[j]
  BY TypeFacts
<1>2. CASE V.res # "ok" \/ W.res # "ok"
  <2>1. \/ VisitPart(vs, t, case, within, V, j).res # "ok"
        \/ VisitPart(ws, t, case, within, W, j).res # "ok"
    BY <1>2 DEF VisitPart
  <2> QED
    BY <2>1 DEF Pair
<1>3. CASE V.res = "ok" /\ W.res = "ok"
  <2>1. V = W /\ V.next \in Nat
    BY <1>3 DEF Pair
  <2>2. PICK x : x = vs[p][V.next]
    OBVIOUS
  <2>3. PICK y : y = ws[p][W.next]
    OBVIOUS
  <2>4. Pair(x, y)
    BY <2>1, <2>2, <2>3 DEF VisitsPair
  <2>5. VisitPart(vs, t, case, within, V, j)
        = [lines |-> V.lines \o Wrapped(Segment(t, case, j), within, x.lines),
           next |-> x.next, res |-> x.res]
    BY <1>1, <1>3, <2>2 DEF VisitPart
  <2>6. VisitPart(ws, t, case, within, W, j)
        = [lines |-> W.lines \o Wrapped(Segment(t, case, j), within, y.lines),
           next |-> y.next, res |-> y.res]
    BY <1>1, <1>3, <2>3 DEF VisitPart
  <2>7. PICK A : A = VisitPart(vs, t, case, within, V, j)
    OBVIOUS
  <2>8. PICK B : B = VisitPart(ws, t, case, within, W, j)
    OBVIOUS
  <2>9. A.res = x.res /\ A.next = x.next /\ B.res = y.res
    BY <2>5, <2>6, <2>7, <2>8
  <2>10. x = y => A = B
    BY <2>1, <2>5, <2>6, <2>7, <2>8
  <2>11. Pair(A, B)
    BY <2>4, <2>9, <2>10 DEF Pair
  <2> QED
    BY <2>7, <2>8, <2>11
<1> QED
  BY <1>2, <1>3

LEMMA PartsPair ==
  ASSUME NEW vs, NEW ws, VisitsPair(vs, ws), NEW t \in DOMAIN Ty, NEW case, NEW within,
         NEW R, Pair(R, R)
  PROVE  Pair(VisitParts(vs, t, case, within, R), VisitParts(ws, t, case, within, R))
<1>1. PICK N \in Nat : N = Len(Parts(t, case)) /\ DOMAIN Parts(t, case) = 1 .. N
  BY TypeFacts
<1>2. PICK u : /\ u[0] = R /\ VisitParts(vs, t, case, within, R) = u[N]
               /\ \A j \in 1 .. N : u[j] = VisitPart(vs, t, case, within, u[j - 1], j)
  BY <1>1, VisitPartsTurns
<1>3. PICK w : /\ w[0] = R /\ VisitParts(ws, t, case, within, R) = w[N]
               /\ \A j \in 1 .. N : w[j] = VisitPart(ws, t, case, within, w[j - 1], j)
  BY <1>1, VisitPartsTurns
<1> DEFINE I == {j \in Nat : j <= N => Pair(u[j], w[j])}
<1>4. 0 \in I
  BY <1>2, <1>3
<1>5. ASSUME NEW j \in Nat, j \in I PROVE j + 1 \in I
  <2> SUFFICES ASSUME j + 1 <= N PROVE Pair(u[j + 1], w[j + 1])
    OBVIOUS
  <2>1. PICK i \in 1 .. N : i = j + 1 /\ i - 1 = j
    OBVIOUS
  <2>2. Pair(u[j], w[j])
    BY <1>5
  <2>3. /\ u[i] = VisitPart(vs, t, case, within, u[j], i)
        /\ w[i] = VisitPart(ws, t, case, within, w[j], i)
    BY <1>2, <1>3, <2>1
  <2>4. i \in 1 .. Len(Parts(t, case))
    BY <1>1
  <2>5. Pair(u[i], w[i])
    BY <2>2, <2>3, <2>4, PartPairs
  <2> QED
    BY <2>1, <2>5
<1>6. N \in I
  <2> HIDE DEF I
  <2> QED BY <1>4, <1>5, SetInduction
<1> QED
  BY <1>2, <1>3, <1>6

LEMMA VisitAtPairs ==
  ASSUME NEW how, how.takes = Taking, NEW too, too.takes = Taking, too.l = how.l,
         how.l \in Languages, NEW vals, NEW vs, NEW ws, VisitsPair(vs, ws),
         NEW t \in DOMAIN Ty, NEW k \in Nat
  PROVE  Pair(VisitAt(how, vals, vs, t, k), VisitAt(too, vals, ws, t, k))
<1>1. PICK v : v = VisitAt(how, vals, vs, t, k)
  OBVIOUS
<1>2. PICK w : w = VisitAt(too, vals, ws, t, k)
  OBVIOUS
<1>3. VisitCases(how, vals, vs, t, k, v)
  <2>1. VisitCases(how, vals, vs, t, k, VisitAt(how, vals, vs, t, k))
    BY VisitAtIs
  <2> QED
    BY <1>1, <2>1
<1>4. VisitCases(too, vals, ws, t, k, w)
  <2>1. VisitCases(too, vals, ws, t, k, VisitAt(too, vals, ws, t, k))
    BY VisitAtIs
  <2> QED
    BY <1>2, <2>1
<1>5. /\ VisitOne(t, k).next \in Nat /\ Nothing(k).next \in Nat
      /\ Pair(VisitOne(t, k), VisitOne(t, k)) /\ Pair(Nothing(k), Nothing(k))
  BY DEF VisitOne, Nothing, Pair
<1>6. CASE Refused(how, t)
  <2>1. v.res # "ok"
    BY <1>3, <1>6 DEF VisitCases, Barred
  <2> QED
    BY <1>1, <2>1 DEF Pair
<1>7. CASE Refused(too, t)
  <2>1. w.res # "ok"
    BY <1>4, <1>7 DEF VisitCases, Barred
  <2> QED
    BY <1>2, <2>1 DEF Pair
<1>8. CASE ~Refused(how, t) /\ ~Refused(too, t)
  <2>1. CASE Kind(t) \in Taking /\ k >= Len(vals)
    <3>1. v.res # "ok"
      BY <1>3, <1>8, <2>1 DEF VisitCases, Beyond
    <3> QED
      BY <1>1, <3>1 DEF Pair
  <2>2. CASE Kind(t) \in Leaves /\ ~(k >= Len(vals))
    <3>1. v = VisitOne(t, k) /\ w = VisitOne(t, k)
      BY <1>3, <1>4, <1>8, <2>2 DEF VisitCases
    <3> QED
      BY <1>1, <1>2, <1>5, <3>1
  <2>3. CASE Kind(t) \in Unions /\ ~(k >= Len(vals))
    <3>1. PICK case : case = Idx(vals[k + 1], Len(Cases(t))) + 1
      OBVIOUS
    <3>2. PICK within : within = IF Kind(t) = "tagged" THEN {k} ELSE {}
      OBVIOUS
    <3>3. v = VisitParts(vs, t, case, within, VisitOne(t, k))
      BY <1>3, <1>8, <2>3, <3>1, <3>2 DEF VisitCases
    <3>4. w = VisitParts(ws, t, case, within, VisitOne(t, k))
      BY <1>4, <1>8, <2>3, <3>1, <3>2 DEF VisitCases
    <3>5. Pair(v, w)
      BY <1>5, <3>3, <3>4, PartsPair
    <3> QED
      BY <1>1, <1>2, <3>5
  <2>4. CASE Kind(t) = "empty"
    <3>1. v = Nothing(k) /\ w = Nothing(k)
      BY <1>3, <1>4, <1>8, <2>4 DEF VisitCases
    <3> QED
      BY <1>1, <1>2, <1>5, <3>1
  <2>5. CASE Kind(t) = "pun"
    <3>1. PICK p \in DOMAIN Ty : p = Cases(t)[Resolved(t, how.l)][1]
      BY <2>5, PunFacts
    <3>2. v = vs[p][k]
      BY <1>3, <1>8, <2>5, <3>1 DEF VisitCases
    <3>3. w = ws[p][k]
      BY <1>4, <1>8, <2>5, <3>1 DEF VisitCases
    <3>4. Pair(v, w)
      BY <3>2, <3>3 DEF VisitsPair
    <3> QED
      BY <1>1, <1>2, <3>4
  <2>6. CASE Kind(t) \notin Taking \cup {"empty", "pun"}
    <3>1. v = VisitParts(vs, t, 1, {}, Nothing(k)) /\ w = VisitParts(ws, t, 1, {}, Nothing(k))
      BY <1>3, <1>4, <1>8, <2>6 DEF VisitCases
    <3>2. Pair(v, w)
      BY <1>5, <3>1, PartsPair
    <3> QED
      BY <1>1, <1>2, <3>2
  <2> QED
    BY <2>1, <2>2, <2>3, <2>4, <2>5, <2>6 DEF Taking
<1> QED
  BY <1>6, <1>7, <1>8

LEMMA VisitsMeetTheSame ==
  ASSUME NEW how, how.takes = Taking, NEW too, too.takes = Taking, too.l = how.l,
         how.l \in Languages, NEW t \in DOMAIN Ty, NEW vals,
         Visit(how, t, vals).res = "ok", Visit(too, t, vals).res = "ok"
  PROVE  Visit(how, t, vals) = Visit(too, t, vals)
<1>1. PICK v : /\ v = Visits(how, vals) /\ v[0] = NoVisit
               /\ \A m \in Nat : m + 1 <= Depth => v[m + 1] = VisitCalls(how, vals, v[m])
  BY VisitsNest
<1>2. PICK w : /\ w = Visits(too, vals) /\ w[0] = NoVisit
               /\ \A m \in Nat : m + 1 <= Depth => w[m + 1] = VisitCalls(too, vals, w[m])
  BY VisitsNest
<1> DEFINE I == {m \in Nat : m <= Depth => VisitsPair(v[m], w[m])}
<1>3. 0 \in I
  <2>1. \A x \in DOMAIN Ty, k \in Nat : v[0][x][k].res # "ok"
    BY <1>1 DEF NoVisit, Nothing
  <2> QED
    BY <2>1 DEF VisitsPair, Pair
<1>4. ASSUME NEW m \in Nat, m \in I PROVE m + 1 \in I
  <2> SUFFICES ASSUME m + 1 <= Depth PROVE VisitsPair(v[m + 1], w[m + 1])
    OBVIOUS
  <2>1. VisitsPair(v[m], w[m])
    BY <1>4, DrawsAssumption
  <2>2. v[m + 1] = VisitCalls(how, vals, v[m]) /\ w[m + 1] = VisitCalls(too, vals, w[m])
    BY <1>1, <1>2
  <2>3. ASSUME NEW x \in DOMAIN Ty, NEW k \in Nat PROVE Pair(v[m + 1][x][k], w[m + 1][x][k])
    <3>1. v[m + 1][x][k] = VisitAt(how, vals, v[m], x, k)
      BY <2>2 DEF VisitCalls
    <3>2. w[m + 1][x][k] = VisitAt(too, vals, w[m], x, k)
      BY <2>2 DEF VisitCalls
    <3>3. Pair(VisitAt(how, vals, v[m], x, k), VisitAt(too, vals, w[m], x, k))
      BY <2>1, VisitAtPairs
    <3> QED
      BY <3>1, <3>2, <3>3
  <2> QED
    BY <2>3 DEF VisitsPair
<1>5. Depth \in I
  <2>1. Depth \in Nat
    BY DrawsAssumption
  <2> HIDE DEF I
  <2> QED BY <1>3, <1>4, <2>1, SetInduction
<1>6. Pair(v[Depth][t][0], w[Depth][t][0])
  BY <1>5, DrawsAssumption DEF VisitsPair
<1> QED
  BY <1>1, <1>2, <1>6 DEF Visit, Pair

-----------------------------------------------------------------------------
(* The types that a type reaches *)

LEMMA PartsHeld ==
  ASSUME NEW t \in DOMAIN Ty
  PROVE  /\ AllParts[t] \subseteq DOMAIN Ty
         /\ \A case : \A k \in 1 .. Len(Parts(t, case)) : Parts(t, case)[k] \in AllParts[t]
<1>1. PICK cs : cs = Cases(t)
  OBVIOUS
<1>2. AllParts[t] = UNION {ToSet(parts) : parts \in {cs[c] : c \in DOMAIN cs}}
  BY <1>1 DEF AllParts, ToSet
<1>3. ASSUME NEW c \in DOMAIN cs
      PROVE  cs[c] = Parts(t, c) /\ ToSet(cs[c]) \subseteq DOMAIN Ty
  <2>1. cs[c] = Parts(t, c)
    BY <1>1 DEF Parts
  <2>2. \A k \in DOMAIN Parts(t, c) : Parts(t, c)[k] \in DOMAIN Ty
    BY TypeFacts
  <2> QED
    BY <2>1, <2>2 DEF ToSet
<1>4. ASSUME NEW case, NEW k \in 1 .. Len(Parts(t, case)) PROVE Parts(t, case)[k] \in AllParts[t]
  <2>1. CASE case \in DOMAIN cs
    <3>1. k \in DOMAIN cs[case] /\ cs[case][k] = Parts(t, case)[k]
      BY <1>3, <2>1, TypeFacts
    <3>2. cs[case][k] \in ToSet(cs[case])
      BY <3>1 DEF ToSet
    <3> QED
      BY <1>2, <2>1, <3>1, <3>2
  <2>2. CASE case \notin DOMAIN cs
    <3>1. Parts(t, case) = <<>>
      BY <1>1, <2>2 DEF Parts
    <3> QED
      BY <3>1
  <2> QED
    BY <2>1, <2>2
<1> QED
  BY <1>2, <1>3, <1>4

(* Where there are no puns, there are none further down either.            *)
LEMMA ReachableIs ==
  ASSUME NEW ty \in DOMAIN Ty
  PROVE  /\ ty \in Reachable(ty)
         /\ ~Punned(ty) => PunFree(Reachable(ty))
<1>1. PICK N \in Nat : N = Len(Ty) /\ DOMAIN Ty = 1 .. N
  <2> DEFINE R == [kind : Kinds, cases : Seq(Seq(Nat)), refs : BOOLEAN, width : Nat,
                   lacking : SUBSET Languages, langs : Seq(SUBSET Languages)]
  <2>1. Ty \in Seq(R)
    BY TypesAssumption
  <2> HIDE DEF R
  <2> QED
    BY <2>1, LenProperties
<1>2. PICK succ : succ = AllParts
  OBVIOUS
<1>3. succ \in [1 .. N -> SUBSET (1 .. N)]
  <2>1. succ = [t \in DOMAIN Ty |-> succ[t]]
    BY <1>2 DEF AllParts
  <2>2. \A t \in DOMAIN Ty : succ[t] \in SUBSET (DOMAIN Ty)
    BY <1>2, PartsHeld
  <2> QED
    BY <1>1, <2>1, <2>2
<1>4. Reachable(ty) = Near(N, succ, {ty})[N]
  BY <1>1, <1>2 DEF Reachable, Near, Nears
<1>5. {ty} \in SUBSET (1 .. N) /\ N \in 0 .. N
  BY <1>1
<1>6. /\ {ty} \subseteq Near(N, succ, {ty})[N] /\ Near(N, succ, {ty})[N] \in SUBSET (1 .. N)
      /\ ClosedUnder(succ, Near(N, succ, {ty})[N])
  <2>1. PICK S \in SUBSET (1 .. N) : S = {ty}
    BY <1>5
  <2>2. \A n \in 0 .. N : Near(N, succ, S)[n] \in SUBSET (1 .. N) /\ S \subseteq Near(N, succ, S)[n]
    BY <1>3, NearCloses
  <2>3. ClosedUnder(succ, Near(N, succ, S)[N])
    BY <1>3, NearCloses
  <2> QED
    BY <1>5, <2>1, <2>2, <2>3
<1>7. PICK C : C = Reachable(ty)
  OBVIOUS
<1>8. ty \in C /\ C \subseteq DOMAIN Ty /\ \A t \in C : AllParts[t] \subseteq C
  BY <1>1, <1>2, <1>4, <1>6, <1>7 DEF ClosedUnder
<1>9. ASSUME ~Punned(ty) PROVE PunFree(C)
  <2>1. \A t \in C : Kind(t) # "pun"
    BY <1>7, <1>9 DEF Punned
  <2>2. \A t \in C : \A case : \A k \in 1 .. Len(Parts(t, case)) : Parts(t, case)[k] \in C
    BY <1>8, PartsHeld
  <2> QED
    BY <2>1, <2>2 DEF PunFree
<1> QED
  BY <1>7, <1>8, <1>9

-----------------------------------------------------------------------------
(* The arguments and the visits that the code generators make of them *)

MadeArg(d, arg) ==
  /\ arg \in ArgValues
  /\ \E g \in Nat : /\ BuildValues(d, arg.ty, g).err = <<>>
                    /\ arg.vals = BuildValues(d, arg.ty, g).vals

(* v meets the values of arg, in their order, up to a failure.             *)
Meets(arg, v) ==
  /\ Visit3(v) /\ v.res \in {"ok", "unsupported"}
  /\ Lined(v.lines, 0) /\ v.next = Len(v.lines)
  /\ Len(v.lines) <= Len(arg.vals) /\ (v.res = "ok" => Len(v.lines) = Len(arg.vals))
  /\ ~Punned(arg.ty) => SamePlaces(v.lines, arg.vals)

LEMMA VisitMeets ==
  ASSUME NEW d \in Draws, NEW arg, MadeArg(d, arg),
         NEW how, how.takes = Taking, how.l \in Languages
  PROVE  Meets(arg, Visit(how, arg.ty, arg.vals))
<1>1. PICK t \in DOMAIN Ty : t = arg.ty
  BY DEF MadeArg, ArgValues
<1>2. PICK g \in Nat : BuildValues(d, t, g).err = <<>> /\ arg.vals = BuildValues(d, t, g).vals
  BY <1>1 DEF MadeArg
<1>3. PICK b : b = BuildValues(d, t, g)
  OBVIOUS
<1>4. b.err = <<>> /\ arg.vals = b.vals
  BY <1>2, <1>3
<1>5. PICK C : C = IF Punned(t) THEN {} ELSE Reachable(t)
  OBVIOUS
<1>6. PunFree(C) /\ (~Punned(t) => t \in C)
  BY <1>5, ReachableIs DEF PunFree
<1>7. PICK v : v = Visit(how, t, b.vals)
  OBVIOUS
<1>8. Follows(t, C, b, Visit(how, t, b.vals), 0)
  BY <1>3, <1>4, <1>6, VisitFollows
<1>9. Follows(t, C, b, v, 0)
  BY <1>7, <1>8
<1>10. PICK lines : lines = v.lines
  OBVIOUS
<1>11. /\ Visit3(v) /\ v.res \in {"ok", "unsupported"}
       /\ Lined(lines, 0) /\ v.next = 0 + Len(lines)
       /\ Len(lines) <= Len(b.vals) /\ (v.res = "ok" => Len(lines) = Len(b.vals))
       /\ t \in C => SamePlaces(lines, b.vals)
  BY <1>9, <1>10 DEF Follows
<1>12. Len(lines) \in Nat
  BY <1>11, LenProperties DEF Lined
<1>13. v.next = Len(lines)
  BY <1>11, <1>12
<1>14. Meets(arg, v)
  BY <1>1, <1>4, <1>6, <1>10, <1>11, <1>13 DEF Meets
<1> QED
  BY <1>1, <1>4, <1>7, <1>14

LEMMA InitMeets ==
  ASSUME NEW d \in Draws, NEW arg, MadeArg(d, arg), NEW l \in Languages
  PROVE  Meets(arg, InitValue(l, arg))
<1>1. PICK c : c = [l |-> "c", refuses |-> {"tagged", "empty"}, takes |-> Taking, inits |-> TRUE]
  OBVIOUS
<1>2. PICK rust : rust = [l |-> "rust", refuses |-> {}, takes |-> Taking, inits |-> TRUE]
  OBVIOUS
<1>3. c.takes = Taking /\ c.l \in Languages /\ rust.takes = Taking /\ rust.l \in Languages
  BY <1>1, <1>2 DEF Languages
<1>4. Meets(arg, Visit(c, arg.ty, arg.vals)) /\ Meets(arg, Visit(rust, arg.ty, arg.vals))
  BY <1>3, VisitMeets
<1>5. InitValue(l, arg) = IF l = "c" THEN Visit(c, arg.ty, arg.vals) ELSE Visit(rust, arg.ty, arg.vals)
  BY <1>1, <1>2 DEF InitValue, CInitValue, RustInitValue
<1> QED
  BY <1>4, <1>5

LEMMA WriteMeets ==
  ASSUME NEW d \in Draws, NEW arg, MadeArg(d, arg), NEW l \in Languages
  PROVE  Meets(arg, WriteFields(l, arg))
<1>1. PICK c : c = [l |-> "c", refuses |-> {"tagged"}, takes |-> Taking, inits |-> FALSE]
  OBVIOUS
<1>2. PICK rust : rust = [l |-> "rust", refuses |-> {}, takes |-> Taking, inits |-> FALSE]
  OBVIOUS
<1>3. c.takes = Taking /\ c.l \in Languages /\ rust.takes = Taking /\ rust.l \in Languages
  BY <1>1, <1>2 DEF Languages
<1>4. Meets(arg, Visit(c, arg.ty, arg.vals)) /\ Meets(arg, Visit(rust, arg.ty, arg.vals))
  BY <1>3, VisitMeets
<1>5. WriteFields(l, arg) = IF l = "c" THEN Visit(c, arg.ty, arg.vals) ELSE Visit(rust, arg.ty, arg.vals)
  BY <1>1, <1>2 DEF WriteFields, CWriteFields, RustWriteFields
<1> QED
  BY <1>4, <1>5

(* What a language makes of an argument is what it shows of it.            *)
LEMMA InitIsWrite ==
  ASSUME NEW l \in Languages, NEW arg, arg.ty \in DOMAIN Ty,
         InitValue(l, arg).res = "ok", WriteFields(l, arg).res = "ok"
  PROVE  InitValue(l, arg) = WriteFields(l, arg)
<1>1. PICK t \in DOMAIN Ty : t = arg.ty
  OBVIOUS
<1>2. PICK vals : vals = arg.vals
  OBVIOUS
<1>3. CASE l = "c"
  <2>1. PICK a : a = [l |-> "c", refuses |-> {"tagged", "empty"}, takes |-> Taking, inits |-> TRUE]
    OBVIOUS
  <2>2. PICK b : b = [l |-> "c", refuses |-> {"tagged"}, takes |-> Taking, inits |-> FALSE]
    OBVIOUS
  <2>3. a.takes = Taking /\ b.takes = Taking /\ b.l = a.l /\ a.l \in Languages
    BY <2>1, <2>2 DEF Languages
  <2>4. InitValue(l, arg) = Visit(a, t, vals) /\ WriteFields(l, arg) = Visit(b, t, vals)
    BY <1>1, <1>2, <1>3, <2>1, <2>2 DEF InitValue, CInitValue, WriteFields, CWriteFields
  <2>5. Visit(a, t, vals).res = "ok" /\ Visit(b, t, vals).res = "ok"
    BY <2>4
  <2>6. Visit(a, t, vals) = Visit(b, t, vals)
    BY <2>3, <2>5, VisitsMeetTheSame
  <2> QED
    BY <2>4, <2>6
<1>4. CASE l # "c"
  <2>1. PICK a : a = [l |-> "rust", refuses |-> {}, takes |-> Taking, inits |-> TRUE]
    OBVIOUS
  <2>2. PICK b : b = [l |-> "rust", refuses |-> {}, takes |-> Taking, inits |-> FALSE]
    OBVIOUS
  <2>3. a.takes = Taking /\ b.takes = Taking /\ b.l = a.l /\ a.l \in Languages
    BY <2>1, <2>2 DEF Languages
  <2>4. InitValue(l, arg) = Visit(a, t, vals) /\ WriteFields(l, arg) = Visit(b, t, vals)
    BY <1>1, <1>2, <1>4, <2>1, <2>2 DEF InitValue, RustInitValue, WriteFields, RustWriteFields
  <2>5. Visit(a, t, vals).res = "ok" /\ Visit(b, t, vals).res = "ok"
    BY <2>4
  <2>6. Visit(a, t, vals) = Visit(b, t, vals)
    BY <2>3, <2>5, VisitsMeetTheSame
  <2> QED
    BY <2>4, <2>6
<1> QED
  BY <1>3, <1>4

-----------------------------------------------------------------------------
(* The bodies that are generated *)

FuncSet == [ins : Seq(DOMAIN Ty), outs : Seq(DOMAIN Ty), variadic : BOOLEAN]
Count(func) == Len(func.ins) + Len(func.outs)
Owned(side, func) ==
  IF side = "caller" THEN 1 .. Len(func.ins) ELSE Len(func.ins) + 1 .. Count(func)
Steps == {"init", "write", "call", "return"} \X Nat

LEMMA RangeOfConcat ==
  ASSUME NEW T, NEW v \in Seq(T), NEW w \in Seq(T)
  PROVE  \A x : x \in ToSet(v \o w) <=> x \in ToSet(v) \/ x \in ToSet(w)
<1>1. Len(v) \in Nat /\ Len(w) \in Nat /\ DOMAIN v = 1 .. Len(v) /\ DOMAIN w = 1 .. Len(w)
  BY LenProperties
<1>2. PICK vw \in Seq(T) : vw = v \o w
  BY ConcatIs
<1>3. Len(vw) = Len(v) + Len(w) /\ DOMAIN vw = 1 .. Len(v) + Len(w)
  BY <1>1, <1>2, ConcatIs, LenProperties
<1>4. \A i \in 1 .. Len(v) : vw[i] = v[i] /\ i \in DOMAIN vw
  BY <1>1, <1>2, <1>3, ConcatIs
<1>5. \A i \in 1 .. Len(w) : vw[Len(v) + i] = w[i] /\ Len(v) + i \in DOMAIN vw
  BY <1>1, <1>2, <1>3, ConcatIs
<1>6. \A i \in 1 .. Len(v) + Len(w) : i \in 1 .. Len(v) \/ \E j \in 1 .. Len(w) : i = Len(v) + j
  BY ConcatIs
<1>7. ASSUME NEW x, x \in ToSet(vw) PROVE x \in ToSet(v) \/ x \in ToSet(w)
  <2>1. PICK i \in 1 .. Len(v) + Len(w) : x = vw[i]
    BY <1>3, <1>7 DEF ToSet
  <2>2. CASE i \in 1 .. Len(v)
    BY <1>1, <1>4, <2>1, <2>2 DEF ToSet
  <2>3. CASE \E j \in 1 .. Len(w) : i = Len(v) + j
    <3>1. PICK j \in 1 .. Len(w) : i = Len(v) + j
      BY <2>3
    <3>2. x = w[j]
      BY <1>5, <2>1, <3>1
    <3> QED
      BY <1>1, <3>2 DEF ToSet
  <2> QED
    BY <1>6, <2>2, <2>3
<1>8. \A x : x \in ToSet(v) => x \in ToSet(vw)
  BY <1>1, <1>4 DEF ToSet
<1>9. \A x : x \in ToSet(w) => x \in ToSet(vw)
  BY <1>1, <1>5 DEF ToSet
<1> QED
  BY <1>2, <1>7, <1>8, <1>9

LEMMA WriteAllIs ==
  ASSUME NEW after \in Nat, NEW n \in Nat
  PROVE  /\ WriteAll(after, n) \in Seq(Steps)
         /\ \A x : x \in ToSet(WriteAll(after, n)) <=>
                     \E a \in after + 1 .. after + n : x = <<"write", a>>
<1>1. PICK w : w = WriteAll(after, n)
  OBVIOUS
<1>2. w = [i \in 1 .. n |-> <<"write", after + i>>]
  BY <1>1 DEF WriteAll
<1>3. w \in Seq(Steps)
  <2>1. \A i \in 1 .. n : <<"write", after + i>> \in Steps
    BY DEF Steps
  <2>2. w \in [1 .. n -> Steps]
    BY <1>2, <2>1
  <2> QED
    BY <2>2
<1>4. \A i \in 1 .. n : after + i \in after + 1 .. after + n
  OBVIOUS
<1>5. \A a \in after + 1 .. after + n : a - after \in 1 .. n /\ after + (a - after) = a
  OBVIOUS
<1>6. ASSUME NEW x, x \in ToSet(w) PROVE \E a \in after + 1 .. after + n : x = <<"write", a>>
  BY <1>2, <1>4, <1>6 DEF ToSet
<1>7. ASSUME NEW a \in after + 1 .. after + n PROVE <<"write", a>> \in ToSet(w)
  <2>1. PICK i \in 1 .. n : after + i = a
    BY <1>5
  <2>2. w[i] = <<"write", a>> /\ i \in DOMAIN w
    BY <1>2, <2>1
  <2> QED
    BY <2>2 DEF ToSet
<1> QED
  BY <1>1, <1>3, <1>6, <1>7

LEMMA InitAndWriteAllIs ==
  ASSUME NEW after \in Nat, NEW n \in Nat
  PROVE  /\ InitAndWriteAll(after, n) \in Seq(Steps)
         /\ \A x : x \in ToSet(InitAndWriteAll(after, n)) <=>
              \E a \in after + 1 .. after + n : x = <<"init", a>> \/ x = <<"write", a>>
<1>1. PICK w : w = InitAndWriteAll(after, n)
  OBVIOUS
<1>2. w = [i \in 1 .. 2 * n |->
             <<IF i % 2 = 1 THEN "init" ELSE "write", after + (i + 1) \div 2>>]
  BY <1>1 DEF InitAndWriteAll
<1>3. \A i \in 1 .. 2 * n : (i + 1) \div 2 \in 1 .. n
  OBVIOUS
<1>4. \A i \in 1 .. 2 * n : after + (i + 1) \div 2 \in after + 1 .. after + n
  BY <1>3
<1>5. w \in Seq(Steps)
  <2>1. \A i \in 1 .. 2 * n :
          <<IF i % 2 = 1 THEN "init" ELSE "write", after + (i + 1) \div 2>> \in Steps
    BY <1>4 DEF Steps
  <2>2. w \in [1 .. 2 * n -> Steps] /\ 2 * n \in Nat
    BY <1>2, <2>1
  <2> QED
    BY <2>2
<1>6. ASSUME NEW x, x \in ToSet(w)
      PROVE  \E a \in after + 1 .. after + n : x = <<"init", a>> \/ x = <<"write", a>>
  <2>1. PICK i \in 1 .. 2 * n : x = <<IF i % 2 = 1 THEN "init" ELSE "write", after + (i + 1) \div 2>>
    BY <1>2, <1>6 DEF ToSet
  <2> QED
    BY <1>4, <2>1
<1>7. ASSUME NEW a \in after + 1 .. after + n
      PROVE  <<"init", a>> \in ToSet(w) /\ <<"write", a>> \in ToSet(w)
  <2>1. PICK j \in 1 .. n : a = after + j
    <3>1. a - after \in 1 .. n /\ a = after + (a - after)
      OBVIOUS
    <3> QED
      BY <3>1
  <2>2. PICK i \in 1 .. 2 * n : i = 2 * j - 1
    OBVIOUS
  <2>3. PICK k \in 1 .. 2 * n : k = 2 * j
    OBVIOUS
  <2>4. i % 2 = 1 /\ (i + 1) \div 2 = j
    BY <2>2
  <2>5. k % 2 = 0 /\ (k + 1) \div 2 = j
    BY <2>3
  <2>6. w[i] = <<"init", a>> /\ i \in DOMAIN w
    BY <1>2, <2>1, <2>4
  <2>7. w[k] = <<"write", a>> /\ k \in DOMAIN w
    BY <1>2, <2>1, <2>5
  <2> QED
    BY <2>6, <2>7 DEF ToSet
<1> QED
  BY <1>1, <1>5, <1>6, <1>7

Ends == {<<"call", 0>>, <<"return", 0>>}

LEMMA StatementsAre ==
  ASSUME NEW side \in Sides, NEW func \in FuncSet
  PROVE  /\ Statements(side, func) \in Seq(Steps) /\ Statements(side, func) # <<>>
         /\ \A x \in ToSet(Statements(side, func)) :
              \/ x \in Ends
              \/ \E a \in 1 .. Count(func) : x = <<"write", a>>
              \/ \E a \in Owned(side, func) : x = <<"init", a>>
         /\ \A a \in 1 .. Count(func) : <<"write", a>> \in ToSet(Statements(side, func))
         /\ \A a \in Owned(side, func) : <<"init", a>> \in ToSet(Statements(side, func))
<1>1. PICK m \in Nat : m = Len(func.ins)
  BY LenProperties DEF FuncSet
<1>2. PICK n \in Nat : n = Len(func.outs)
  BY LenProperties DEF FuncSet
<1>3. Count(func) = m + n
  BY <1>1, <1>2 DEF Count
<1>4. /\ 0 + 1 = 1 /\ 0 + m = m
      /\ 1 .. m + n = (1 .. m) \cup (m + 1 .. m + n)
  OBVIOUS
<1>5. PICK st : st = Statements(side, func)
  OBVIOUS
<1>6. CASE side = "caller"
  <2>1. PICK u \in Seq(Steps) : u = InitAndWriteAll(0, m)
    BY InitAndWriteAllIs
  <2>2. PICK v \in Seq(Steps) : v = <<<<"call", 0>>>>
    <3>1. PICK c \in Steps : c = <<"call", 0>>
      BY DEF Steps
    <3>2. <<c>> \in Seq(Steps)
      OBVIOUS
    <3> QED
      BY <3>1, <3>2
  <2>3. PICK w \in Seq(Steps) : w = WriteAll(m, n)
    BY WriteAllIs
  <2>4. st = u \o v \o w
    BY <1>1, <1>2, <1>5, <1>6, <2>1, <2>2, <2>3 DEF Statements
  <2>5. PICK uv \in Seq(Steps) : uv = u \o v
    BY ConcatIs
  <2>6. st \in Seq(Steps) /\ st = uv \o w
    BY <2>4, <2>5, ConcatIs
  <2>7. \A x : x \in ToSet(st) <=> x \in ToSet(uv) \/ x \in ToSet(w)
    BY <2>6, RangeOfConcat
  <2>8. \A x : x \in ToSet(uv) <=> x \in ToSet(u) \/ x \in ToSet(v)
    BY <2>5, RangeOfConcat
  <2>9. \A x : x \in ToSet(u) <=> \E a \in 1 .. m : x = <<"init", a>> \/ x = <<"write", a>>
    <3>1. PICK z \in Nat : z = 0
      OBVIOUS
    <3>2. \A x : x \in ToSet(InitAndWriteAll(z, m)) <=>
                  \E a \in z + 1 .. z + m : x = <<"init", a>> \/ x = <<"write", a>>
      BY InitAndWriteAllIs
    <3>3. z + 1 = 1 /\ z + m = m
      BY <3>1
    <3> QED
      BY <2>1, <3>1, <3>2, <3>3
  <2>10. \A x : x \in ToSet(w) <=> \E a \in m + 1 .. m + n : x = <<"write", a>>
    <3>1. \A x : x \in ToSet(WriteAll(m, n)) <=> \E a \in m + 1 .. m + n : x = <<"write", a>>
      BY WriteAllIs
    <3> QED
      BY <2>3, <3>1
  <2>11. \A x : x \in ToSet(v) <=> x = <<"call", 0>>
    BY <2>2 DEF ToSet
  <2>12. Owned(side, func) = 1 .. m
    BY <1>1, <1>6 DEF Owned
  <2>13. st # <<>>
    <3>1. <<"call", 0>> \in ToSet(st)
      BY <2>7, <2>8, <2>11
    <3> QED
      BY <3>1 DEF ToSet
  <2>14. \A x \in ToSet(st) : \/ x \in Ends
                              \/ \E a \in 1 .. m + n : x = <<"write", a>>
                              \/ \E a \in 1 .. m : x = <<"init", a>>
    BY <1>4, <2>7, <2>8, <2>9, <2>10, <2>11 DEF Ends
  <2>15. \A a \in 1 .. m + n : <<"write", a>> \in ToSet(st)
    BY <1>4, <2>7, <2>8, <2>9, <2>10
  <2>16. \A a \in 1 .. m : <<"init", a>> \in ToSet(st)
    BY <2>7, <2>8, <2>9
  <2> QED
    BY <1>3, <1>5, <2>6, <2>12, <2>13, <2>14, <2>15, <2>16
<1>7. CASE side # "caller"
  <2>1. PICK u \in Seq(Steps) : u = WriteAll(0, m)
    BY WriteAllIs
  <2>2. PICK v \in Seq(Steps) : v = InitAndWriteAll(m, n)
    BY InitAndWriteAllIs
  <2>3. PICK w \in Seq(Steps) : w = <<<<"return", 0>>>>
    <3>1. PICK c \in Steps : c = <<"return", 0>>
      BY DEF Steps
    <3>2. <<c>> \in Seq(Steps)
      OBVIOUS
    <3> QED
      BY <3>1, <3>2
  <2>4. st = u \o v \o w
    BY <1>1, <1>2, <1>5, <1>7, <2>1, <2>2, <2>3 DEF Statements
  <2>5. PICK uv \in Seq(Steps) : uv = u \o v
    BY ConcatIs
  <2>6. st \in Seq(Steps) /\ st = uv \o w
    BY <2>4, <2>5, ConcatIs
  <2>7. \A x : x \in ToSet(st) <=> x \in ToSet(uv) \/ x \in ToSet(w)
    BY <2>6, RangeOfConcat
  <2>8. \A x : x \in ToSet(uv) <=> x \in ToSet(u) \/ x \in ToSet(v)
    BY <2>5, RangeOfConcat
  <2>9. \A x : x \in ToSet(u) <=> \E a \in 1 .. m : x = <<"write", a>>
    <3>1. \A x : x \in ToSet(WriteAll(0, m)) <=> \E a \in 0 + 1 .. 0 + m : x = <<"write", a>>
      BY WriteAllIs
    <3> QED
      BY <1>4, <2>1, <3>1
  <2>10. \A x : x \in ToSet(v) <=>
                  \E a \in m + 1 .. m + n : x = <<"init", a>> \/ x = <<"write", a>>
    <3>1. \A x : x \in ToSet(InitAndWriteAll(m, n)) <=> \E a \in m + 1 .. m + n : x = <<"init", a>> \/ x = <<"write", a>>
      BY InitAndWriteAllIs
    <3> QED
      BY <2>2, <3>1
  <2>11. \A x : x \in ToSet(w) <=> x = <<"return", 0>>
    BY <2>3 DEF ToSet
  <2>12. Owned(side, func) = m + 1 .. m + n
    BY <1>1, <1>3, <1>7 DEF Owned
  <2>13. st # <<>>
    <3>1. <<"return", 0>> \in ToSet(st)
      BY <2>7, <2>11
    <3> QED
      BY <3>1 DEF ToSet
  <2>14. \A x \in ToSet(st) : \/ x \in Ends
                              \/ \E a \in 1 .. m + n : x = <<"write", a>>
                              \/ \E a \in m + 1 .. m + n : x = <<"init", a>>
    BY <1>4, <2>7, <2>8, <2>9, <2>10, <2>11 DEF Ends
  <2>15. \A a \in 1 .. m + n : <<"write", a>> \in ToSet(st)
    BY <1>4, <2>7, <2>8, <2>9, <2>10
  <2>16. \A a \in m + 1 .. m + n : <<"init", a>> \in ToSet(st)
    BY <2>7, <2>8, <2>10
  <2> QED
    BY <1>3, <1>5, <2>6, <2>12, <2>13, <2>14, <2>15, <2>16
<1> QED
  BY <1>6, <1>7

(* A statement with what it writes. *)
Did(job, f, op, a) == [op |-> op, arg |-> a, visit |-> Perform(job, f, op, a)]

(* code is all there is to write for f, and nothing of it failed. *)
Whole(job, f, code) ==
  /\ \A x \in code :
       /\ x.visit.res = "ok"
       /\ \/ x = Did(job, f, "call", 0) \/ x = Did(job, f, "return", 0)
          \/ \E a \in 1 .. Count(job.funcs[f]) : x = Did(job, f, "write", a)
          \/ \E a \in Owned(job.side, job.funcs[f]) : x = Did(job, f, "init", a)
  /\ \A a \in 1 .. Count(job.funcs[f]) : Did(job, f, "write", a) \in code
  /\ \A a \in Owned(job.side, job.funcs[f]) : Did(job, f, "init", a) \in code

(* b is all up to the first that fails. *)
UpToFailure(all, b) ==
  \E m \in 1 .. Len(all) :
    /\ Len(b) = m /\ DOMAIN b = 1 .. m /\ Last(b) = all[m]
    /\ \A n \in 1 .. m : b[n] = all[n] /\ (n # m => all[n].visit.res = "ok")
    /\ all[m].visit.res = "ok" => m = Len(all)

LEMMA CutShort ==
  ASSUME NEW N \in Nat, N # 0, NEW all, DOMAIN all = 1 .. N, Len(all) = N, NEW fails,
         fails = {n \in DOMAIN all : all[n].visit.res # "ok"}
  PROVE  UpToFailure(all, SubSeq(all, 1, IF fails = {} THEN Len(all) ELSE Min(fails)))
<1>1. PICK m \in 1 .. N : m = IF fails = {} THEN Len(all) ELSE Min(fails)
  <2>1. CASE fails = {}
    BY <2>1
  <2>2. CASE fails # {}
    <3>1. \E n \in fails : \A k \in fails : n <= k
      <4>1. fails \subseteq Nat
        OBVIOUS
      <4> QED
        BY <2>2, <4>1, LeastExists
    <3>2. Min(fails) \in fails
      BY <3>1 DEF Min
    <3> QED
      BY <2>2, <3>2
  <2> QED
    BY <2>1, <2>2
<1>2. \A n \in 1 .. m : n # m => n \notin fails
  <2>1. CASE fails = {}
    BY <2>1
  <2>2. CASE fails # {}
    <3>1. \E n \in fails : \A k \in fails : n <= k
      <4>1. fails \subseteq Nat
        OBVIOUS
      <4> QED
        BY <2>2, <4>1, LeastExists
    <3>2. PICK least : least = Min(fails)
      OBVIOUS
    <3>3. least \in fails /\ \A k \in fails : least <= k
      BY <3>1, <3>2 DEF Min
    <3>4. \A k \in fails : m <= k
      BY <1>1, <2>2, <3>2, <3>3
    <3> QED
      BY <3>4
  <2> QED
    BY <2>1, <2>2
<1>3. all[m].visit.res = "ok" => m = N
  <2>1. CASE fails = {}
    BY <1>1, <2>1
  <2>2. CASE fails # {}
    <3>1. \E n \in fails : \A k \in fails : n <= k
      <4>1. fails \subseteq Nat
        OBVIOUS
      <4> QED
        BY <2>2, <4>1, LeastExists
    <3>2. m \in fails
      BY <1>1, <2>2, <3>1 DEF Min
    <3> QED
      BY <3>2
  <2> QED
    BY <2>1, <2>2
<1>4. PICK b : b = SubSeq(all, 1, m)
  OBVIOUS
<1>5. PICK S : S = {all[i] : i \in 1 .. N}
  OBVIOUS
<1>6. b \in Seq(S) /\ Len(b) = m /\ \A i \in 1 .. m : b[i] = all[i]
  <2>1. m \in Int /\ 1 \in Int /\ \A i \in 1 .. m : all[i] \in S
    BY <1>5
  <2>2. /\ SubSeq(all, 1, m) \in Seq(S) /\ Len(SubSeq(all, 1, m)) = IF 1 <= m THEN m - 1 + 1 ELSE 0
        /\ \A i \in 1 .. m - 1 + 1 : SubSeq(all, 1, m)[i] = all[1 + i - 1]
    BY <2>1, SubSeqProperties
  <2>3. m - 1 + 1 = m /\ 1 <= m /\ \A i \in 1 .. m : 1 + i - 1 = i
    OBVIOUS
  <2> QED
    BY <1>4, <2>2, <2>3
<1>7. DOMAIN b = 1 .. m /\ Last(b) = all[m]
  <2>1. DOMAIN b = 1 .. Len(b)
    BY <1>6, LenProperties
  <2> QED
    BY <1>6, <2>1 DEF Last
<1>8. \A n \in 1 .. m : b[n] = all[n] /\ (n # m => all[n].visit.res = "ok")
  BY <1>2, <1>6
<1>9. UpToFailure(all, b)
  BY <1>3, <1>6, <1>7, <1>8 DEF UpToFailure
<1> QED
  BY <1>1, <1>4, <1>9

LEMMA WrittenIs ==
  ASSUME NEW job, NEW f, job.side \in Sides, job.funcs[f] \in FuncSet
  PROVE  /\ Len(Written(job, f)) \in Nat \ {0}
         /\ DOMAIN Written(job, f) = 1 .. Len(Written(job, f))
         /\ \A x \in ToSet(Written(job, f)) :
              \/ x = Did(job, f, "call", 0) \/ x = Did(job, f, "return", 0)
              \/ \E a \in 1 .. Count(job.funcs[f]) : x = Did(job, f, "write", a)
              \/ \E a \in Owned(job.side, job.funcs[f]) : x = Did(job, f, "init", a)
         /\ \A a \in 1 .. Count(job.funcs[f]) : Did(job, f, "write", a) \in ToSet(Written(job, f))
         /\ \A a \in Owned(job.side, job.funcs[f]) : Did(job, f, "init", a) \in ToSet(Written(job, f))
<1>1. PICK func \in FuncSet : func = job.funcs[f]
  OBVIOUS
<1>2. PICK side \in Sides : side = job.side
  OBVIOUS
<1>3. PICK st : st = Statements(side, func)
  OBVIOUS
<1>4. /\ st \in Seq(Steps) /\ st # <<>>
      /\ \A x \in ToSet(st) :
              \/ x \in Ends
              \/ \E a \in 1 .. Count(func) : x = <<"write", a>>
              \/ \E a \in Owned(side, func) : x = <<"init", a>>
      /\ \A a \in 1 .. Count(func) : <<"write", a>> \in ToSet(st)
      /\ \A a \in Owned(side, func) : <<"init", a>> \in ToSet(st)
  BY <1>3, StatementsAre
<1>5. PICK N \in Nat : N = Len(st) /\ DOMAIN st = 1 .. N
  BY <1>4, LenProperties
<1>6. N # 0
  BY <1>4, <1>5, EmptySeq
<1>7. PICK w : w = Written(job, f)
  OBVIOUS
<1>8. w = [n \in 1 .. N |-> Did(job, f, st[n][1], st[n][2])]
  BY <1>1, <1>2, <1>3, <1>5, <1>7 DEF Written, Did
<1>9. Len(w) = N /\ DOMAIN w = 1 .. N
  BY <1>8
<1>10. \A n \in 1 .. N : w[n] = Did(job, f, st[n][1], st[n][2])
  BY <1>8
<1>11. ASSUME NEW x \in ToSet(w)
       PROVE  \/ x = Did(job, f, "call", 0) \/ x = Did(job, f, "return", 0)
              \/ \E a \in 1 .. Count(func) : x = Did(job, f, "write", a)
              \/ \E a \in Owned(side, func) : x = Did(job, f, "init", a)
  <2>1. PICK n \in 1 .. N : x = w[n]
    BY <1>9 DEF ToSet
  <2>2. PICK y : y = st[n]
    OBVIOUS
  <2>3. x = Did(job, f, y[1], y[2]) /\ y \in ToSet(st)
    BY <1>5, <1>10, <2>1, <2>2 DEF ToSet
  <2>4. \/ y = <<"call", 0>> \/ y = <<"return", 0>>
        \/ \E a \in 1 .. Count(func) : y = <<"write", a>>
        \/ \E a \in Owned(side, func) : y = <<"init", a>>
    BY <1>4, <2>3 DEF Ends
  <2>5. CASE y = <<"call", 0>>
    BY <2>3, <2>5
  <2>6. CASE y = <<"return", 0>>
    BY <2>3, <2>6
  <2>7. CASE \E a \in 1 .. Count(func) : y = <<"write", a>>
    BY <2>3, <2>7
  <2>8. CASE \E a \in Owned(side, func) : y = <<"init", a>>
    BY <2>3, <2>8
  <2> QED
    BY <2>4, <2>5, <2>6, <2>7, <2>8
<1>12. ASSUME NEW op, NEW a, <<op, a>> \in ToSet(st) PROVE Did(job, f, op, a) \in ToSet(w)
  <2>1. PICK n \in 1 .. N : st[n] = <<op, a>>
    BY <1>5, <1>12 DEF ToSet
  <2>2. w[n] = Did(job, f, op, a)
    BY <1>10, <2>1
  <2> QED
    BY <1>9, <2>2 DEF ToSet
<1>13. /\ \A a \in 1 .. Count(func) : Did(job, f, "write", a) \in ToSet(w)
       /\ \A a \in Owned(side, func) : Did(job, f, "init", a) \in ToSet(w)
  BY <1>4, <1>12
<1> QED
  BY <1>1, <1>2, <1>6, <1>7, <1>9, <1>11, <1>13

LEMMA BodyIs ==
  ASSUME NEW job, NEW f, job.side \in Sides, job.funcs[f] \in FuncSet
  PROVE  /\ Last(Body(job, f)) \in ToSet(Written(job, f))
         /\ Last(Body(job, f)).visit.res = "ok" => Whole(job, f, ToSet(Body(job, f)))
<1>1. PICK all : all = Written(job, f)
  OBVIOUS
<1>2. PICK N \in Nat : N # 0 /\ Len(all) = N /\ DOMAIN all = 1 .. N
  BY <1>1, WrittenIs
<1>3. PICK fails : fails = {n \in DOMAIN all : all[n].visit.res # "ok"}
  OBVIOUS
<1>4. PICK b : b = Body(job, f)
  OBVIOUS
<1>5. b = SubSeq(all, 1, IF fails = {} THEN Len(all) ELSE Min(fails))
  BY <1>1, <1>3, <1>4 DEF Body, UpToFirstFailure
<1>6. UpToFailure(all, SubSeq(all, 1, IF fails = {} THEN Len(all) ELSE Min(fails)))
  BY <1>2, <1>3, CutShort
<1>7. UpToFailure(all, b)
  BY <1>5, <1>6
<1>8. PICK m \in 1 .. N :
        /\ Len(b) = m /\ DOMAIN b = 1 .. m /\ Last(b) = all[m]
        /\ \A n \in 1 .. m : b[n] = all[n] /\ (n # m => all[n].visit.res = "ok")
        /\ all[m].visit.res = "ok" => m = Len(all)
  BY <1>2, <1>7 DEF UpToFailure
<1>9. Last(b) \in ToSet(all)
  BY <1>2, <1>8 DEF ToSet
<1>10. ASSUME Last(b).visit.res = "ok" PROVE Whole(job, f, ToSet(b))
  <2>1. m = N /\ \A n \in 1 .. N : b[n] = all[n] /\ all[n].visit.res = "ok"
    BY <1>2, <1>8, <1>10
  <2>2. \A x : x \in ToSet(b) <=> x \in ToSet(all)
    BY <1>2, <1>8, <2>1 DEF ToSet
  <2>3. \A x \in ToSet(all) : x.visit.res = "ok"
    BY <1>2, <2>1 DEF ToSet
  <2>4. /\ \A x \in ToSet(all) :
             \/ x = Did(job, f, "call", 0) \/ x = Did(job, f, "return", 0)
             \/ \E a \in 1 .. Count(job.funcs[f]) : x = Did(job, f, "write", a)
             \/ \E a \in Owned(job.side, job.funcs[f]) : x = Did(job, f, "init", a)
        /\ \A a \in 1 .. Count(job.funcs[f]) : Did(job, f, "write", a) \in ToSet(all)
        /\ \A a \in Owned(job.side, job.funcs[f]) : Did(job, f, "init", a) \in ToSet(all)
    BY <1>1, WrittenIs
  <2> QED
    BY <2>2, <2>3, <2>4 DEF Whole
<1> QED
  BY <1>1, <1>4, <1>9, <1>10

(* The results of the statements *)

JobOK(d, job, f) ==
  /\ job.side \in Sides /\ job.lang \in Languages /\ job.funcs[f] \in FuncSet
  /\ \A a \in 1 .. Count(job.funcs[f]) : MadeArg(d, job.tree[f][a])

LEMMA InitVarIs ==
  ASSUME NEW d \in Draws, NEW job, NEW f, JobOK(d, job, f), NEW a \in 1 .. Count(job.funcs[f])
  PROVE  /\ InitVar(job, f, a).res \in {"ok", "unsupported"}
         /\ InitVar(job, f, a).res = "ok" =>
              InitVar(job, f, a).next = Len(job.tree[f][a].vals)
<1>1. PICK arg : arg = job.tree[f][a]
  OBVIOUS
<1>2. PICK v : v = InitValue(job.lang, arg)
  OBVIOUS
<1>3. PICK l \in Languages : l = job.lang
  BY DEF JobOK
<1>4. MadeArg(d, arg)
  BY <1>1 DEF JobOK
<1>5. Meets(arg, InitValue(l, arg))
  BY <1>4, InitMeets
<1>6. Meets(arg, v)
  BY <1>2, <1>3, <1>5
<1>7. InitVar(job, f, a) = [fields |-> ToSet(v.lines), next |-> v.next, res |-> v.res]
  BY <1>1, <1>2 DEF InitVar
<1> QED
  BY <1>1, <1>6, <1>7 DEF Meets

LEMMA OwnedIs ==
  ASSUME NEW func \in FuncSet, NEW side
  PROVE  /\ Count(func) \in Nat /\ Owned(side, func) \subseteq 1 .. Count(func)
         /\ Len(func.ins) \in Nat /\ Len(func.outs) \in Nat
<1>1. PICK m \in Nat : m = Len(func.ins)
  BY LenProperties DEF FuncSet
<1>2. PICK n \in Nat : n = Len(func.outs)
  BY LenProperties DEF FuncSet
<1>3. Count(func) = m + n
  BY <1>1, <1>2 DEF Count
<1>4. Owned(side, func) = IF side = "caller" THEN 1 .. m ELSE m + 1 .. m + n
  BY <1>1, <1>3 DEF Owned
<1>5. 1 .. m \subseteq 1 .. m + n /\ m + 1 .. m + n \subseteq 1 .. m + n /\ m + n \in Nat
  OBVIOUS
<1> QED
  BY <1>1, <1>2, <1>3, <1>4, <1>5

(* An assertion on a value that is no leaf is of a field that is another   *)
(* thing than the value.                                                   *)
AlikeAll(lines, vals) ==
  \A line \in ToSet(lines) :
    LET val == vals[line.val + 1] IN Content(line.ty, val) = Content(val.ty, val)

LEMMA NotLeaf ==
  ASSUME NEW job, NEW f, NEW a, NEW lines, NEW vals, NEW shown,
         shown = {line \in ToSet(lines) : IsShown(job, f, a, line)},
         AssertResult(job, shown, vals) = "not_leaf"
  PROVE  ~AlikeAll(lines, vals)
<1>1. PICK line \in shown : job.writer = "assert" /\ Kind(vals[line.val + 1].ty) \notin Leaves
  BY DEF AssertResult
<1>2. line \in ToSet(lines) /\ Kind(line.ty) = "primitive"
  BY <1>1 DEF IsShown
<1>3. PICK val : val = vals[line.val + 1]
  OBVIOUS
<1>4. Kind(val.ty) # "primitive"
  BY <1>1, <1>3 DEF Leaves
<1>5. Content(line.ty, val)[1] = "primitive"
  BY <1>2 DEF Content
<1>6. Content(val.ty, val)[1] = Kind(val.ty)
  BY <1>4 DEF Content
<1> QED
  BY <1>2, <1>3, <1>4, <1>5, <1>6 DEF AlikeAll

LEMMA WriteVarIs ==
  ASSUME NEW d \in Draws, NEW job, NEW f, JobOK(d, job, f), NEW a \in 1 .. Count(job.funcs[f])
  PROVE  /\ WriteVar(job, f, a).res \in {"ok", "unsupported", "not_leaf"}
         /\ WriteVar(job, f, a).res = "ok" =>
              WriteVar(job, f, a).next = Len(job.tree[f][a].vals)
         /\ WriteVar(job, f, a).res = "not_leaf" => ~LinesAlike(job.lang, job.tree[f][a])
<1>1. PICK arg : arg = job.tree[f][a]
  OBVIOUS
<1>2. PICK v : v = WriteFields(job.lang, arg)
  OBVIOUS
<1>3. PICK l \in Languages : l = job.lang
  BY DEF JobOK
<1>4. MadeArg(d, arg)
  BY <1>1 DEF JobOK
<1>5. Meets(arg, WriteFields(l, arg))
  BY <1>4, WriteMeets
<1>6. Meets(arg, v)
  BY <1>2, <1>3, <1>5
<1>7. PICK shown : shown = {line \in ToSet(v.lines) : IsShown(job, f, a, line)}
  OBVIOUS
<1>8. CASE ~ShouldWriteArg(job, f, a) \/ job.writer = "noop"
  <2>1. WriteVar(job, f, a) = [fields |-> {}, next |-> Len(arg.vals), res |-> "ok"]
    BY <1>1, <1>8 DEF WriteVar
  <2> QED
    BY <1>1, <2>1
<1>9. CASE ~(~ShouldWriteArg(job, f, a) \/ job.writer = "noop")
  <2>1. PICK x : x = WriteVar(job, f, a)
    OBVIOUS
  <2>2. x = [fields |-> shown, next |-> v.next,
             res |-> IF v.res = "ok" THEN AssertResult(job, shown, arg.vals) ELSE v.res]
    BY <1>1, <1>2, <1>7, <1>9, <2>1 DEF WriteVar
  <2>3. AssertResult(job, shown, arg.vals) \in {"ok", "unsupported", "not_leaf"}
    BY DEF AssertResult
  <2>4. v.res \in {"ok", "unsupported"} /\ (v.res = "ok" => v.next = Len(arg.vals))
    BY <1>6 DEF Meets
  <2>5. x.next = v.next /\ x.res = IF v.res = "ok" THEN AssertResult(job, shown, arg.vals) ELSE v.res
    BY <2>2
  <2>6. x.res \in {"ok", "unsupported", "not_leaf"} /\ (x.res = "ok" => x.next = Len(arg.vals))
    BY <2>3, <2>4, <2>5
  <2>7. ASSUME x.res = "not_leaf" PROVE ~LinesAlike(job.lang, arg)
    <3>1. AssertResult(job, shown, arg.vals) = "not_leaf"
      BY <2>4, <2>5, <2>7
    <3>2. ~AlikeAll(v.lines, arg.vals)
      BY <1>7, <3>1, NotLeaf
    <3> QED
      BY <1>2, <3>2 DEF LinesAlike, AlikeAll
  <2> QED
    BY <1>1, <2>1, <2>6, <2>7
<1> QED
  BY <1>8, <1>9

LEMMA ResultsAre ==
  ASSUME NEW d \in Draws, NEW job, NEW f, JobOK(d, job, f), NEW x \in ToSet(Written(job, f))
  PROVE  /\ x.visit.res \in {"ok", "unsupported", "not_leaf"}
         /\ x.visit.res = "not_leaf" =>
              \E a \in 1 .. Count(job.funcs[f]) : ~LinesAlike(job.lang, job.tree[f][a])
<1>1. \/ x = Did(job, f, "call", 0) \/ x = Did(job, f, "return", 0)
      \/ \E a \in 1 .. Count(job.funcs[f]) : x = Did(job, f, "write", a)
      \/ \E a \in Owned(job.side, job.funcs[f]) : x = Did(job, f, "init", a)
  BY WrittenIs DEF JobOK
<1>2. CASE x = Did(job, f, "call", 0) \/ x = Did(job, f, "return", 0)
  <2>1. x.visit.res = ReturnsResult(job.funcs[f])
    BY <1>2 DEF Did, Perform
  <2> QED
    BY <2>1 DEF ReturnsResult
<1>3. ASSUME NEW a \in 1 .. Count(job.funcs[f]), x = Did(job, f, "write", a)
      PROVE  /\ x.visit.res \in {"ok", "unsupported", "not_leaf"}
             /\ x.visit.res = "not_leaf" => ~LinesAlike(job.lang, job.tree[f][a])
  <2>1. x.visit = WriteVar(job, f, a)
    BY <1>3 DEF Did, Perform
  <2> QED
    BY <2>1, WriteVarIs
<1>4. ASSUME NEW a \in Owned(job.side, job.funcs[f]), x = Did(job, f, "init", a)
      PROVE  x.visit.res \in {"ok", "unsupported"}
  <2>1. x.visit = InitVar(job, f, a)
    BY <1>4 DEF Did, Perform
  <2>2. a \in 1 .. Count(job.funcs[f])
    <3>1. PICK func \in FuncSet : func = job.funcs[f]
      BY DEF JobOK
    <3> QED
      BY <1>4, <3>1, OwnedIs
  <2> QED
    BY <2>1, <2>2, InitVarIs
<1> QED
  BY <1>1, <1>2, <1>3, <1>4

(* What is generated for the functions fs, with what came of it. *)
Bodies(job, fs) == {[func |-> f, code |-> Body(job, f)] : f \in fs}
BodiesOK(job, fs, bodies, result) ==
  /\ bodies \in Seq(Bodies(job, fs))
  /\ result \in {"generating", "done"} =>
       \A b \in ToSet(bodies) : Last(b.code).visit.res = "ok"
  /\ result = "done" => \A f \in fs : \E b \in ToSet(bodies) : b.func = f
  /\ result \notin {"generating", "done"} => \E f \in fs : result = Last(Body(job, f)).visit.res

LEMMA BodiesAre ==
  ASSUME NEW job, NEW fs, NEW bodies, bodies \in Seq(Bodies(job, fs)), NEW b \in ToSet(bodies)
  PROVE  b.func \in fs /\ b.code = Body(job, b.func)
<1>1. PICK S : S = Bodies(job, fs)
  OBVIOUS
<1>2. b \in S
  <2>1. bodies \in Seq(S)
    BY <1>1
  <2>2. \A i \in DOMAIN bodies : bodies[i] \in S
    BY <2>1, LenProperties
  <2> QED
    BY <2>2 DEF ToSet
<1>3. PICK f \in fs : b = [func |-> f, code |-> Body(job, f)]
  BY <1>1, <1>2 DEF Bodies
<1> QED
  BY <1>3

LEMMA DoneIsWhole ==
  ASSUME NEW job, NEW fs, NEW bodies, BodiesOK(job, fs, bodies, "done"), NEW f \in fs,
         job.side \in Sides, job.funcs[f] \in FuncSet
  PROVE  Whole(job, f, Code(bodies, f))
<1>1. bodies \in Seq(Bodies(job, fs))
  BY DEF BodiesOK
<1>2. PICK b \in ToSet(bodies) : b.func = f
  BY DEF BodiesOK
<1>3. PICK body : body = ToSet(Body(job, f))
  OBVIOUS
<1>4. Whole(job, f, body)
  <2>1. Last(b.code).visit.res = "ok" /\ b.code = Body(job, f)
    BY <1>1, <1>2, BodiesAre DEF BodiesOK
  <2> QED
    BY <1>3, <2>1, BodyIs
<1>5. \A x \in ToSet(bodies) : x.func = f => ToSet(x.code) = body
  BY <1>1, <1>3, BodiesAre
<1>6. Code(bodies, f) = UNION {ToSet(x.code) : x \in {y \in ToSet(bodies) : y.func = f}}
  BY DEF Code
<1>7. Code(bodies, f) = body
  BY <1>2, <1>5, <1>6
<1> QED
  BY <1>4, <1>7

(* Of code that is whole: the fields it writes and those it initializes.   *)
LEMMA WholeFields ==
  ASSUME NEW job, NEW f, NEW bodies, Whole(job, f, Code(bodies, f))
  PROVE  /\ \A a \in 1 .. Count(job.funcs[f]) : WriteVar(job, f, a).res = "ok"
         /\ \A a \in Owned(job.side, job.funcs[f]) : InitVar(job, f, a).res = "ok"
         /\ \A y : y \in Fields(bodies, f, "write") <=>
              \E a \in 1 .. Count(job.funcs[f]) :
                \E line \in WriteVar(job, f, a).fields : y = <<a, line>>
         /\ \A y : y \in Fields(bodies, f, "init") <=>
              \E a \in Owned(job.side, job.funcs[f]) :
                \E line \in InitVar(job, f, a).fields : y = <<a, line>>
         /\ \A x : x \in Inits(bodies, f) <=>
              \E a \in Owned(job.side, job.funcs[f]) : x = Did(job, f, "init", a)
<1>1. PICK code : code = Code(bodies, f)
  OBVIOUS
<1>2. PICK args : args = 1 .. Count(job.funcs[f])
  OBVIOUS
<1>3. PICK own : own = Owned(job.side, job.funcs[f])
  OBVIOUS
<1>4. /\ \A x \in code :
           /\ x.visit.res = "ok"
           /\ \/ x = Did(job, f, "call", 0) \/ x = Did(job, f, "return", 0)
              \/ \E a \in args : x = Did(job, f, "write", a)
              \/ \E a \in own : x = Did(job, f, "init", a)
      /\ \A a \in args : Did(job, f, "write", a) \in code
      /\ \A a \in own : Did(job, f, "init", a) \in code
  BY <1>1, <1>2, <1>3 DEF Whole
<1>5. \A op, a : /\ Did(job, f, op, a).op = op /\ Did(job, f, op, a).arg = a
                 /\ Did(job, f, op, a).visit = Perform(job, f, op, a)
  BY DEF Did
<1>6. \A a : /\ Perform(job, f, "write", a) = WriteVar(job, f, a)
             /\ Perform(job, f, "init", a) = InitVar(job, f, a)
  BY DEF Perform
<1>7. \A a \in args : WriteVar(job, f, a).res = "ok"
  BY <1>4, <1>5, <1>6
<1>8. \A a \in own : InitVar(job, f, a).res = "ok"
  BY <1>4, <1>5, <1>6
<1>9. \A y, op : y \in Fields(bodies, f, op) <=>
        \E x \in code : x.op = op /\ \E line \in x.visit.fields : y = <<x.arg, line>>
  BY <1>1 DEF Fields
<1>10. \A x \in code : x.op = "write" => \E a \in args : x = Did(job, f, "write", a)
  BY <1>4, <1>5
<1>11. \A x \in code : x.op = "init" => \E a \in own : x = Did(job, f, "init", a)
  BY <1>4, <1>5
<1>12. \A y : y \in Fields(bodies, f, "write") <=>
         \E a \in args : \E line \in WriteVar(job, f, a).fields : y = <<a, line>>
  <2>1. ASSUME NEW y, y \in Fields(bodies, f, "write")
        PROVE  \E a \in args : \E line \in WriteVar(job, f, a).fields : y = <<a, line>>
    <3>1. PICK x \in code : x.op = "write" /\ \E line \in x.visit.fields : y = <<x.arg, line>>
      BY <1>9, <2>1
    <3>2. PICK a \in args : x = Did(job, f, "write", a)
      BY <1>10, <3>1
    <3>3. x.arg = a /\ x.visit = WriteVar(job, f, a)
      BY <1>5, <1>6, <3>2
    <3> QED
      BY <3>1, <3>3
  <2>2. ASSUME NEW a \in args, NEW line \in WriteVar(job, f, a).fields
        PROVE  <<a, line>> \in Fields(bodies, f, "write")
    <3>1. PICK x \in code : x = Did(job, f, "write", a)
      BY <1>4
    <3>2. x.op = "write" /\ x.arg = a /\ x.visit = WriteVar(job, f, a)
      BY <1>5, <1>6, <3>1
    <3> QED
      BY <1>9, <3>2
  <2> QED
    BY <2>1, <2>2
<1>13. \A y : y \in Fields(bodies, f, "init") <=>
         \E a \in own : \E line \in InitVar(job, f, a).fields : y = <<a, line>>
  <2>1. ASSUME NEW y, y \in Fields(bodies, f, "init")
        PROVE  \E a \in own : \E line \in InitVar(job, f, a).fields : y = <<a, line>>
    <3>1. PICK x \in code : x.op = "init" /\ \E line \in x.visit.fields : y = <<x.arg, line>>
      BY <1>9, <2>1
    <3>2. PICK a \in own : x = Did(job, f, "init", a)
      BY <1>11, <3>1
    <3>3. x.arg = a /\ x.visit = InitVar(job, f, a)
      BY <1>5, <1>6, <3>2
    <3> QED
      BY <3>1, <3>3
  <2>2. ASSUME NEW a \in own, NEW line \in InitVar(job, f, a).fields
        PROVE  <<a, line>> \in Fields(bodies, f, "init")
    <3>1. PICK x \in code : x = Did(job, f, "init", a)
      BY <1>4
    <3>2. x.op = "init" /\ x.arg = a /\ x.visit = InitVar(job, f, a)
      BY <1>5, <1>6, <3>1
    <3> QED
      BY <1>9, <3>2
  <2> QED
    BY <2>1, <2>2
<1>14. \A x : x \in Inits(bodies, f) <=> \E a \in own : x = Did(job, f, "init", a)
  BY <1>1, <1>4, <1>5, <1>11 DEF Inits
<1> QED
  BY <1>2, <1>3, <1>7, <1>8, <1>12, <1>13, <1>14

-----------------------------------------------------------------------------
(* The value tree as it grows *)

ArgsOf(func) == func.ins \o func.outs

(* The first arguments of a function have their values, one after another. *)
Filled(d, args, filled) ==
  /\ filled \in Seq(ArgValues) /\ Len(filled) <= Len(args)
  /\ \A a \in 1 .. Len(filled) :
       /\ MadeArg(d, filled[a]) /\ filled[a].ty = args[a]
       /\ filled[a].start = IF a = 1 THEN 0 ELSE filled[a - 1].start + Len(filled[a - 1].vals)

(* No function before the one before it is through. *)
InTurn(fs, tr) ==
  \A f, x \in DOMAIN fs : f < x /\ Len(tr[f]) < Len(ArgsOf(fs[f])) => tr[x] = <<>>

At(tr, f, a, n) ==
  f \in DOMAIN tr /\ a \in 1 .. Len(tr[f]) /\ n \in 1 .. Len(tr[f][a].vals)
Num(tr, f, a, n) == tr[f][a].vals[n].num
Before(f, a, n, x, b, m) == f < x \/ (f = x /\ a < b) \/ (f = x /\ a = b /\ n < m)
InRange(tr, g) == \A f, a, n : At(tr, f, a, n) => Num(tr, f, a, n) \in 0 .. g - 1
AllTaken(tr, g) ==
  \A i \in 0 .. g - 1 : \E f, a, n : At(tr, f, a, n) /\ Num(tr, f, a, n) = i
InOrder(tr) ==
  \A f, a, n, x, b, m :
    At(tr, f, a, n) /\ At(tr, x, b, m) /\ Before(f, a, n, x, b, m)
    => Num(tr, f, a, n) < Num(tr, x, b, m)
NumberedIn(tr, g) == InRange(tr, g) /\ AllTaken(tr, g) /\ InOrder(tr)

TreeGood(fs, d, tr, g) ==
  /\ g \in Nat /\ tr \in [DOMAIN fs -> Seq(ArgValues)]
  /\ \A f \in DOMAIN fs : Filled(d, ArgsOf(fs[f]), tr[f])
  /\ InTurn(fs, tr) /\ NumberedIn(tr, g)

LEMMA FuncFacts ==
  ASSUME NEW fs \in Programs
  PROVE  /\ DOMAIN fs \subseteq Nat
         /\ \A f \in DOMAIN fs :
              /\ fs[f] \in FuncSet /\ ArgsOf(fs[f]) \in Seq(DOMAIN Ty)
              /\ Len(ArgsOf(fs[f])) = Count(fs[f])
<1>1. PICK S : S = FuncSet
  OBVIOUS
<1>2. fs \in Seq(S)
  BY <1>1, ProgramsAssumption DEF FuncSet
<1>3. DOMAIN fs = 1 .. Len(fs) /\ Len(fs) \in Nat /\ \A f \in DOMAIN fs : fs[f] \in S
  BY <1>2, LenProperties
<1>4. ASSUME NEW f \in DOMAIN fs
      PROVE  /\ fs[f] \in FuncSet /\ ArgsOf(fs[f]) \in Seq(DOMAIN Ty)
             /\ Len(ArgsOf(fs[f])) = Count(fs[f])
  <2>1. fs[f] \in FuncSet
    BY <1>1, <1>3
  <2>2. PICK T : T = DOMAIN Ty
    OBVIOUS
  <2>3. PICK ins \in Seq(T) : ins = fs[f].ins
    BY <2>1, <2>2 DEF FuncSet
  <2>4. PICK outs \in Seq(T) : outs = fs[f].outs
    BY <2>1, <2>2 DEF FuncSet
  <2>5. ins \o outs \in Seq(T) /\ Len(ins \o outs) = Len(ins) + Len(outs)
    BY ConcatIs
  <2> QED
    BY <2>1, <2>2, <2>3, <2>4, <2>5 DEF ArgsOf, Count
<1> QED
  BY <1>3, <1>4

LEMMA FilledMore ==
  ASSUME NEW d \in Draws, NEW args \in Seq(DOMAIN Ty), NEW filled, Filled(d, args, filled),
         Len(filled) < Len(args), NEW g \in Nat, NEW ty, ty = args[Len(filled) + 1],
         BuildValues(d, ty, g).err = <<>>, NEW arg,
         arg = [ty |-> ty, vals |-> BuildValues(d, ty, g).vals, start |-> StartAfter(filled)]
  PROVE  /\ Filled(d, args, Append(filled, arg)) /\ arg \in ArgValues
         /\ Len(Append(filled, arg)) = Len(filled) + 1
         /\ Append(filled, arg)[Len(filled) + 1] = arg
         /\ \A a \in 1 .. Len(filled) : Append(filled, arg)[a] = filled[a]
<1>1. PICK k \in Nat : k = Len(filled)
  BY LenProperties DEF Filled
<1>2. PICK N \in Nat : N = Len(args)
  BY LenProperties
<1>3. k + 1 \in 1 .. N
  BY <1>1, <1>2
<1>4. ty \in DOMAIN Ty
  <2>1. PICK S : S = DOMAIN Ty
    OBVIOUS
  <2>2. args \in Seq(S) /\ k + 1 \in 1 .. Len(args)
    BY <1>2, <1>3, <2>1
  <2>3. args[k + 1] \in S
    BY <2>2
  <2> QED
    BY <1>1, <2>1, <2>3
<1>5. BuildValues(d, ty, g).vals \in Seq(Value)
  BY <1>4, ValuesWell DEF BuiltWell, Drawn
<1>6. /\ filled \in Seq(ArgValues)
      /\ \A a \in 1 .. k : filled[a] \in ArgValues
      /\ \A a \in 1 .. k :
           /\ MadeArg(d, filled[a]) /\ filled[a].ty = args[a]
           /\ filled[a].start = IF a = 1 THEN 0 ELSE filled[a - 1].start + Len(filled[a - 1].vals)
  BY <1>1 DEF Filled, MadeArg
<1>7. \A x \in ArgValues : x.start \in Nat /\ Len(x.vals) \in Nat
  BY LenProperties DEF ArgValues
<1>8. /\ StartAfter(filled) \in Nat
      /\ StartAfter(filled) = IF k + 1 = 1 THEN 0 ELSE filled[k].start + Len(filled[k].vals)
  <2>1. CASE k = 0
    <3>1. filled = <<>>
      <4>1. PICK S : S = ArgValues
        OBVIOUS
      <4>2. filled \in Seq(S)
        BY <1>6, <4>1
      <4>3. PICK list \in Seq(S) : list = filled
        BY <4>2
      <4>4. Len(list) = 0
        BY <1>1, <2>1, <4>3
      <4>5. list = <<>>
        BY <4>4, EmptySeq
      <4> QED
        BY <4>3, <4>5
    <3> QED
      BY <2>1, <3>1 DEF StartAfter
  <2>2. CASE k # 0
    <3>1. filled # <<>> /\ k \in 1 .. k
      BY <1>1, <2>2
    <3>2. StartAfter(filled) = filled[k].start + Len(filled[k].vals)
      BY <1>1, <3>1 DEF StartAfter, Last
    <3>3. filled[k].start \in Nat /\ Len(filled[k].vals) \in Nat
      BY <1>6, <1>7, <3>1
    <3> QED
      BY <2>2, <3>2, <3>3
  <2> QED
    BY <2>1, <2>2
<1>9. arg \in ArgValues /\ MadeArg(d, arg) /\ arg.ty = ty /\ arg.start = StartAfter(filled)
  BY <1>4, <1>5, <1>8 DEF ArgValues, MadeArg
<1>10. PICK S : S = ArgValues
  OBVIOUS
<1>11. PICK more : more = Append(filled, arg)
  OBVIOUS
<1>12. /\ more \in Seq(S) /\ Len(more) = k + 1 /\ more[k + 1] = arg
       /\ \A a \in 1 .. k : more[a] = filled[a]
  <2>1. filled \in Seq(S) /\ arg \in S
    BY <1>6, <1>9, <1>10
  <2> QED
    BY <1>1, <1>11, <2>1, AppendProperties
<1>13. ASSUME NEW a \in 1 .. k + 1
       PROVE  /\ MadeArg(d, more[a]) /\ more[a].ty = args[a]
              /\ more[a].start = IF a = 1 THEN 0 ELSE more[a - 1].start + Len(more[a - 1].vals)
  <2>1. CASE a = k + 1
    <3>1. more[a] = arg /\ args[a] = ty
      BY <1>1, <1>12, <2>1
    <3>2. a # 1 => a - 1 = k /\ k \in 1 .. k
      BY <2>1
    <3>3. a # 1 => more[a - 1] = filled[k]
      BY <1>12, <3>2
    <3> QED
      BY <1>8, <1>9, <2>1, <3>1, <3>3
  <2>2. CASE a # k + 1
    <3>1. a \in 1 .. k /\ (a # 1 => a - 1 \in 1 .. k)
      BY <2>2
    <3>2. more[a] = filled[a] /\ (a # 1 => more[a - 1] = filled[a - 1])
      BY <1>12, <3>1
    <3> QED
      BY <1>6, <3>1, <3>2
  <2> QED
    BY <2>1, <2>2
<1>14. Filled(d, args, more)
  BY <1>2, <1>3, <1>10, <1>12, <1>13 DEF Filled
<1> QED
  BY <1>1, <1>9, <1>11, <1>12, <1>14

(* Function f, the last one begun, gets an argument of m values from g on. *)
Grows(tr, f, arg, g, m, more, tr2) ==
  /\ f \in DOMAIN tr /\ DOMAIN tr \subseteq Nat /\ Len(tr[f]) \in Nat
  /\ \A x \in DOMAIN tr : f < x => tr[x] = <<>>
  /\ m = Len(arg.vals) /\ \A n \in 1 .. m : arg.vals[n].num = g + n - 1
  /\ Len(more) = Len(tr[f]) + 1 /\ more[Len(tr[f]) + 1] = arg
  /\ \A a \in 1 .. Len(tr[f]) : more[a] = tr[f][a]
  /\ tr2 = [tr EXCEPT ![f] = more]

LEMMA NumberedMore ==
  ASSUME NEW tr, NEW g \in Nat, NumberedIn(tr, g), NEW f, NEW arg, NEW m \in Nat,
         NEW more, NEW tr2, Grows(tr, f, arg, g, m, more, tr2)
  PROVE  NumberedIn(tr2, g + m)
<1>0. /\ f \in DOMAIN tr /\ DOMAIN tr \subseteq Nat /\ Len(tr[f]) \in Nat
      /\ \A x \in DOMAIN tr : f < x => tr[x] = <<>>
      /\ m = Len(arg.vals) /\ \A n \in 1 .. m : arg.vals[n].num = g + n - 1
      /\ Len(more) = Len(tr[f]) + 1 /\ more[Len(tr[f]) + 1] = arg
      /\ \A a \in 1 .. Len(tr[f]) : more[a] = tr[f][a]
      /\ tr2 = [tr EXCEPT ![f] = more]
  BY DEF Grows
<1>1. PICK k \in Nat : k = Len(tr[f])
  BY <1>0
<1>2. DOMAIN tr2 = DOMAIN tr /\ tr2[f] = more /\ \A x \in DOMAIN tr : x # f => tr2[x] = tr[x]
  BY <1>0
<1>3. \A x, a, n : At(tr, x, a, n) => At(tr2, x, a, n) /\ Num(tr2, x, a, n) = Num(tr, x, a, n)
  BY <1>0, <1>1, <1>2 DEF At, Num
<1>4. \A n \in 1 .. m : At(tr2, f, k + 1, n) /\ Num(tr2, f, k + 1, n) = g + n - 1
  BY <1>0, <1>1, <1>2 DEF At, Num
<1>5. \A x, a, n : At(tr2, x, a, n) =>
        At(tr, x, a, n) \/ (x = f /\ a = k + 1 /\ n \in 1 .. m)
  <2> SUFFICES ASSUME NEW x, NEW a, NEW n, At(tr2, x, a, n), ~At(tr, x, a, n)
               PROVE  x = f /\ a = k + 1 /\ n \in 1 .. m
    OBVIOUS
  <2>1. x = f
    BY <1>0, <1>2 DEF At
  <2>2. a \in 1 .. k + 1 /\ n \in 1 .. Len(more[a].vals)
    BY <1>0, <1>1, <1>2, <2>1 DEF At
  <2>3. ~(a \in 1 .. k)
    BY <1>0, <1>1, <2>1, <2>2 DEF At
  <2>4. a = k + 1
    BY <2>2, <2>3
  <2> QED
    BY <1>0, <1>1, <2>1, <2>2, <2>4
<1>6. \A x, a, n, y : At(tr, x, a, n) => ~Before(f, k + 1, y, x, a, n)
  <2> SUFFICES ASSUME NEW x, NEW a, NEW n, NEW y, At(tr, x, a, n), Before(f, k + 1, y, x, a, n)
               PROVE  FALSE
    OBVIOUS
  <2>1. ~(f < x)
    <3>1. f < x => tr[x] = <<>>
      BY <1>0 DEF At
    <3>2. Len(<<>>) = 0
      OBVIOUS
    <3> QED
      BY <3>1, <3>2 DEF At
  <2>2. x = f => a \in 1 .. k
    BY <1>0, <1>1 DEF At
  <2> QED
    BY <1>0, <2>1, <2>2 DEF Before
<1>7. ASSUME NEW x, NEW a, NEW n, At(tr2, x, a, n) PROVE Num(tr2, x, a, n) \in 0 .. g + m - 1
  <2>1. CASE At(tr, x, a, n)
    <3>1. Num(tr, x, a, n) \in 0 .. g - 1
      BY <2>1, Zenon DEF NumberedIn, InRange
    <3>2. Num(tr2, x, a, n) = Num(tr, x, a, n)
      BY <1>3, <2>1, Zenon
    <3> QED
      BY <3>1, <3>2
  <2>2. CASE x = f /\ a = k + 1 /\ n \in 1 .. m
    <3>1. Num(tr2, x, a, n) = g + n - 1
      BY <1>4, <2>2, Zenon
    <3> QED
      BY <2>2, <3>1
  <2> QED
    BY <1>5, <1>7, <2>1, <2>2, Zenon
<1>8. ASSUME NEW i \in 0 .. g + m - 1 PROVE \E x, a, n : At(tr2, x, a, n) /\ Num(tr2, x, a, n) = i
  <2>1. CASE i \in 0 .. g - 1
    <3>1. PICK x, a, n : At(tr, x, a, n) /\ Num(tr, x, a, n) = i
      BY <2>1, Zenon DEF NumberedIn, AllTaken
    <3>2. At(tr2, x, a, n) /\ Num(tr2, x, a, n) = Num(tr, x, a, n)
      BY <1>3, <3>1, Zenon
    <3> QED
      BY <3>1, <3>2, Zenon
  <2>2. CASE i \notin 0 .. g - 1
    <3>1. PICK n \in 1 .. m : i = g + n - 1
      <4>1. i - g + 1 \in 1 .. m /\ i = g + (i - g + 1) - 1
        BY <2>2
      <4> QED
        BY <4>1
    <3>2. At(tr2, f, k + 1, n) /\ Num(tr2, f, k + 1, n) = i
      BY <1>4, <3>1, Zenon
    <3> QED
      BY <3>2, Zenon
  <2> QED
    BY <2>1, <2>2
<1>9. ASSUME NEW x, NEW a, NEW n, NEW y, NEW b, NEW o,
             At(tr2, x, a, n), At(tr2, y, b, o), Before(x, a, n, y, b, o)
      PROVE  Num(tr2, x, a, n) < Num(tr2, y, b, o)
  <2>1. CASE At(tr, x, a, n) /\ At(tr, y, b, o)
    <3>1. Num(tr, x, a, n) < Num(tr, y, b, o)
      BY <1>9, <2>1, Zenon DEF NumberedIn, InOrder
    <3>2. Num(tr2, x, a, n) = Num(tr, x, a, n) /\ Num(tr2, y, b, o) = Num(tr, y, b, o)
      BY <1>3, <2>1, Zenon
    <3> QED
      BY <3>1, <3>2
  <2>2. CASE At(tr, x, a, n) /\ y = f /\ b = k + 1 /\ o \in 1 .. m
    <3>0. Num(tr, x, a, n) \in 0 .. g - 1
      BY <2>2, Zenon DEF NumberedIn, InRange
    <3>1. Num(tr2, x, a, n) = Num(tr, x, a, n)
      BY <1>3, <2>2, Zenon
    <3>2. Num(tr2, y, b, o) = g + o - 1
      BY <1>4, <2>2, Zenon
    <3> QED
      BY <2>2, <3>0, <3>1, <3>2
  <2>3. CASE x = f /\ a = k + 1 /\ At(tr, y, b, o)
    BY <1>6, <1>9, <2>3, Zenon
  <2>4. CASE x = f /\ a = k + 1 /\ n \in 1 .. m /\ y = f /\ b = k + 1 /\ o \in 1 .. m
    <3>1. n < o
      BY <1>0, <1>9, <2>4 DEF Before
    <3>2. Num(tr2, x, a, n) = g + n - 1 /\ Num(tr2, y, b, o) = g + o - 1
      BY <1>4, <2>4, Zenon
    <3> QED
      BY <2>4, <3>1, <3>2
  <2>5. At(tr, x, a, n) \/ (x = f /\ a = k + 1 /\ n \in 1 .. m)
    BY <1>5, <1>9, Zenon
  <2>6. At(tr, y, b, o) \/ (y = f /\ b = k + 1 /\ o \in 1 .. m)
    BY <1>5, <1>9, Zenon
  <2> QED
    BY <2>1, <2>2, <2>3, <2>4, <2>5, <2>6, Zenon
<1>13. PICK G : G = g + m
  OBVIOUS
<1>14. 0 .. g + m - 1 = 0 .. G - 1
  BY <1>13
<1>10. InRange(tr2, G)
  BY <1>7, <1>14, Zenon DEF InRange
<1>11. AllTaken(tr2, G)
  BY <1>8, <1>14, Zenon DEF AllTaken
<1>12. InOrder(tr2)
  BY <1>9, Zenon DEF InOrder
<1> QED
  BY <1>10, <1>11, <1>12, <1>13 DEF NumberedIn

LEMMA TreeMore ==
  ASSUME NEW d \in Draws, NEW fs \in Programs, NEW tr, NEW g, TreeGood(fs, d, tr, g),
         NEW f \in DOMAIN fs, Len(tr[f]) < Len(ArgsOf(fs[f])),
         \A x \in DOMAIN fs : Len(tr[x]) < Len(ArgsOf(fs[x])) => f <= x,
         NEW ty, ty = ArgsOf(fs[f])[Len(tr[f]) + 1], NEW new, new = BuildValues(d, ty, g),
         new.err = <<>>, NEW arg,
         arg = [ty |-> ty, vals |-> new.vals, start |-> StartAfter(tr[f])],
         NEW tr2, tr2 = [tr EXCEPT ![f] = Append(tr[f], arg)]
  PROVE  TreeGood(fs, d, tr2, new.next)
<1>1. /\ g \in Nat /\ tr \in [DOMAIN fs -> Seq(ArgValues)] /\ InTurn(fs, tr) /\ NumberedIn(tr, g)
      /\ \A x \in DOMAIN fs : Filled(d, ArgsOf(fs[x]), tr[x])
  BY DEF TreeGood
<1>2. PICK filled : filled = tr[f]
  OBVIOUS
<1>3. PICK args \in Seq(DOMAIN Ty) : args = ArgsOf(fs[f])
  BY FuncFacts
<1>4. PICK k \in Nat : k = Len(filled)
  BY <1>1, <1>2, LenProperties DEF Filled
<1>5. PICK more : more = Append(filled, arg)
  OBVIOUS
<1>6. /\ Filled(d, args, more) /\ arg \in ArgValues /\ Len(more) = k + 1 /\ more[k + 1] = arg
      /\ \A a \in 1 .. k : more[a] = filled[a]
  <2>1. /\ Filled(d, args, filled) /\ Len(filled) < Len(args) /\ ty = args[Len(filled) + 1]
        /\ BuildValues(d, ty, g).err = <<>>
        /\ arg = [ty |-> ty, vals |-> BuildValues(d, ty, g).vals, start |-> StartAfter(filled)]
    BY <1>1, <1>2, <1>3
  <2>2. /\ Filled(d, args, Append(filled, arg)) /\ arg \in ArgValues
        /\ Len(Append(filled, arg)) = Len(filled) + 1
        /\ Append(filled, arg)[Len(filled) + 1] = arg
        /\ \A a \in 1 .. Len(filled) : Append(filled, arg)[a] = filled[a]
    BY <1>1, <2>1, FilledMore
  <2> QED
    BY <1>4, <1>5, <2>2
<1>7. tr2 = [tr EXCEPT ![f] = more] /\ DOMAIN tr = DOMAIN fs
  BY <1>1, <1>2, <1>5
<1>8. tr2[f] = more /\ \A x \in DOMAIN fs : x # f => tr2[x] = tr[x]
  BY <1>7
<1>9. more \in Seq(ArgValues)
  BY <1>6 DEF Filled
<1>10. tr2 \in [DOMAIN fs -> Seq(ArgValues)]
  BY <1>1, <1>7, <1>9
<1>11. \A x \in DOMAIN fs : Filled(d, ArgsOf(fs[x]), tr2[x])
  BY <1>1, <1>3, <1>6, <1>8
<1>12. DOMAIN fs \subseteq Nat
  BY FuncFacts
<1>13. InTurn(fs, tr2)
  <2> SUFFICES ASSUME NEW x \in DOMAIN fs, NEW y \in DOMAIN fs, x < y,
                      Len(tr2[x]) < Len(ArgsOf(fs[x]))
               PROVE  tr2[y] = <<>>
    BY DEF InTurn
  <2>1. Len(tr[x]) < Len(ArgsOf(fs[x]))
    <3>1. CASE x = f
      BY <3>1
    <3>2. CASE x # f
      BY <1>8, <3>2
    <3> QED
      BY <3>1, <3>2
  <2>2. f <= x /\ y # f
    BY <1>12, <2>1
  <2> QED
    BY <1>1, <1>8, <2>1, <2>2 DEF InTurn
<1>14. Drawn(d, new.vals, g) /\ new.next = g + Len(new.vals)
  <2>1. ty \in DOMAIN Ty
    BY <1>6 DEF ArgValues
  <2>2. BuiltWell(d, g, new)
    BY <1>1, <2>1, ValuesWell
  <2> QED
    BY <2>2 DEF BuiltWell
<1>15. PICK m \in Nat : m = Len(new.vals)
  BY <1>14, LenProperties DEF Drawn
<1>16. arg.vals = new.vals
  OBVIOUS
<1>17. NumberedIn(tr2, g + m)
  <2>1. \A n \in 1 .. m : arg.vals[n].num = g + n - 1
    BY <1>14, <1>15, <1>16 DEF Drawn
  <2>2. \A x \in DOMAIN tr : f < x => tr[x] = <<>>
    BY <1>1, <1>7 DEF InTurn
  <2>3. Len(more) = Len(tr[f]) + 1 /\ more[Len(tr[f]) + 1] = arg /\ Len(tr[f]) \in Nat
    BY <1>2, <1>4, <1>6
  <2>4. \A a \in 1 .. Len(tr[f]) : more[a] = tr[f][a]
    BY <1>2, <1>4, <1>6
  <2>5. m = Len(arg.vals) /\ DOMAIN tr \subseteq Nat /\ f \in DOMAIN tr
    BY <1>7, <1>12, <1>15, <1>16
  <2> QED
    <3>1. g \in Nat /\ NumberedIn(tr, g) /\ m \in Nat
      BY <1>1, <1>15
    <3>2. tr2 = [tr EXCEPT ![f] = more]
      BY <1>7
    <3>3. Grows(tr, f, arg, g, m, more, tr2)
      BY <2>1, <2>2, <2>3, <2>4, <2>5, <3>2 DEF Grows
    <3> QED
      BY <3>1, <3>3, NumberedMore
<1> QED
  BY <1>1, <1>10, <1>11, <1>13, <1>14, <1>15, <1>17 DEF TreeGood

-----------------------------------------------------------------------------
(* The generators go on, function by function *)

Failing == {"unsupported", "not_leaf"}

(* The functions that have no body yet. *)
Left(fs, bodies) == {f \in fs : \A n \in DOMAIN bodies : bodies[n].func # f}

(* The next body, and what the generator is then. *)
Grown(job, fs, bodies, f, body, more, result) ==
  /\ body = Body(job, f)
  /\ more = Append(bodies, [func |-> f, code |-> body])
  /\ result = IF Last(body).visit.res # "ok" THEN Last(body).visit.res
              ELSE IF Left(fs, bodies) = {f} THEN "done" ELSE "generating"

LEMMA BodiesMore ==
  ASSUME NEW d \in Draws, NEW job, NEW fs, NEW bodies, BodiesOK(job, fs, bodies, "generating"),
         NEW f \in fs, JobOK(d, job, f), NEW body, NEW more, NEW result,
         Grown(job, fs, bodies, f, body, more, result)
  PROVE  BodiesOK(job, fs, more, result) /\ result \in {"generating", "done"} \cup Failing
<1>0. /\ body = Body(job, f)
      /\ more = Append(bodies, [func |-> f, code |-> body])
      /\ result = IF Last(body).visit.res # "ok" THEN Last(body).visit.res
                  ELSE IF Left(fs, bodies) = {f} THEN "done" ELSE "generating"
  BY DEF Grown
<1>1. PICK S : S = Bodies(job, fs)
  OBVIOUS
<1>2. PICK b \in S : b = [func |-> f, code |-> body]
  BY <1>0, <1>1 DEF Bodies
<1>3. bodies \in Seq(S)
  BY <1>1 DEF BodiesOK
<1>4. PICK k \in Nat : k = Len(bodies)
  BY <1>3, LenProperties
<1>5. /\ more \in Seq(S) /\ DOMAIN more = 1 .. k + 1 /\ more[k + 1] = b
      /\ DOMAIN bodies = 1 .. k /\ \A n \in 1 .. k : more[n] = bodies[n]
  <2>1. more = Append(bodies, b)
    BY <1>0, <1>2
  <2>2. /\ Append(bodies, b) \in Seq(S) /\ Len(Append(bodies, b)) = Len(bodies) + 1
        /\ Append(bodies, b)[Len(bodies) + 1] = b
        /\ \A n \in 1 .. Len(bodies) : Append(bodies, b)[n] = bodies[n]
    BY <1>3, AppendProperties
  <2>3. Len(more) = k + 1 /\ more \in Seq(S)
    BY <1>4, <2>1, <2>2
  <2>4. DOMAIN more = 1 .. k + 1 /\ DOMAIN bodies = 1 .. k
    BY <1>3, <1>4, <2>3, LenProperties
  <2> QED
    BY <1>4, <2>1, <2>2, <2>3, <2>4
<1>6. \A x : x \in ToSet(more) <=> x \in ToSet(bodies) \/ x = b
  <2>1. ASSUME NEW x, x \in ToSet(more) PROVE x \in ToSet(bodies) \/ x = b
    <3>1. PICK n \in 1 .. k + 1 : x = more[n]
      BY <1>5, <2>1 DEF ToSet
    <3>2. n \in 1 .. k \/ n = k + 1
      OBVIOUS
    <3> QED
      BY <1>5, <3>1, <3>2 DEF ToSet
  <2>2. b \in ToSet(more)
    BY <1>5 DEF ToSet
  <2>3. ASSUME NEW x, x \in ToSet(bodies) PROVE x \in ToSet(more)
    <3>1. PICK n \in 1 .. k : x = bodies[n]
      BY <1>5, <2>3 DEF ToSet
    <3>2. n \in 1 .. k + 1 /\ x = more[n]
      BY <1>5, <3>1
    <3> QED
      BY <1>5, <3>2 DEF ToSet
  <2> QED
    BY <2>1, <2>2, <2>3
<1>7. PICK last : last = Last(body).visit.res
  OBVIOUS
<1>8. last \in {"ok"} \cup Failing
  <2>1. job.side \in Sides /\ job.funcs[f] \in FuncSet
    BY DEF JobOK
  <2>2. PICK x \in ToSet(Written(job, f)) : x = Last(body)
    BY <1>0, <2>1, BodyIs
  <2>3. x.visit.res \in {"ok", "unsupported", "not_leaf"}
    BY ResultsAre
  <2> QED
    BY <1>7, <2>2, <2>3 DEF Failing
<1>9. result = IF last # "ok" THEN last
               ELSE IF Left(fs, bodies) = {f} THEN "done" ELSE "generating"
  BY <1>0, <1>7
<1>10. result \in {"generating", "done"} \cup Failing
  BY <1>8, <1>9 DEF Failing
<1>11. result \in {"generating", "done"} <=> last = "ok"
  BY <1>8, <1>9 DEF Failing
<1>12. ASSUME result \in {"generating", "done"}, NEW x \in ToSet(more)
       PROVE  Last(x.code).visit.res = "ok"
  <2>1. CASE x = b
    BY <1>0, <1>2, <1>7, <1>11, <1>12, <2>1
  <2>2. CASE x \in ToSet(bodies)
    BY <2>2 DEF BodiesOK
  <2> QED
    BY <1>6, <1>12, <2>1, <2>2
<1>13. ASSUME result = "done", NEW x \in fs PROVE \E y \in ToSet(more) : y.func = x
  <2>1. Left(fs, bodies) = {f}
    BY <1>8, <1>9, <1>13 DEF Failing
  <2>2. CASE x = f
    BY <1>2, <1>6, <2>2
  <2>3. CASE x # f
    <3>1. x \notin Left(fs, bodies)
      BY <2>1, <2>3
    <3>2. PICK n \in DOMAIN bodies : bodies[n].func = x
      BY <3>1 DEF Left
    <3>3. bodies[n] \in ToSet(bodies)
      BY DEF ToSet
    <3> QED
      BY <1>6, <3>2, <3>3
  <2> QED
    BY <2>2, <2>3
<1>14. ASSUME result \notin {"generating", "done"}
       PROVE  \E x \in fs : result = Last(Body(job, x)).visit.res
  <2>1. result = last
    BY <1>9, <1>11, <1>14
  <2> QED
    BY <1>0, <1>7, <2>1
<1>15. more \in Seq(Bodies(job, fs))
  BY <1>1, <1>5
<1> QED
  BY <1>10, <1>12, <1>13, <1>14, <1>15 DEF BodiesOK

LEMMA NoneYet ==
  ASSUME NEW job, NEW fs
  PROVE  BodiesOK(job, fs, <<>>, "generating")
<1>1. PICK S : S = Bodies(job, fs)
  OBVIOUS
<1>2. PICK none : none = <<>>
  OBVIOUS
<1>3. none \in Seq(S) /\ DOMAIN none = {}
  BY <1>2
<1>4. ToSet(none) = {}
  BY <1>3 DEF ToSet
<1>5. none \in Seq(Bodies(job, fs))
  BY <1>1, <1>3
<1> QED
  BY <1>2, <1>4, <1>5 DEF BodiesOK

(* The first of some values is one of them. *)
Triples == Nat \X Nat \X Nat
LEMMA FirstIs ==
  ASSUME NEW xs, xs \subseteq Triples, xs # {}
  PROVE  /\ FirstOf(xs) \in xs
         /\ \A y \in xs : FirstOf(xs) = y \/ Earlier(FirstOf(xs), y)
<1>1. PICK F : F = {x[1] : x \in xs}
  OBVIOUS
<1>2. F \subseteq Nat /\ F # {}
  BY <1>1 DEF Triples
<1>3. PICK f \in F : \A y \in F : f <= y
  BY <1>2, LeastExists
<1>4. PICK G : G = {x[2] : x \in {y \in xs : y[1] = f}}
  OBVIOUS
<1>5. G \subseteq Nat /\ G # {}
  BY <1>1, <1>4 DEF Triples
<1>6. PICK a \in G : \A y \in G : a <= y
  BY <1>5, LeastExists
<1>7. PICK H : H = {x[3] : x \in {y \in xs : y[1] = f /\ y[2] = a}}
  OBVIOUS
<1>8. H \subseteq Nat /\ H # {}
  BY <1>4, <1>7 DEF Triples
<1>9. PICK v \in H : \A y \in H : v <= y
  BY <1>8, LeastExists
<1>10. PICK x \in xs : x[1] = f /\ x[2] = a /\ x[3] = v
  BY <1>7
<1>11. f \in Nat /\ a \in Nat /\ v \in Nat
  BY <1>2, <1>5, <1>8
<1>12. x = <<f, a, v>>
  BY <1>10 DEF Triples
<1>13. ASSUME NEW y \in xs PROVE x = y \/ Earlier(x, y)
  <2>1. y = <<y[1], y[2], y[3]>> /\ y[1] \in Nat /\ y[2] \in Nat /\ y[3] \in Nat
    BY DEF Triples
  <2>2. f <= y[1]
    BY <1>1, <1>3
  <2>3. y[1] = f => a <= y[2]
    BY <1>4, <1>6
  <2>4. y[1] = f /\ y[2] = a => v <= y[3]
    BY <1>7, <1>9
  <2>5. CASE f < y[1]
    BY <1>10, <2>5 DEF Earlier
  <2>6. CASE f = y[1] /\ a < y[2]
    BY <1>10, <2>6 DEF Earlier
  <2>7. CASE f = y[1] /\ a = y[2] /\ v < y[3]
    BY <1>10, <2>7 DEF Earlier
  <2>8. CASE f = y[1] /\ a = y[2] /\ v = y[3]
    BY <1>12, <2>1, <2>8
  <2> QED
    BY <1>11, <2>1, <2>2, <2>3, <2>4, <2>5, <2>6, <2>7, <2>8
<1>14. \E z \in xs : \A y \in xs : z = y \/ Earlier(z, y)
  BY <1>13
<1>15. FirstOf(xs) = CHOOSE z \in xs : \A y \in xs : z = y \/ Earlier(z, y)
  BY DEF FirstOf
<1> QED
  BY <1>14, <1>15
-----------------------------------------------------------------------------
(* The invariant *)

GivenOK == funcs \in Programs /\ draw \in Draws /\ lang \in [Sides -> Languages]
MadeOK == TreeGood(funcs, draw, tree, gen)
NothingYet ==
  ~Built => /\ prog = NoBodies /\ status = [s \in Sides |-> "generating"]
            /\ sel = <<>> /\ ~ran

JobOf(s, ls, fs, tr, x, w) ==
  [side |-> s, lang |-> ls[s], funcs |-> fs, tree |-> tr, sel |-> x, writer |-> w]
Desired(act, x) == IF x = <<>> THEN act ELSE {x[1]}
AllDone == [s \in Sides |-> "done"]
SidesOK(ls, fs, act, tr, x, w, p, st) ==
  \A s \in Sides : BodiesOK(JobOf(s, ls, fs, tr, x, w), Desired(act, x), p[s], st[s])

SourcesOK ==
  /\ prog = [s \in Sides |-> prog[s]]
  /\ status \in [Sides -> {"generating", "done"} \cup Failing]
  /\ SidesOK(lang, funcs, Active, tree, sel, writer, prog, status)
  /\ sel = <<>> => writer = "harness"
  /\ writer \in {"harness"} \cup MinWriters
MinimizedOK ==
  sel # <<>> => /\ sel \in AllVals /\ sel[1] \in Active /\ verdict # <<>>
                /\ SidesOK(lang, funcs, Active, tree, <<>>, "harness", full, AllDone)
ResultsOK ==
  /\ bad \subseteq Data
  /\ ~ran => bad = {} /\ verdict = <<>>
  /\ (ran /\ sel = <<>>) => status = AllDone
  /\ verdict # <<>> => verdict = [f \in Active |-> FirstMismatch(f)]

Inv == GivenOK /\ MadeOK /\ NothingYet /\ SourcesOK /\ MinimizedOK /\ ResultsOK

(* The values of functions fs with the tree tr. *)
ValsIn(fs, tr) ==
  {x \in Triples : /\ x[1] \in DOMAIN fs /\ x[2] \in DOMAIN tr[x[1]]
                   /\ x[3] + 1 \in DOMAIN tr[x[1]][x[2]].vals}

LEMMA ValsAre ==
  ASSUME GivenOK, MadeOK
  PROVE  /\ \A x : x \in AllVals <=>
              /\ x = <<x[1], x[2], x[3]>> /\ x[1] \in DOMAIN funcs /\ x[2] \in 1 .. Len(tree[x[1]])
              /\ x[3] \in 0 .. Len(tree[x[1]][x[2]].vals) - 1
         /\ AllVals \subseteq Triples
         /\ \A f \in DOMAIN funcs : ValsOf(f) = {x \in AllVals : x[1] = f}
<1>1. DOMAIN funcs \subseteq Nat /\ tree \in [DOMAIN funcs -> Seq(ArgValues)]
  BY FuncFacts DEF GivenOK, MadeOK, TreeGood
<1>2. PICK S : S = ArgValues
  OBVIOUS
<1>3. PICK V : V = Value
  OBVIOUS
<1>4. ASSUME NEW f \in DOMAIN funcs
      PROVE  /\ DOMAIN tree[f] = 1 .. Len(tree[f]) /\ Len(tree[f]) \in Nat
             /\ \A a \in DOMAIN tree[f] :
                  /\ DOMAIN tree[f][a].vals = 1 .. Len(tree[f][a].vals)
                  /\ Len(tree[f][a].vals) \in Nat
  <2>1. tree[f] \in Seq(S)
    BY <1>1, <1>2
  <2>2. DOMAIN tree[f] = 1 .. Len(tree[f]) /\ Len(tree[f]) \in Nat /\ \A a \in DOMAIN tree[f] : tree[f][a] \in S
    BY <2>1, LenProperties
  <2>3. ASSUME NEW a \in DOMAIN tree[f]
        PROVE  /\ DOMAIN tree[f][a].vals = 1 .. Len(tree[f][a].vals)
               /\ Len(tree[f][a].vals) \in Nat
    <3>1. PICK arg \in S : arg = tree[f][a]
      BY <2>2
    <3>2. arg.vals \in Seq(V)
      BY <1>2, <1>3 DEF ArgValues
    <3> QED
      BY <3>1, <3>2, LenProperties
  <2> QED
    BY <2>2, <2>3
<1>5. ASSUME NEW f \in DOMAIN funcs, NEW x
      PROVE  x \in ValsOf(f) <=>
               /\ x = <<f, x[2], x[3]>> /\ x[2] \in 1 .. Len(tree[f])
               /\ x[3] \in 0 .. Len(tree[f][x[2]].vals) - 1
  <2>1. ASSUME x \in ValsOf(f)
        PROVE  /\ x = <<f, x[2], x[3]>> /\ x[2] \in 1 .. Len(tree[f])
               /\ x[3] \in 0 .. Len(tree[f][x[2]].vals) - 1
    <3>1. PICK a \in DOMAIN tree[f] : x \in {<<f, a, n - 1>> : n \in DOMAIN tree[f][a].vals}
      BY <2>1 DEF ValsOf
    <3>2. PICK n \in DOMAIN tree[f][a].vals : x = <<f, a, n - 1>>
      BY <3>1
    <3>3. PICK m \in Nat : m = Len(tree[f][a].vals) /\ DOMAIN tree[f][a].vals = 1 .. m
      BY <1>4
    <3>4. n \in 1 .. m
      BY <3>2, <3>3
    <3>5. n - 1 \in 0 .. m - 1
      BY <3>4
    <3>6. x[2] = a /\ x[3] = n - 1 /\ x = <<f, x[2], x[3]>>
      BY <3>2
    <3> QED
      BY <1>4, <3>3, <3>5, <3>6
  <2>2. ASSUME NEW a \in 1 .. Len(tree[f]), NEW v \in 0 .. Len(tree[f][a].vals) - 1
        PROVE  <<f, a, v>> \in ValsOf(f)
    <3>1. a \in DOMAIN tree[f]
      BY <1>4
    <3>2. PICK m \in Nat : m = Len(tree[f][a].vals) /\ DOMAIN tree[f][a].vals = 1 .. m
      BY <1>4, <3>1
    <3>3. PICK n \in 1 .. m : n = v + 1 /\ n - 1 = v
      <4>1. v \in 0 .. m - 1
        BY <3>2
      <4>2. v + 1 \in 1 .. m /\ (v + 1) - 1 = v
        BY <4>1
      <4> QED
        BY <4>2
    <3>4. <<f, a, v>> \in {<<f, a, i - 1>> : i \in DOMAIN tree[f][a].vals}
      BY <3>2, <3>3
    <3> QED
      BY <3>1, <3>4 DEF ValsOf
  <2>3. ASSUME x = <<f, x[2], x[3]>>, x[2] \in 1 .. Len(tree[f]),
               x[3] \in 0 .. Len(tree[f][x[2]].vals) - 1
        PROVE  x \in ValsOf(f)
    <3>1. <<f, x[2], x[3]>> \in ValsOf(f)
      BY <2>2, <2>3
    <3> QED
      BY <2>3, <3>1
  <2> QED
    BY <2>1, <2>3
<1>6. \A x : x \in AllVals <=> \E f \in DOMAIN funcs : x \in ValsOf(f)
  BY DEF AllVals
<1>7. \A f \in DOMAIN funcs : \A x \in ValsOf(f) : x[1] = f
  <2>1. ASSUME NEW f \in DOMAIN funcs, NEW x \in ValsOf(f) PROVE x[1] = f
    <3>1. x = <<f, x[2], x[3]>>
      BY <1>5
    <3> QED
      BY <3>1
  <2> QED
    BY <2>1
<1>8. ASSUME NEW x
      PROVE  x \in AllVals <=>
               /\ x = <<x[1], x[2], x[3]>> /\ x[1] \in DOMAIN funcs /\ x[2] \in 1 .. Len(tree[x[1]])
               /\ x[3] \in 0 .. Len(tree[x[1]][x[2]].vals) - 1
  <2>1. x \in AllVals <=> x[1] \in DOMAIN funcs /\ x \in ValsOf(x[1])
    BY <1>6, <1>7
  <2> QED
    BY <1>5, <2>1
<1>9. ASSUME NEW x \in AllVals PROVE x \in Triples
  <2>1. /\ x = <<x[1], x[2], x[3]>> /\ x[1] \in Nat /\ x[2] \in 1 .. Len(tree[x[1]])
        /\ x[3] \in 0 .. Len(tree[x[1]][x[2]].vals) - 1
    BY <1>1, <1>8
  <2>2. x[1] \in Nat /\ x[2] \in Nat /\ x[3] \in Nat
    BY <2>1
  <2> QED
    BY <2>1, <2>2 DEF Triples
<1> QED
  BY <1>6, <1>7, <1>8, <1>9

(* The jobs of the generators are such as the bodies are known for. *)
LEMMA JobGood ==
  ASSUME GivenOK, MadeOK, Built, NEW s \in Sides, NEW x, NEW w, NEW f \in DOMAIN funcs
  PROVE  JobOK(draw, JobOf(s, lang, funcs, tree, x, w), f)
<1>1. PICK job : job = JobOf(s, lang, funcs, tree, x, w)
  OBVIOUS
<1>2. job.side = s /\ job.lang = lang[s] /\ job.funcs = funcs /\ job.tree = tree
  BY <1>1 DEF JobOf
<1>3. lang[s] \in Languages
  BY DEF GivenOK
<1>4. funcs[f] \in FuncSet /\ Len(ArgsOf(funcs[f])) = Count(funcs[f])
  BY FuncFacts DEF GivenOK
<1>5. Filled(draw, ArgsOf(funcs[f]), tree[f])
  BY DEF MadeOK, TreeGood
<1>6. Len(tree[f]) = Count(funcs[f])
  <2>1. ~(Len(tree[f]) < Len(ArgsOf(funcs[f])))
    BY DEF Built, Unvalued, Args, ArgsOf
  <2>2. Len(tree[f]) <= Len(ArgsOf(funcs[f])) /\ Len(tree[f]) \in Nat
    BY <1>5, LenProperties DEF Filled
  <2>3. Count(funcs[f]) \in Nat
    BY <1>4, OwnedIs
  <2> QED
    BY <1>4, <2>1, <2>2, <2>3
<1>7. \A a \in 1 .. Count(funcs[f]) : MadeArg(draw, tree[f][a])
  BY <1>5, <1>6 DEF Filled
<1> QED
  BY <1>1, <1>2, <1>3, <1>4, <1>7 DEF JobOK

LEMMA InvInit ==
  Init => Inv
<1> SUFFICES ASSUME Init PROVE Inv
  OBVIOUS
<1>1. GivenOK
  BY DEF Init, GivenOK
<1>2. PICK fs : fs = DOMAIN funcs
  OBVIOUS
<1>3. tree = [f \in fs |-> <<>>] /\ gen = 0
  BY <1>2 DEF Init
<1>4. MadeOK
  <2>1. PICK S : S = ArgValues
    OBVIOUS
  <2>2. PICK none : none = <<>>
    OBVIOUS
  <2>3. none \in Seq(S) /\ Len(none) = 0
    BY <2>2
  <2>4. tree = [f \in fs |-> none]
    BY <1>3, <2>2
  <2>5. tree \in [fs -> Seq(S)]
    BY <2>3, <2>4
  <2>6. \A f \in fs : Len(tree[f]) = 0 /\ tree[f] = <<>>
    BY <2>2, <2>3, <2>4
  <2>7. ASSUME NEW f \in fs PROVE Filled(draw, ArgsOf(funcs[f]), tree[f])
    <3>1. Len(ArgsOf(funcs[f])) \in Nat
      <4>1. PICK T : T = DOMAIN Ty
        OBVIOUS
      <4>2. ArgsOf(funcs[f]) \in Seq(T)
        BY <1>1, <1>2, <4>1, FuncFacts DEF GivenOK
      <4> QED
        BY <4>2, LenProperties
    <3> QED
      BY <2>1, <2>5, <2>6, <3>1 DEF Filled
  <2>8. InTurn(funcs, tree)
    BY <1>2, <2>6 DEF InTurn
  <2>9. \A f, a, n : ~At(tree, f, a, n)
    <3>1. ASSUME NEW f, NEW a, NEW n, At(tree, f, a, n) PROVE FALSE
      <4>1. f \in fs /\ a \in 1 .. Len(tree[f])
        BY <2>4, <3>1 DEF At
      <4>2. Len(tree[f]) = 0
        BY <2>6, <4>1
      <4> QED
        BY <4>1, <4>2
    <3> QED
      BY <3>1
  <2>10. InRange(tree, 0) /\ InOrder(tree)
    BY <2>9, Zenon DEF InRange, InOrder
  <2>11. AllTaken(tree, 0)
    <3>1. 0 .. 0 - 1 = {}
      OBVIOUS
    <3> QED
      BY <3>1, Zenon DEF AllTaken
  <2>12. TreeGood(funcs, draw, tree, 0)
    BY <1>2, <2>1, <2>5, <2>7, <2>8, <2>10, <2>11 DEF TreeGood, NumberedIn
  <2> QED
    BY <1>3, <2>12 DEF MadeOK
<1>5. NothingYet
  BY DEF Init, NothingYet
<1>6. SourcesOK
  <2>1. prog = [s \in Sides |-> <<>>] /\ status = [s \in Sides |-> "generating"]
    BY DEF Init, NoBodies
  <2>2. ASSUME NEW s \in Sides
        PROVE  BodiesOK(JobOf(s, lang, funcs, tree, sel, writer), Desired(Active, sel), prog[s], status[s])
    <3>1. prog[s] = <<>> /\ status[s] = "generating"
      BY <2>1
    <3> QED
      BY <3>1, NoneYet
  <2>3. SidesOK(lang, funcs, Active, tree, sel, writer, prog, status)
    BY <2>2 DEF SidesOK
  <2> QED
    BY <2>1, <2>3 DEF SourcesOK, Init
<1>7. MinimizedOK /\ ResultsOK
  BY DEF Init, MinimizedOK, ResultsOK
<1> QED
  BY <1>1, <1>4, <1>5, <1>6, <1>7 DEF Inv
LEMMA BuildArgKeeps ==
  ASSUME Inv, BuildArg PROVE Inv'
<1> USE DEF given, sources, results
<1>1. GivenOK /\ MadeOK /\ NothingYet /\ SourcesOK /\ MinimizedOK /\ ResultsOK
  BY DEF Inv
<1>2. /\ UNCHANGED <<funcs, draw, lang, variadics>> /\ UNCHANGED <<sel, writer, prog, status, full>>
      /\ UNCHANGED <<ran, bad, saw, verdict>>
  BY DEF BuildArg
<1>3. ~Built
  BY DEF BuildArg, Built
<1>4. /\ prog = NoBodies /\ status = [s \in Sides |-> "generating"] /\ sel = <<>> /\ ~ran
      /\ bad = {} /\ verdict = <<>>
  BY <1>1, <1>3 DEF NothingYet, ResultsOK
<1>5. PICK f \in Unvalued : \A x \in Unvalued : f <= x
  BY DEF BuildArg
<1>6. GivenOK'
  BY <1>1, <1>2 DEF GivenOK
<1>7. MadeOK'
  <2>1. PICK h \in Unvalued :
          /\ \A x \in Unvalued : h <= x
          /\ LET ty  == Args(h)[Len(tree[h]) + 1]
                 new == BuildValues(draw, ty, gen)
             IN  IF new.err # <<>> THEN err' = new.err /\ UNCHANGED <<gen, tree>>
                 ELSE /\ tree' = [tree EXCEPT ![h] =
                                    Append(@, [ty |-> ty, vals |-> new.vals, start |-> StartAfter(@)])]
                      /\ gen' = new.next
                      /\ UNCHANGED err
    BY DEF BuildArg
  <2>2. PICK ty : ty = ArgsOf(funcs[h])[Len(tree[h]) + 1]
    OBVIOUS
  <2>3. PICK new : new = BuildValues(draw, ty, gen)
    OBVIOUS
  <2>4. PICK arg : arg = [ty |-> ty, vals |-> new.vals, start |-> StartAfter(tree[h])]
    OBVIOUS
  <2>5. IF new.err # <<>> THEN UNCHANGED <<gen, tree>>
        ELSE tree' = [tree EXCEPT ![h] = Append(tree[h], arg)] /\ gen' = new.next
    BY <2>1, <2>2, <2>3, <2>4 DEF Args, ArgsOf
  <2>6. CASE new.err # <<>>
    <3>1. gen' = gen /\ tree' = tree
      BY <2>5, <2>6
    <3> QED
      BY <1>1, <1>2, <3>1 DEF MadeOK
  <2>7. CASE new.err = <<>>
    <3>1. PICK tr2 : tr2 = [tree EXCEPT ![h] = Append(tree[h], arg)]
      OBVIOUS
    <3>2. h \in DOMAIN funcs /\ Len(tree[h]) < Len(ArgsOf(funcs[h]))
      BY DEF Unvalued, Args, ArgsOf
    <3>3. \A x \in DOMAIN funcs : Len(tree[x]) < Len(ArgsOf(funcs[x])) => h <= x
      BY <2>1 DEF Unvalued, Args, ArgsOf
    <3>4. draw \in Draws /\ funcs \in Programs /\ TreeGood(funcs, draw, tree, gen)
      BY <1>1 DEF GivenOK, MadeOK
    <3>5. TreeGood(funcs, draw, tr2, new.next)
      BY <2>2, <2>3, <2>4, <2>7, <3>1, <3>2, <3>3, <3>4, TreeMore
    <3>6. tree' = tr2 /\ gen' = new.next
      BY <2>5, <2>7, <3>1
    <3> QED
      BY <1>2, <3>5, <3>6 DEF MadeOK
  <2> QED
    BY <2>6, <2>7
<1>8. NothingYet'
  BY <1>2, <1>4 DEF NothingYet, NoBodies
<1>9. SourcesOK'
  <2>1. ASSUME NEW s \in Sides
        PROVE  BodiesOK(JobOf(s, lang', funcs', tree', sel', writer'), Desired(Active', sel'),
                        prog'[s], status'[s])
    <3>1. prog'[s] = <<>> /\ status'[s] = "generating"
      BY <1>2, <1>4 DEF NoBodies
    <3> QED
      BY <3>1, NoneYet
  <2>2. SidesOK(lang, funcs, Active, tree, sel, writer, prog, status)'
    BY <2>1 DEF SidesOK
  <2> QED
    BY <1>1, <1>2, <2>2 DEF SourcesOK
<1>10. MinimizedOK'
  BY <1>2, <1>4 DEF MinimizedOK
<1>11. ResultsOK'
  BY <1>2, <1>4 DEF ResultsOK
<1> QED
  BY <1>6, <1>7, <1>8, <1>9, <1>10, <1>11 DEF Inv

LEMMA GenerateBodyKeeps ==
  ASSUME Inv, NEW s \in Sides, GenerateBody(s) PROVE Inv'
<1>1. GivenOK /\ MadeOK /\ NothingYet /\ SourcesOK /\ MinimizedOK /\ ResultsOK
  BY DEF Inv
<1>2. /\ UNCHANGED <<funcs, draw, lang, variadics>> /\ UNCHANGED <<gen, tree, err>>
      /\ UNCHANGED <<sel, writer, full>> /\ UNCHANGED <<ran, bad, saw, verdict>>
  BY DEF GenerateBody, given, values, results
<1>0. Active' = Active
  BY <1>2 DEF Active
<1>3. Built /\ status[s] = "generating"
  BY DEF GenerateBody
<1>4. PICK job : job = JobOf(s, lang, funcs, tree, sel, writer)
  OBVIOUS
<1>5. PICK fs : fs = Desired(Active, sel)
  OBVIOUS
<1>6. fs = DesiredFuncs /\ Job(s) = job
  <2>1. sel # <<>> => sel[1] \in Active
    BY <1>1 DEF MinimizedOK
  <2> QED
    BY <1>4, <1>5, <2>1 DEF Desired, DesiredFuncs, Job, JobOf
<1>7. fs \subseteq DOMAIN funcs
  BY <1>6 DEF DesiredFuncs, Active
<1>8. PICK bodies : bodies = prog[s]
  OBVIOUS
<1>9. Pending(s) = Left(fs, bodies)
  BY <1>6, <1>8 DEF Pending, Left
<1>10. PICK f \in Pending(s) :
         \E body \in {Body(job, f)} :
           /\ prog' = [prog EXCEPT ![s] = Append(@, [func |-> f, code |-> body])]
           /\ status' = [status EXCEPT ![s] =
                IF Last(body).visit.res # "ok" THEN Last(body).visit.res
                ELSE IF Pending(s) = {f} THEN "done" ELSE @]
  BY <1>6 DEF GenerateBody
<1>11. PICK body : body = Body(job, f)
  OBVIOUS
<1>12. PICK more : more = Append(bodies, [func |-> f, code |-> body])
  OBVIOUS
<1>13. PICK result : result = IF Last(body).visit.res # "ok" THEN Last(body).visit.res
                              ELSE IF Left(fs, bodies) = {f} THEN "done" ELSE "generating"
  OBVIOUS
<1>14. prog' = [prog EXCEPT ![s] = more] /\ status' = [status EXCEPT ![s] = result]
  BY <1>3, <1>8, <1>9, <1>10, <1>11, <1>12, <1>13
<1>15. f \in fs
  BY <1>9 DEF Left
<1>16. JobOK(draw, job, f)
  BY <1>1, <1>3, <1>4, <1>7, <1>15, JobGood
<1>17. SidesOK(lang, funcs, Active, tree, sel, writer, prog, status)
  BY <1>1 DEF SourcesOK
<1>18. BodiesOK(job, fs, bodies, "generating")
  BY <1>3, <1>4, <1>5, <1>8, <1>17 DEF SidesOK
<1>19. BodiesOK(job, fs, more, result) /\ result \in {"generating", "done"} \cup Failing
  <2>1. draw \in Draws
    BY <1>1 DEF GivenOK
  <2> QED
    <3>1. Grown(job, fs, bodies, f, body, more, result)
      BY <1>11, <1>12, <1>13 DEF Grown
    <3> QED
      BY <1>15, <1>16, <1>18, <2>1, <3>1, BodiesMore
<1>20. PICK statuses : statuses = {"generating", "done"} \cup Failing
  OBVIOUS
<1>21. prog = [x \in Sides |-> prog[x]] /\ status \in [Sides -> statuses]
  BY <1>1, <1>20 DEF SourcesOK
<1>22. /\ prog' = [x \in Sides |-> prog'[x]] /\ status' \in [Sides -> statuses]
       /\ prog'[s] = more /\ status'[s] = result
       /\ \A x \in Sides : x # s => prog'[x] = prog[x] /\ status'[x] = status[x]
  BY <1>14, <1>19, <1>20, <1>21
<1>23. SidesOK(lang, funcs, Active, tree, sel, writer, prog', status')
  <2>1. ASSUME NEW x \in Sides
        PROVE  BodiesOK(JobOf(x, lang, funcs, tree, sel, writer), Desired(Active, sel),
                        prog'[x], status'[x])
    <3>1. CASE x = s
      BY <1>4, <1>5, <1>19, <1>22, <3>1
    <3>2. CASE x # s
      <4>1. BodiesOK(JobOf(x, lang, funcs, tree, sel, writer), Desired(Active, sel), prog[x], status[x])
        BY <1>17 DEF SidesOK
      <4> QED
        BY <1>22, <3>2, <4>1
    <3> QED
      BY <3>1, <3>2
  <2> QED
    BY <2>1 DEF SidesOK
<1>24. SourcesOK'
  <2>1. SidesOK(lang, funcs, Active, tree, sel, writer, prog, status)'
    BY <1>0, <1>2, <1>23
  <2> QED
    BY <1>1, <1>2, <1>20, <1>22, <2>1 DEF SourcesOK
<1>25. GivenOK' /\ MadeOK'
  BY <1>1, <1>2 DEF GivenOK, MadeOK
<1>26. Built'
  BY <1>2, <1>3 DEF Built, Unvalued, Args
<1>27. NothingYet'
  BY <1>26 DEF NothingYet
<1>28. AllVals' = AllVals /\ Data' = Data
  BY <1>0, <1>2 DEF Data, AllVals, ValsOf, Val
<1>29. MinimizedOK'
  <2>1. SidesOK(lang, funcs, Active, tree, <<>>, "harness", full, AllDone)'
        = SidesOK(lang, funcs, Active, tree, <<>>, "harness", full, AllDone)
    BY <1>0, <1>2
  <2> QED
    BY <1>0, <1>1, <1>2, <1>28 DEF MinimizedOK
<1>30. ResultsOK'
  <2>1. \A x \in Active : FirstMismatch(x)' = FirstMismatch(x)
    BY <1>2 DEF FirstMismatch, Wrong, ValsOf, Mismatch, Vals, Val
  <2>2. (ran /\ sel = <<>>) => FALSE
    <3>1. status = AllDone => status[s] = "done"
      BY DEF AllDone
    <3> QED
      BY <1>1, <1>3, <3>1 DEF ResultsOK
  <2>3. verdict' # <<>> => verdict' = [x \in Active' |-> FirstMismatch(x)']
    <3>1. verdict # <<>> => verdict = [x \in Active |-> FirstMismatch(x)]
      BY <1>1 DEF ResultsOK
    <3>2. [x \in Active |-> FirstMismatch(x)'] = [x \in Active |-> FirstMismatch(x)]
      BY <2>1
    <3> QED
      BY <1>0, <1>2, <3>1, <3>2
  <2> QED
    BY <1>1, <1>2, <1>28, <2>2, <2>3 DEF ResultsOK
<1> QED
  BY <1>24, <1>25, <1>27, <1>29, <1>30 DEF Inv
LEMMA RunKeeps ==
  ASSUME Inv, Run PROVE Inv'
<1>1. GivenOK /\ MadeOK /\ NothingYet /\ SourcesOK /\ MinimizedOK /\ ResultsOK
  BY DEF Inv
<1>2. /\ UNCHANGED <<funcs, draw, lang, variadics>> /\ UNCHANGED <<gen, tree, err>>
      /\ UNCHANGED <<sel, writer, prog, status, full>> /\ UNCHANGED verdict
  BY DEF Run, given, values, sources
<1>0. Active' = Active
  BY <1>2 DEF Active
<1>3. ~ran /\ ran' /\ (\A s \in Sides : status[s] = "done") /\ bad' \subseteq Data
  BY DEF Run
<1>4. verdict = <<>> /\ sel = <<>>
  BY <1>1, <1>3 DEF ResultsOK, MinimizedOK
<1>5. GivenOK' /\ MadeOK'
  BY <1>1, <1>2 DEF GivenOK, MadeOK
<1>6. SourcesOK'
  BY <1>0, <1>1, <1>2 DEF SourcesOK, SidesOK
<1>7. NothingYet'
  <2>1. PICK s \in Sides : TRUE
    BY DEF Sides
  <2>2. status # [x \in Sides |-> "generating"]
    BY <1>3
  <2>3. Built
    BY <1>1, <2>2 DEF NothingYet
  <2>4. Built'
    BY <1>2, <2>3 DEF Built, Unvalued, Args
  <2> QED
    BY <2>4 DEF NothingYet
<1>8. MinimizedOK'
  BY <1>2, <1>4 DEF MinimizedOK
<1>9. ResultsOK'
  <2>1. Data' = Data
    BY <1>0, <1>2 DEF Data, AllVals, ValsOf, Val
  <2>2. status = AllDone
    BY <1>1, <1>3 DEF SourcesOK, AllDone
  <2> QED
    BY <1>2, <1>3, <1>4, <2>1, <2>2 DEF ResultsOK, AllDone
<1> QED
  BY <1>5, <1>6, <1>7, <1>8, <1>9 DEF Inv

LEMMA CheckKeeps ==
  ASSUME Inv, Check PROVE Inv'
<1>1. GivenOK /\ MadeOK /\ NothingYet /\ SourcesOK /\ MinimizedOK /\ ResultsOK
  BY DEF Inv
<1>2. /\ UNCHANGED <<funcs, draw, lang, variadics>> /\ UNCHANGED <<gen, tree, err>>
      /\ UNCHANGED <<sel, writer, prog, status, full>> /\ UNCHANGED <<ran, bad, saw>>
  BY DEF Check, given, values, sources
<1>0. Active' = Active
  BY <1>2 DEF Active
<1>3. ran /\ verdict = <<>> /\ verdict' = [f \in Active |-> FirstMismatch(f)]
  <2>1. ran /\ verdict = <<>> /\ verdict' = [f \in DesiredFuncs |-> FirstMismatch(f)]
    BY DEF Check
  <2>2. DesiredFuncs = Active
    BY <1>1, <2>1 DEF MinimizedOK, DesiredFuncs
  <2> QED
    BY <2>1, <2>2
<1>4. GivenOK' /\ MadeOK'
  BY <1>1, <1>2 DEF GivenOK, MadeOK
<1>5. SourcesOK'
  BY <1>0, <1>1, <1>2 DEF SourcesOK, SidesOK
<1>6. NothingYet'
  <2>1. Built' = Built
    BY <1>2 DEF Built, Unvalued, Args
  <2> QED
    BY <1>1, <1>2, <2>1 DEF NothingYet, NoBodies
<1>7. MinimizedOK'
  BY <1>1, <1>2, <1>3 DEF MinimizedOK
<1>8. ResultsOK'
  <2>1. Data' = Data
    BY <1>0, <1>2 DEF Data, AllVals, ValsOf, Val
  <2>2. \A x \in Active : FirstMismatch(x)' = FirstMismatch(x)
    BY <1>2 DEF FirstMismatch, Wrong, ValsOf, Mismatch, Vals, Val
  <2>3. verdict' = [x \in Active' |-> FirstMismatch(x)']
    <3>1. [x \in Active |-> FirstMismatch(x)'] = [x \in Active |-> FirstMismatch(x)]
      BY <2>2
    <3> QED
      BY <1>0, <1>2, <1>3, <3>1
  <2> QED
    BY <1>0, <1>1, <1>2, <1>3, <2>1, <2>3 DEF ResultsOK, AllDone
<1> QED
  BY <1>4, <1>5, <1>6, <1>7, <1>8 DEF Inv

(* The value that a check reports is one that does not agree. *)
LEMMA Blamed ==
  ASSUME Inv, verdict # <<>>, NEW f \in DOMAIN verdict, verdict[f] # <<>>
  PROVE  /\ f \in Active /\ verdict[f] \in Wrong(f) /\ verdict[f] \in AllVals
         /\ verdict[f][1] = f
<1>1. verdict = [x \in Active |-> FirstMismatch(x)]
  BY DEF Inv, ResultsOK
<1>2. f \in Active /\ f \in DOMAIN funcs /\ verdict[f] = FirstMismatch(f)
  BY <1>1 DEF Active
<1>3. Wrong(f) # {} /\ verdict[f] = FirstOf(Wrong(f))
  BY <1>2 DEF FirstMismatch
<1>4. Wrong(f) \subseteq AllVals /\ Wrong(f) \subseteq Triples /\ \A x \in Wrong(f) : x[1] = f
  BY <1>2, ValsAre DEF Inv, Wrong
<1>5. FirstOf(Wrong(f)) \in Wrong(f)
  BY <1>3, <1>4, FirstIs
<1> QED
  BY <1>2, <1>3, <1>4, <1>5

LEMMA MinimizeKeeps ==
  ASSUME Inv, Minimize PROVE Inv'
<1>1. GivenOK /\ MadeOK /\ NothingYet /\ SourcesOK /\ MinimizedOK /\ ResultsOK
  BY DEF Inv
<1>2. /\ UNCHANGED <<funcs, draw, lang, variadics>> /\ UNCHANGED <<gen, tree, err>>
      /\ UNCHANGED <<ran, bad, saw, verdict>>
  BY DEF Minimize, given, values, results
<1>0. Active' = Active
  BY <1>2 DEF Active
<1>3. /\ verdict # <<>> /\ sel = <<>> /\ writer' \in MinWriters /\ full' = prog
      /\ prog' = NoBodies /\ status' = [s \in Sides |-> "generating"]
  BY DEF Minimize
<1>4. PICK f \in DOMAIN verdict : verdict[f] # <<>> /\ sel' = verdict[f]
  BY DEF Minimize
<1>5. sel' \in AllVals /\ sel'[1] \in Active
  BY <1>3, <1>4, Blamed
<1>6. sel' # <<>>
  BY <1>4
<1>7. ran /\ status = AllDone /\ writer = "harness"
  BY <1>1, <1>3 DEF ResultsOK, SourcesOK
<1>8. GivenOK' /\ MadeOK'
  BY <1>1, <1>2 DEF GivenOK, MadeOK
<1>9. NothingYet'
  <2>1. status # [x \in Sides |-> "generating"]
    <3>1. PICK s \in Sides : TRUE
      BY DEF Sides
    <3> QED
      BY <1>7, <3>1 DEF AllDone
  <2>2. Built
    BY <1>1, <2>1 DEF NothingYet
  <2>3. Built'
    BY <1>2, <2>2 DEF Built, Unvalued, Args
  <2> QED
    BY <2>3 DEF NothingYet
<1>10. SourcesOK'
  <2>1. ASSUME NEW s \in Sides
        PROVE  BodiesOK(JobOf(s, lang', funcs', tree', sel', writer'), Desired(Active', sel'),
                        prog'[s], status'[s])
    <3>1. prog'[s] = <<>> /\ status'[s] = "generating"
      BY <1>3 DEF NoBodies
    <3> QED
      BY <3>1, NoneYet
  <2>2. SidesOK(lang, funcs, Active, tree, sel, writer, prog, status)'
    BY <2>1 DEF SidesOK
  <2> QED
    BY <1>3, <1>6, <2>2 DEF SourcesOK, NoBodies
<1>11. MinimizedOK'
  <2>1. SidesOK(lang, funcs, Active, tree, sel, writer, prog, status)
    BY <1>1 DEF SourcesOK
  <2>2. SidesOK(lang, funcs, Active, tree, <<>>, "harness", prog, AllDone)
    BY <1>3, <1>7, <2>1
  <2>3. SidesOK(lang, funcs, Active, tree, <<>>, "harness", full, AllDone)'
    BY <1>0, <1>2, <1>3, <2>2 DEF AllDone
  <2>4. AllVals' = AllVals
    BY <1>2 DEF AllVals, ValsOf
  <2> QED
    BY <1>0, <1>2, <1>3, <1>5, <2>3, <2>4 DEF MinimizedOK
<1>12. ResultsOK'
  <2>1. Data' = Data
    BY <1>0, <1>2 DEF Data, AllVals, ValsOf, Val
  <2>2. \A x \in Active : FirstMismatch(x)' = FirstMismatch(x)
    BY <1>2 DEF FirstMismatch, Wrong, ValsOf, Mismatch, Vals, Val
  <2>3. verdict' = [x \in Active' |-> FirstMismatch(x)']
    <3>1. [x \in Active |-> FirstMismatch(x)'] = [x \in Active |-> FirstMismatch(x)]
      BY <2>2
    <3>2. verdict = [x \in Active |-> FirstMismatch(x)]
      BY <1>1, <1>3 DEF ResultsOK
    <3> QED
      BY <1>0, <1>2, <3>1, <3>2
  <2> QED
    BY <1>1, <1>2, <1>6, <1>7, <2>1, <2>3 DEF ResultsOK
<1> QED
  BY <1>8, <1>9, <1>10, <1>11, <1>12 DEF Inv

LEMMA NothingKeeps ==
  ASSUME Inv, UNCHANGED vars PROVE Inv'
<1>1. GivenOK /\ MadeOK /\ NothingYet /\ SourcesOK /\ MinimizedOK /\ ResultsOK
  BY DEF Inv
<1>2. /\ UNCHANGED <<funcs, draw, lang, variadics>> /\ UNCHANGED <<gen, tree, err>>
      /\ UNCHANGED <<sel, writer, prog, status, full>> /\ UNCHANGED <<ran, bad, saw, verdict>>
  BY DEF vars, given, values, sources, results
<1>0. Active' = Active
  BY <1>2 DEF Active
<1>3. GivenOK' /\ MadeOK'
  BY <1>1, <1>2 DEF GivenOK, MadeOK
<1>4. SourcesOK'
  BY <1>0, <1>1, <1>2 DEF SourcesOK, SidesOK
<1>5. NothingYet'
  <2>1. Built' = Built
    BY <1>2 DEF Built, Unvalued, Args
  <2> QED
    BY <1>1, <1>2, <2>1 DEF NothingYet, NoBodies
<1>6. MinimizedOK'
  <2>1. AllVals' = AllVals
    BY <1>2 DEF AllVals, ValsOf
  <2>2. SidesOK(lang, funcs, Active, tree, <<>>, "harness", full, AllDone)'
        = SidesOK(lang, funcs, Active, tree, <<>>, "harness", full, AllDone)
    BY <1>0, <1>2
  <2> QED
    BY <1>0, <1>1, <1>2, <2>1, <2>2 DEF MinimizedOK
<1>7. ResultsOK'
  <2>1. Data' = Data
    BY <1>0, <1>2 DEF Data, AllVals, ValsOf, Val
  <2>2. \A x \in Active : FirstMismatch(x)' = FirstMismatch(x)
    BY <1>2 DEF FirstMismatch, Wrong, ValsOf, Mismatch, Vals, Val
  <2>3. verdict' # <<>> => verdict' = [x \in Active' |-> FirstMismatch(x)']
    <3>1. verdict # <<>> => verdict = [x \in Active |-> FirstMismatch(x)]
      BY <1>1 DEF ResultsOK
    <3>2. [x \in Active |-> FirstMismatch(x)'] = [x \in Active |-> FirstMismatch(x)]
      BY <2>2
    <3> QED
      BY <1>0, <1>2, <3>1, <3>2
  <2> QED
    BY <1>1, <1>2, <2>1, <2>3 DEF ResultsOK, AllDone
<1> QED
  BY <1>3, <1>4, <1>5, <1>6, <1>7 DEF Inv

LEMMA InvNext ==
  Inv /\ [Next]_vars => Inv'
<1> SUFFICES ASSUME Inv, [Next]_vars PROVE Inv'
  OBVIOUS
<1>1. CASE BuildArg
  BY <1>1, BuildArgKeeps
<1>2. CASE \E s \in Sides : GenerateBody(s)
  BY <1>2, GenerateBodyKeeps
<1>3. CASE Run
  BY <1>3, RunKeeps
<1>4. CASE Check
  BY <1>4, CheckKeeps
<1>5. CASE Minimize
  BY <1>5, MinimizeKeeps
<1>6. CASE Over \/ UNCHANGED vars
  BY <1>6, NothingKeeps DEF Over
<1> QED
  BY <1>1, <1>2, <1>3, <1>4, <1>5, <1>6 DEF Next

(* What is made is made for good: the values of every function built so    *)
(* far, in their turn and with their numbers, the bodies each side has     *)
(* generated from them, before and after minimizing, and the verdict.      *)
THEOREM Invariance == Spec => []Inv
<1> QED
  BY InvInit, InvNext, PTL DEF Spec

-----------------------------------------------------------------------------
(* The values, the list of generators and the results are always of their  *)
(* types, the writer is one of those that may be asked for, a selection is *)
(* one of the values there are, and a generator never gives up but for a   *)
(* type its language lacks or an assertion it cannot write.                *)
THEOREM TypeCorrect == Spec => []TypeOK
<1>1. Inv => TypeOK
  <2> SUFFICES ASSUME Inv PROVE TypeOK
    OBVIOUS
  <2>1. gen \in Nat /\ tree \in [DOMAIN funcs -> Seq(ArgValues)]
    BY DEF Inv, MadeOK, TreeGood
  <2>2. sel = <<>> \/ sel \in AllVals
    BY DEF Inv, MinimizedOK
  <2>3. writer \in {"harness"} \cup MinWriters /\ bad \subseteq Data
    BY DEF Inv, SourcesOK, ResultsOK
  <2>4. status \in [Sides -> {"generating", "done", "unsupported", "not_leaf", "exceeded", "overflow"}]
    <3>1. PICK all : all = {"generating", "done", "unsupported", "not_leaf", "exceeded", "overflow"}
      OBVIOUS
    <3>2. PICK some : some = {"generating", "done"} \cup Failing
      OBVIOUS
    <3>3. some \subseteq all
      BY <3>1, <3>2 DEF Failing
    <3>4. status \in [Sides -> some]
      BY <3>2 DEF Inv, SourcesOK
    <3> QED
      BY <3>1, <3>3, <3>4
  <2> QED
    BY <2>1, <2>2, <2>3, <2>4 DEF TypeOK
<1> QED
  BY <1>1, Invariance, PTL

LEMMA NumbersAre ==
  ASSUME Inv PROVE NumberedThrough
<1>1. GivenOK /\ MadeOK /\ NumberedIn(tree, gen)
  BY DEF Inv, MadeOK, TreeGood
<1>2. \A x : x \in AllVals <=>
         /\ x = <<x[1], x[2], x[3]>> /\ x[1] \in DOMAIN funcs /\ x[2] \in 1 .. Len(tree[x[1]])
         /\ x[3] \in 0 .. Len(tree[x[1]][x[2]].vals) - 1
  BY <1>1, ValsAre
<1>3. DOMAIN tree = DOMAIN funcs /\ DOMAIN funcs \subseteq Nat
  BY <1>1, FuncFacts DEF MadeOK, TreeGood, GivenOK
<1>4. ASSUME NEW x \in AllVals
      PROVE  /\ At(tree, x[1], x[2], x[3] + 1)
             /\ Val(x[1], x[2], x[3]).num = Num(tree, x[1], x[2], x[3] + 1)
             /\ x[1] \in Nat /\ x[2] \in Nat /\ x[3] \in Nat
  <2>1. /\ x[1] \in DOMAIN funcs /\ x[2] \in 1 .. Len(tree[x[1]])
        /\ x[3] \in 0 .. Len(tree[x[1]][x[2]].vals) - 1
    BY <1>2
  <2>2. x[3] \in Nat /\ x[3] + 1 \in 1 .. Len(tree[x[1]][x[2]].vals)
    <3>1. PICK m : m = Len(tree[x[1]][x[2]].vals)
      OBVIOUS
    <3>2. m \in Nat
      <4>1. PICK S : S = ArgValues
        OBVIOUS
      <4>2. PICK V : V = Value
        OBVIOUS
      <4>3. tree[x[1]] \in Seq(S)
        BY <1>1, <2>1, <4>1 DEF MadeOK, TreeGood
      <4>4. PICK arg \in S : arg = tree[x[1]][x[2]]
        BY <2>1, <4>3
      <4>5. arg.vals \in Seq(V)
        BY <4>1, <4>2 DEF ArgValues
      <4> QED
        BY <3>1, <4>4, <4>5, LenProperties
    <3>3. x[3] \in 0 .. m - 1
      BY <2>1, <3>1
    <3>4. x[3] \in Nat /\ x[3] + 1 \in 1 .. m
      BY <3>2, <3>3
    <3> QED
      BY <3>1, <3>4
  <2>3. x[1] \in Nat /\ x[2] \in Nat
    BY <1>3, <2>1
  <2> QED
    BY <1>3, <2>1, <2>2, <2>3 DEF At, Num, Val
<1>5. ASSUME NEW f, NEW a, NEW n, At(tree, f, a, n)
      PROVE  /\ <<f, a, n - 1>> \in AllVals
             /\ Val(f, a, n - 1).num = Num(tree, f, a, n)
  <2>1. f \in DOMAIN funcs /\ a \in 1 .. Len(tree[f]) /\ n \in 1 .. Len(tree[f][a].vals)
    BY <1>3, <1>5 DEF At
  <2>2. n - 1 \in 0 .. Len(tree[f][a].vals) - 1 /\ (n - 1) + 1 = n
    <3>1. PICK m : m = Len(tree[f][a].vals)
      OBVIOUS
    <3>2. m \in Nat
      <4>1. PICK S : S = ArgValues
        OBVIOUS
      <4>2. PICK V : V = Value
        OBVIOUS
      <4>3. tree[f] \in Seq(S)
        BY <1>1, <2>1, <4>1 DEF MadeOK, TreeGood
      <4>4. PICK arg \in S : arg = tree[f][a]
        BY <2>1, <4>3
      <4>5. arg.vals \in Seq(V)
        BY <4>1, <4>2 DEF ArgValues
      <4> QED
        BY <3>1, <4>4, <4>5, LenProperties
    <3>3. n \in 1 .. m
      BY <2>1, <3>1
    <3>4. n - 1 \in 0 .. m - 1 /\ (n - 1) + 1 = n
      BY <3>2, <3>3
    <3> QED
      BY <3>1, <3>4
  <2>3. PICK v : v = n - 1
    OBVIOUS
  <2>4. PICK x : x = <<f, a, v>>
    OBVIOUS
  <2>5. x[1] = f /\ x[2] = a /\ x[3] = v
    BY <2>4
  <2>6. x \in AllVals
    BY <1>2, <2>1, <2>2, <2>3, <2>4, <2>5
  <2> QED
    BY <2>2, <2>3, <2>4, <2>6 DEF Val, Num
<1>6. {Val(x[1], x[2], x[3]).num : x \in AllVals} = 0 .. gen - 1
  <2>1. ASSUME NEW x \in AllVals PROVE Val(x[1], x[2], x[3]).num \in 0 .. gen - 1
    <3>1. Num(tree, x[1], x[2], x[3] + 1) \in 0 .. gen - 1
      BY <1>1, <1>4, Zenon DEF NumberedIn, InRange
    <3> QED
      BY <1>4, <3>1
  <2>2. ASSUME NEW i \in 0 .. gen - 1 PROVE \E x \in AllVals : Val(x[1], x[2], x[3]).num = i
    <3>1. PICK f, a, n : At(tree, f, a, n) /\ Num(tree, f, a, n) = i
      BY <1>1, Zenon DEF NumberedIn, AllTaken
    <3>2. PICK x \in AllVals : x = <<f, a, n - 1>>
      BY <1>5, <3>1
    <3>3. x[1] = f /\ x[2] = a /\ x[3] = n - 1
      BY <3>2
    <3>5. Val(f, a, n - 1).num = Num(tree, f, a, n)
      BY <1>5, <3>1
    <3>4. Val(x[1], x[2], x[3]).num = i
      BY <3>1, <3>3, <3>5
    <3> QED
      BY <3>4
  <2> QED
    BY <2>1, <2>2
<1>7. ASSUME NEW x \in AllVals, NEW y \in AllVals, Earlier(x, y)
      PROVE  Val(x[1], x[2], x[3]).num < Val(y[1], y[2], y[3]).num
  <2>1. Before(x[1], x[2], x[3] + 1, y[1], y[2], y[3] + 1)
    BY <1>4, <1>7 DEF Earlier, Before
  <2>2. Num(tree, x[1], x[2], x[3] + 1) < Num(tree, y[1], y[2], y[3] + 1)
    BY <1>1, <1>4, <2>1, Zenon DEF NumberedIn, InOrder
  <2> QED
    BY <1>4, <2>2
<1> QED
  BY <1>6, <1>7 DEF NumberedThrough

LEMMA FieldsMeet ==
  ASSUME NEW d \in Draws, NEW job, NEW f, JobOK(d, job, f), NEW b, b = Body(job, f),
         Last(b).visit.res = "ok", NEW st \in ToSet(b), st.op \in {"init", "write"}
  PROVE  st.visit.next = Len(job.tree[f][st.arg].vals)
<1>1. job.side \in Sides /\ job.funcs[f] \in FuncSet
  BY DEF JobOK
<1>2. Whole(job, f, ToSet(b))
  BY <1>1, BodyIs
<1>3. st.visit.res = "ok"
  BY <1>2 DEF Whole
<1>4. \A op, a : /\ Did(job, f, op, a).op = op /\ Did(job, f, op, a).arg = a
                 /\ Did(job, f, op, a).visit = Perform(job, f, op, a)
  BY DEF Did
<1>5. \/ \E a \in 1 .. Count(job.funcs[f]) : st = Did(job, f, "write", a)
      \/ \E a \in Owned(job.side, job.funcs[f]) : st = Did(job, f, "init", a)
  BY <1>2, <1>4 DEF Whole
<1>6. ASSUME NEW a \in 1 .. Count(job.funcs[f]), st = Did(job, f, "write", a)
      PROVE  st.visit.next = Len(job.tree[f][st.arg].vals)
  <2>1. st.visit = WriteVar(job, f, a) /\ st.arg = a
    BY <1>4, <1>6 DEF Perform
  <2> QED
    BY <1>3, <2>1, WriteVarIs
<1>7. ASSUME NEW a \in Owned(job.side, job.funcs[f]), st = Did(job, f, "init", a)
      PROVE  st.visit.next = Len(job.tree[f][st.arg].vals)
  <2>1. st.visit = InitVar(job, f, a) /\ st.arg = a
    BY <1>4, <1>7 DEF Perform
  <2>2. a \in 1 .. Count(job.funcs[f])
    <3>1. PICK func \in FuncSet : func = job.funcs[f]
      BY <1>1
    <3> QED
      BY <1>7, <3>1, OwnedIs
  <2> QED
    BY <1>3, <2>1, <2>2, InitVarIs
<1> QED
  BY <1>5, <1>6, <1>7

LEMMA Whose ==
  ASSUME Inv
  PROVE  /\ Desired(Active, sel) \subseteq Active /\ Active \subseteq DOMAIN funcs
         /\ Desired(Active, sel) = DesiredFuncs
         /\ \A s \in Sides :
              /\ Job(s) = JobOf(s, lang, funcs, tree, sel, writer)
              /\ BodiesOK(JobOf(s, lang, funcs, tree, sel, writer), Desired(Active, sel),
                          prog[s], status[s])
<1>1. sel # <<>> => sel[1] \in Active
  BY DEF Inv, MinimizedOK
<1>2. Active \subseteq DOMAIN funcs
  BY DEF Active
<1> QED
  BY <1>1, <1>2 DEF Desired, DesiredFuncs, Job, JobOf, Inv, SourcesOK, SidesOK

(* Each value is made once and reported in its turn.  A visit of an        *)
(* argument, be it to initialize or to write it, in C or in Rust, through  *)
(* whichever blocks of the puns, takes exactly the values build_values has *)
(* made for it: it never runs out of values, never leaves one over and     *)
(* never recurses deeper.  And only types the blocks of a pun disagree on  *)
(* can make a minimized assertion panic.                                   *)
THEOREM VisitsTakeTheirValues == Spec => []VisitsAgree
<1>1. Inv => VisitsAgree
  <2> SUFFICES ASSUME Inv PROVE VisitsAgree
    OBVIOUS
  <2>1. GivenOK /\ MadeOK /\ NothingYet
    BY DEF Inv
  <2>2. draw \in Draws
    BY <2>1 DEF GivenOK
  <2>3. NumberedThrough
    BY NumbersAre
  <2>4. PICK fs : fs = Desired(Active, sel)
    OBVIOUS
  <2>5. fs \subseteq DOMAIN funcs
    BY <2>4, Whose
  <2>6. ASSUME NEW s \in Sides
        PROVE  /\ status[s] \notin {"exceeded", "overflow"}
               /\ status[s] = "not_leaf" => \E f \in Active : ~Alike(f)
               /\ status[s] \in {"generating", "done"} =>
                    \A body \in ToSet(prog[s]) : \A st \in ToSet(body.code) :
                      st.op \in {"init", "write"} =>
                        st.visit.next = Len(tree[body.func][st.arg].vals)
    <3>1. PICK job : job = JobOf(s, lang, funcs, tree, sel, writer)
      OBVIOUS
    <3>2. BodiesOK(job, fs, prog[s], status[s])
      BY <2>4, <3>1, Whose
    <3>3. Built => \A f \in fs : JobOK(draw, job, f)
      BY <2>1, <2>5, <3>1, JobGood
    <3>4. ~Built => prog[s] = <<>> /\ status[s] = "generating"
      BY <2>1 DEF NothingYet, NoBodies
    <3>5. status[s] \in {"generating", "done"} \cup Failing
      BY DEF Inv, SourcesOK
    <3>6. ASSUME status[s] = "not_leaf" PROVE \E f \in Active : ~Alike(f)
      <4>1. PICK f \in fs : Last(Body(job, f)).visit.res = "not_leaf"
        BY <3>2, <3>6 DEF BodiesOK
      <4>2. JobOK(draw, job, f)
        BY <3>3, <3>4, <3>6
      <4>3. job.side \in Sides /\ job.funcs[f] \in FuncSet
        BY <4>2 DEF JobOK
      <4>4. PICK x \in ToSet(Written(job, f)) : x = Last(Body(job, f))
        BY <4>3, BodyIs
      <4>5. PICK a \in 1 .. Count(job.funcs[f]) : ~LinesAlike(job.lang, job.tree[f][a])
        BY <2>2, <4>1, <4>2, <4>4, ResultsAre
      <4>6. job.lang = lang[s] /\ job.tree = tree /\ job.funcs = funcs
        BY <3>1 DEF JobOf
      <4>7. a \in DOMAIN tree[f]
        <5>1. tree[f] \in Seq(ArgValues) /\ Filled(draw, ArgsOf(funcs[f]), tree[f])
          BY <2>1, <2>5 DEF MadeOK, TreeGood
        <5>2. ~(Len(tree[f]) < Len(ArgsOf(funcs[f])))
          BY <2>5, <3>4, <3>6 DEF Built, Unvalued, Args, ArgsOf
        <5>3. PICK S : S = ArgValues
          OBVIOUS
        <5>4. Len(tree[f]) \in Nat /\ DOMAIN tree[f] = 1 .. Len(tree[f])
          BY <5>1, <5>3, LenProperties
        <5>5. funcs[f] \in FuncSet /\ Len(ArgsOf(funcs[f])) = Count(funcs[f])
          BY <2>1, <2>5, FuncFacts DEF GivenOK
        <5>6. Count(funcs[f]) \in Nat
          BY <5>5, OwnedIs
        <5> QED
          BY <4>6, <5>2, <5>4, <5>5, <5>6
      <4>8. ~LinesAlike(lang[s], tree[f][a])
        BY <4>5, <4>6
      <4>9. f \in Active
        BY <2>4, Whose
      <4> QED
        BY <4>7, <4>8, <4>9 DEF Alike
    <3>7. ASSUME status[s] \in {"generating", "done"}, NEW body \in ToSet(prog[s]),
                 NEW st \in ToSet(body.code), st.op \in {"init", "write"}
          PROVE  st.visit.next = Len(tree[body.func][st.arg].vals)
      <4>1. prog[s] \in Seq(Bodies(job, fs)) /\ Last(body.code).visit.res = "ok"
        BY <3>2, <3>7 DEF BodiesOK
      <4>2. PICK f \in fs : body.func = f /\ body.code = Body(job, f)
        BY <4>1, BodiesAre
      <4>3. Built
        <5>1. ToSet(<<>>) = {}
          BY DEF ToSet
        <5> QED
          BY <3>4, <5>1
      <4>4. JobOK(draw, job, f)
        BY <3>3, <4>3
      <4>5. PICK b : b = Body(job, f)
        OBVIOUS
      <4>6. st \in ToSet(b) /\ Last(b).visit.res = "ok"
        BY <4>1, <4>2, <4>5
      <4>7. st.visit.next = Len(job.tree[f][st.arg].vals)
        BY <2>2, <3>7, <4>4, <4>5, <4>6, FieldsMeet
      <4> QED
        BY <3>1, <4>2, <4>7 DEF JobOf
    <3>8. status[s] \notin {"exceeded", "overflow"}
      BY <3>5 DEF Failing
    <3> QED
      BY <3>6, <3>7, <3>8
  <2> QED
    BY <2>3, <2>6 DEF VisitsAgree
<1> QED
  BY <1>1, Invariance, PTL
-----------------------------------------------------------------------------
(* The indices *)

(* A set whose elements are numbered from 0 to n - 1. *)
LEMMA Numbered ==
  ASSUME NEW n \in Nat, NEW X, NEW idx, \A x \in X : idx[x] \in 0 .. n - 1,
         \A x, y \in X : idx[x] = idx[y] => x = y, \A i \in 0 .. n - 1 : \E x \in X : idx[x] = i
  PROVE  Cardinality(X) = n
<1>1. PICK I : I = 0 .. n - 1
  OBVIOUS
<1>2. IsFiniteSet(I) /\ Cardinality(I) = n
  <2>1. n - 1 \in Int /\ 0 \in Int
    OBVIOUS
  <2>2. IsFiniteSet(0 .. n - 1) /\ Cardinality(0 .. n - 1) = IF 0 > n - 1 THEN 0 ELSE (n - 1) - 0 + 1
    BY <2>1, FS_Interval
  <2> QED
    BY <1>1, <2>2
<1>3. PICK of : of = [i \in I |-> CHOOSE x \in X : idx[x] = i]
  OBVIOUS
<1>4. \A i \in I : of[i] \in X /\ idx[of[i]] = i
  BY <1>1, <1>3
<1>5. of \in [I -> X]
  BY <1>3, <1>4
<1>6. of \in Injection(I, X)
  BY <1>4, <1>5 DEF Injection, IsInjective
<1>7. of \in Surjection(I, X)
  <2>1. ASSUME NEW x \in X PROVE \E i \in I : of[i] = x
    <3>1. idx[x] \in I
      BY <1>1
    <3>2. of[idx[x]] = x
      BY <1>4, <3>1
    <3> QED
      BY <3>1, <3>2
  <2> QED
    BY <1>5, <2>1 DEF Surjection
<1>8. ExistsBijection(I, X)
  BY <1>6, <1>7 DEF ExistsBijection, Bijection
<1> QED
  BY <1>2, <1>8, FS_Bijection

(* The arguments are laid end to end, and are that long together.          *)
EndToEnd(args, N) ==
  \A a \in 1 .. N :
    /\ args[a].start \in Nat /\ Len(args[a].vals) \in Nat
    /\ args[a].start = IF a = 1 THEN 0 ELSE args[a - 1].start + Len(args[a - 1].vals)
Together(args, N) == IF N = 0 THEN 0 ELSE args[N].start + Len(args[N].vals)

LEMMA OneAfterAnother ==
  ASSUME NEW args, NEW N \in Nat, EndToEnd(args, N), NEW a \in 1 .. N
  PROVE  \A b \in 1 .. N : a < b => args[a].start + Len(args[a].vals) <= args[b].start
<1> DEFINE S == {k \in Nat : a + 1 + k <= N =>
                    args[a].start + Len(args[a].vals) <= args[a + 1 + k].start}
<1>1. \A b \in 1 .. N : args[b].start \in Nat /\ Len(args[b].vals) \in Nat
  BY DEF EndToEnd
<1>2. ASSUME NEW b \in 1 .. N, b + 1 \in 1 .. N
      PROVE  args[b + 1].start = args[b].start + Len(args[b].vals)
  <2>1. PICK c \in 1 .. N : c = b + 1 /\ c # 1 /\ c - 1 = b
    BY <1>2
  <2>2. args[c].start = args[c - 1].start + Len(args[c - 1].vals)
    BY <2>1 DEF EndToEnd
  <2> QED
    BY <2>1, <2>2
<1>3. 0 \in S
  <2>1. ASSUME a + 1 + 0 <= N
        PROVE  args[a].start + Len(args[a].vals) <= args[a + 1 + 0].start
    <3>1. a + 1 \in 1 .. N /\ a + 1 + 0 = a + 1
      BY <2>1
    <3>2. args[a + 1].start = args[a].start + Len(args[a].vals)
      BY <1>2, <3>1
    <3>3. args[a + 1].start \in Nat
      BY <1>1, <3>1
    <3> QED
      BY <3>1, <3>2, <3>3
  <2> QED
    BY <2>1
<1>4. ASSUME NEW k \in Nat, k \in S PROVE k + 1 \in S
  <2>1. ASSUME a + 1 + (k + 1) <= N
        PROVE  args[a].start + Len(args[a].vals) <= args[a + 1 + (k + 1)].start
    <3>1. PICK b \in 1 .. N : b = a + 1 + k /\ b + 1 = a + 1 + (k + 1) /\ b + 1 \in 1 .. N
      BY <2>1
    <3>2. args[a].start + Len(args[a].vals) <= args[b].start
      <4>1. a + 1 + k <= N
        BY <3>1
      <4>2. args[a].start + Len(args[a].vals) <= args[a + 1 + k].start
        BY <1>4, <4>1
      <4> QED
        BY <3>1, <4>2
    <3>3. args[b + 1].start = args[b].start + Len(args[b].vals)
      BY <1>2, <3>1
    <3>4. args[b].start \in Nat /\ Len(args[b].vals) \in Nat /\ args[a].start \in Nat
          /\ Len(args[a].vals) \in Nat
      BY <1>1
    <3>5. args[a].start + Len(args[a].vals) <= args[b + 1].start
      <4>1. PICK r \in Nat : r = args[a].start + Len(args[a].vals)
        BY <3>4
      <4>2. PICK s \in Nat : s = args[b].start
        BY <3>4
      <4>3. PICK n \in Nat : n = Len(args[b].vals)
        BY <3>4
      <4>4. r <= s /\ args[b + 1].start = s + n
        BY <3>2, <3>3, <4>1, <4>2, <4>3
      <4> QED
        BY <4>1, <4>4
    <3> QED
      BY <3>1, <3>5
  <2> QED
    BY <2>1
<1>5. Nat \subseteq S
  <2> HIDE DEF S
  <2> QED
    BY <1>3, <1>4, SetInduction
<1> QED
  <2> SUFFICES ASSUME NEW b \in 1 .. N, a < b
               PROVE  args[a].start + Len(args[a].vals) <= args[b].start
    OBVIOUS
  <2>1. PICK k \in Nat : k = b - a - 1
    OBVIOUS
  <2>2. a + 1 + k = b /\ a + 1 + k <= N
    BY <2>1
  <2>3. k \in S
    BY <1>5
  <2>4. args[a].start + Len(args[a].vals) <= args[a + 1 + k].start
    BY <2>2, <2>3
  <2> QED
    BY <2>2, <2>4

(* The places of the arguments: an argument and the number of a value.     *)
Spots(args, N) == {p \in Nat \X Nat : p[1] \in 1 .. N /\ p[2] < Len(args[p[1]].vals)}
Place(args, p) == args[p[1]].start + p[2]

LEMMA PlacesAre ==
  ASSUME NEW args, NEW N \in Nat, EndToEnd(args, N)
  PROVE  /\ Together(args, N) \in Nat
         /\ \A p \in Spots(args, N) : Place(args, p) \in 0 .. Together(args, N) - 1
         /\ \A p, q \in Spots(args, N) : Place(args, p) = Place(args, q) => p = q
         /\ \A i \in 0 .. Together(args, N) - 1 : \E p \in Spots(args, N) : Place(args, p) = i
<1>1. \A b \in 1 .. N : args[b].start \in Nat /\ Len(args[b].vals) \in Nat
  BY DEF EndToEnd
<1>2. Together(args, N) \in Nat
  <2>1. CASE N = 0
    BY <2>1 DEF Together
  <2>2. CASE N # 0
    <3>1. N \in 1 .. N
      BY <2>2
    <3>2. args[N].start \in Nat /\ Len(args[N].vals) \in Nat
      BY <1>1, <3>1
    <3> QED
      BY <2>2, <3>2 DEF Together
  <2> QED
    BY <2>1, <2>2
<1>3. PICK T \in Nat : T = Together(args, N)
  BY <1>2
<1>4. ASSUME NEW p \in Spots(args, N)
      PROVE  /\ p = <<p[1], p[2]>> /\ p[1] \in 1 .. N /\ p[2] \in Nat
             /\ p[2] < Len(args[p[1]].vals) /\ args[p[1]].start \in Nat
             /\ Len(args[p[1]].vals) \in Nat
             /\ Place(args, p) = args[p[1]].start + p[2]
             /\ Place(args, p) \in Nat
  <2>1. p \in Nat \X Nat /\ p[1] \in 1 .. N /\ p[2] < Len(args[p[1]].vals)
    BY DEF Spots
  <2>2. args[p[1]].start \in Nat /\ Len(args[p[1]].vals) \in Nat
    BY <1>1, <2>1
  <2>3. Place(args, p) = args[p[1]].start + p[2]
    BY DEF Place
  <2> QED
    BY <2>1, <2>2, <2>3
<1>5. ASSUME NEW p \in Spots(args, N) PROVE Place(args, p) \in 0 .. T - 1
  <2>1. N # 0 /\ N \in 1 .. N
    BY <1>4
  <2>2. T = args[N].start + Len(args[N].vals)
    BY <1>3, <2>1 DEF Together
  <2>3. args[N].start \in Nat /\ Len(args[N].vals) \in Nat
    BY <1>1, <2>1
  <2>4. CASE p[1] = N
    BY <1>4, <2>2, <2>4
  <2>5. CASE p[1] # N
    <3>1. PICK a \in 1 .. N : a = p[1]
      BY <1>4
    <3>2. a < N
      BY <2>5, <3>1
    <3>3. args[a].start + Len(args[a].vals) <= args[N].start
      BY <2>1, <3>2, OneAfterAnother
    <3>4. /\ Place(args, p) = args[a].start + p[2] /\ p[2] < Len(args[a].vals) /\ p[2] \in Nat
          /\ args[a].start \in Nat /\ Len(args[a].vals) \in Nat
      BY <1>4, <3>1
    <3>5. PICK s \in Nat : s = args[a].start
      BY <3>4
    <3>6. PICK n \in Nat : n = Len(args[a].vals)
      BY <3>4
    <3>7. PICK r \in Nat : r = args[N].start
      BY <2>3
    <3>8. PICK l \in Nat : l = Len(args[N].vals)
      BY <2>3
    <3>9. PICK v \in Nat : v = p[2]
      BY <3>4
    <3>10. Place(args, p) = s + v /\ v < n /\ s + n <= r /\ T = r + l
      BY <2>2, <3>3, <3>4, <3>5, <3>6, <3>7, <3>8, <3>9
    <3>11. s + v \in 0 .. (r + l) - 1
      BY <3>10
    <3> QED
      BY <3>10, <3>11
  <2> QED
    BY <2>4, <2>5
<1>6. ASSUME NEW p \in Spots(args, N), NEW q \in Spots(args, N), p[1] < q[1]
      PROVE  Place(args, p) < Place(args, q)
  <2>1. PICK a \in 1 .. N : a = p[1]
    BY <1>4
  <2>2. PICK b \in 1 .. N : b = q[1]
    BY <1>4
  <2>3. args[a].start + Len(args[a].vals) <= args[b].start
    BY <1>6, <2>1, <2>2, OneAfterAnother
  <2>4. /\ Place(args, p) = args[a].start + p[2] /\ p[2] < Len(args[a].vals) /\ p[2] \in Nat
        /\ args[a].start \in Nat /\ Len(args[a].vals) \in Nat
    BY <1>4, <2>1
  <2>5. /\ Place(args, q) = args[b].start + q[2] /\ q[2] \in Nat
        /\ args[b].start \in Nat /\ Len(args[b].vals) \in Nat
    BY <1>4, <2>2
  <2>6. PICK s \in Nat : s = args[a].start
    BY <2>4
  <2>7. PICK n \in Nat : n = Len(args[a].vals)
    BY <2>4
  <2>8. PICK r \in Nat : r = args[b].start
    BY <2>5
  <2>9. PICK v \in Nat : v = p[2]
    BY <2>4
  <2>10. PICK w \in Nat : w = q[2]
    BY <2>5
  <2>11. s + v < r + w
    <3>1. s + n <= r /\ v < n
      BY <2>3, <2>4, <2>6, <2>7, <2>8, <2>9
    <3> QED
      BY <3>1
  <2> QED
    BY <2>4, <2>5, <2>6, <2>8, <2>9, <2>10, <2>11
<1>7. ASSUME NEW p \in Spots(args, N), NEW q \in Spots(args, N), Place(args, p) = Place(args, q)
      PROVE  p = q
  <2>1. ~(p[1] < q[1]) /\ ~(q[1] < p[1])
    <3>1. p[1] < q[1] => Place(args, p) < Place(args, q)
      BY <1>6
    <3>2. q[1] < p[1] => Place(args, q) < Place(args, p)
      BY <1>6
    <3>3. Place(args, p) \in Nat
      BY <1>4
    <3> QED
      BY <1>7, <3>1, <3>2, <3>3
  <2>2. p[1] = q[1]
    <3>1. p[1] \in Nat /\ q[1] \in Nat
      BY <1>4
    <3> QED
      BY <2>1, <3>1
  <2>3. PICK s \in Nat : s = args[p[1]].start
    BY <1>4
  <2>4. Place(args, p) = s + p[2] /\ Place(args, q) = s + q[2] /\ p[2] \in Nat /\ q[2] \in Nat
    BY <1>4, <2>2, <2>3
  <2>5. p[2] = q[2]
    <3>1. PICK v \in Nat : v = p[2]
      BY <2>4
    <3>2. PICK w \in Nat : w = q[2]
      BY <2>4
    <3>3. s + v = s + w
      BY <1>7, <2>4, <3>1, <3>2
    <3>4. v = w
      BY <3>3
    <3> QED
      BY <3>1, <3>2, <3>4
  <2> QED
    BY <1>4, <2>2, <2>5
<1>8. ASSUME NEW i \in 0 .. T - 1 PROVE \E p \in Spots(args, N) : Place(args, p) = i
  <2>1. PICK past : past = {a \in 1 .. N : i < args[a].start + Len(args[a].vals)}
    OBVIOUS
  <2>2. N # 0 /\ N \in 1 .. N
    BY <1>3 DEF Together
  <2>3. T = args[N].start + Len(args[N].vals)
    BY <1>3, <2>2 DEF Together
  <2>4. N \in past
    BY <2>1, <2>2, <2>3
  <2>5. past \subseteq Nat /\ past # {}
    BY <2>1, <2>4
  <2>6. PICK a \in past : \A k \in past : a <= k
    BY <2>5, LeastExists
  <2>7. a \in 1 .. N /\ i < args[a].start + Len(args[a].vals)
    BY <2>1, <2>6
  <2>8. args[a].start \in Nat /\ Len(args[a].vals) \in Nat /\ i \in Nat
    BY <1>1, <2>7
  <2>9. args[a].start <= i
    <3>1. CASE a = 1
      <4>1. args[a].start = 0
        BY <2>7, <3>1 DEF EndToEnd
      <4> QED
        BY <2>8, <4>1
    <3>2. CASE a # 1
      <4>1. PICK b \in 1 .. N : b = a - 1 /\ b < a
        BY <2>7, <3>2
      <4>2. args[a].start = args[b].start + Len(args[b].vals)
        <5>1. args[a].start = args[a - 1].start + Len(args[a - 1].vals)
          BY <2>7, <3>2 DEF EndToEnd
        <5> QED
          BY <4>1, <5>1
      <4>3. b \notin past
        <5>1. ~(a <= b)
          BY <2>7, <4>1
        <5> QED
          BY <2>6, <5>1
      <4>4. ~(i < args[b].start + Len(args[b].vals))
        BY <2>1, <4>3
      <4>5. args[b].start \in Nat /\ Len(args[b].vals) \in Nat
        BY <1>1
      <4> QED
        BY <2>8, <4>2, <4>4, <4>5
    <3> QED
      BY <3>1, <3>2
  <2>10. PICK v \in Nat : v = i - args[a].start
    BY <2>8, <2>9
  <2>11. v < Len(args[a].vals) /\ args[a].start + v = i
    BY <2>7, <2>8, <2>10
  <2>12. PICK p : p = <<a, v>>
    OBVIOUS
  <2>13. p[1] = a /\ p[2] = v /\ p \in Nat \X Nat
    BY <2>7, <2>12
  <2>14. p \in Spots(args, N)
    BY <2>7, <2>11, <2>13 DEF Spots
  <2>15. Place(args, p) = i
    BY <2>11, <2>13 DEF Place
  <2> QED
    BY <2>14, <2>15
<1> QED
  BY <1>2, <1>3, <1>5, <1>7, <1>8

PlacesOf(args, X, spot) == {Place(args, spot[x]) : x \in X}

(* Things that are, one each, in the places of the arguments.              *)
LEMMA PlacesCounted ==
  ASSUME NEW args, NEW N \in Nat, EndToEnd(args, N), NEW X, NEW spot,
         \A x \in X : spot[x] \in Spots(args, N), \A x, y \in X : spot[x] = spot[y] => x = y,
         \A p \in Spots(args, N) : \E x \in X : spot[x] = p
  PROVE  /\ Cardinality(X) = Together(args, N)
         /\ PlacesOf(args, X, spot) = 0 .. Together(args, N) - 1
<1>1. PICK T \in Nat : T = Together(args, N)
  BY PlacesAre
<1>2. PICK P : P = Spots(args, N)
  OBVIOUS
<1>3. PICK at : at = [p \in P |-> Place(args, p)]
  OBVIOUS
<1>4. /\ \A p \in P : at[p] \in 0 .. T - 1
      /\ \A p, q \in P : at[p] = at[q] => p = q
      /\ \A i \in 0 .. T - 1 : \E p \in P : at[p] = i
  BY <1>1, <1>2, <1>3, PlacesAre
<1>5. PICK idx : idx = [x \in X |-> at[spot[x]]]
  OBVIOUS
<1>6. /\ \A x \in X : idx[x] \in 0 .. T - 1
      /\ \A x, y \in X : idx[x] = idx[y] => x = y
      /\ \A i \in 0 .. T - 1 : \E x \in X : idx[x] = i
  <2>1. \A x \in X : spot[x] \in P /\ idx[x] = at[spot[x]]
    BY <1>2, <1>5
  <2>2. ASSUME NEW i \in 0 .. T - 1 PROVE \E x \in X : idx[x] = i
    <3>1. PICK p \in P : at[p] = i
      BY <1>4
    <3>2. PICK x \in X : spot[x] = p
      BY <1>2, <3>1
    <3> QED
      BY <2>1, <3>1, <3>2
  <2> QED
    BY <1>4, <2>1, <2>2
<1>7. Cardinality(X) = T
  BY <1>6, Numbered
<1>8. \A x \in X : Place(args, spot[x]) = idx[x]
  BY <1>2, <1>3, <1>5
<1>9. {Place(args, spot[x]) : x \in X} = 0 .. T - 1
  BY <1>6, <1>8
<1> QED
  BY <1>1, <1>7, <1>9 DEF PlacesOf

(* What a whole generation writes: the lines of the visits, all of them. *)
Shows(s, f, bodies) ==
  /\ \A a \in 1 .. Len(tree[f]) :
       /\ Meets(tree[f][a], WriteFields(lang[s], tree[f][a]))
       /\ WriteFields(lang[s], tree[f][a]).res = "ok"
  /\ \A y : y \in Fields(bodies, f, "write") <=>
       \E a \in 1 .. Len(tree[f]) :
         \E line \in ToSet(WriteFields(lang[s], tree[f][a]).lines) : y = <<a, line>>
Makes(s, f, bodies) ==
  /\ \A a \in Owned(s, funcs[f]) :
       /\ Meets(tree[f][a], InitValue(lang[s], tree[f][a]))
       /\ InitValue(lang[s], tree[f][a]).res = "ok"
  /\ \A y : y \in Fields(bodies, f, "init") <=>
       \E a \in Owned(s, funcs[f]) :
         \E line \in ToSet(InitValue(lang[s], tree[f][a]).lines) : y = <<a, line>>

LEMMA WriteVarShows ==
  ASSUME NEW job, job.sel = <<>>, job.writer = "harness", NEW f, NEW a
  PROVE  LET v == WriteFields(job.lang, job.tree[f][a])
         IN  WriteVar(job, f, a) = [fields |-> ToSet(v.lines), next |-> v.next, res |-> v.res]
<1>1. PICK arg : arg = job.tree[f][a]
  OBVIOUS
<1>2. PICK v : v = WriteFields(job.lang, arg)
  OBVIOUS
<1>3. PICK shown : shown = {line \in ToSet(v.lines) : IsShown(job, f, a, line)}
  OBVIOUS
<1>4. shown = ToSet(v.lines)
  BY <1>3 DEF IsShown, ShouldWriteVal
<1>5. ShouldWriteArg(job, f, a) /\ job.writer # "noop" /\ job.writer # "assert"
  BY DEF ShouldWriteArg
<1>6. AssertResult(job, shown, arg.vals) = "ok"
  BY <1>5 DEF AssertResult
<1>7. WriteVar(job, f, a) =
        [fields |-> shown, next |-> v.next,
         res |-> IF v.res = "ok" THEN AssertResult(job, shown, arg.vals) ELSE v.res]
  BY <1>1, <1>2, <1>3, <1>5 DEF WriteVar
<1>8. (IF v.res = "ok" THEN AssertResult(job, shown, arg.vals) ELSE v.res) = v.res
  BY <1>6
<1> QED
  BY <1>1, <1>2, <1>4, <1>7, <1>8

LEMMA TreeIs ==
  ASSUME GivenOK, MadeOK, Built, NEW f \in DOMAIN funcs
  PROVE  /\ Len(tree[f]) = Count(funcs[f]) /\ Len(tree[f]) \in Nat
         /\ DOMAIN tree[f] = 1 .. Len(tree[f])
         /\ \A a \in 1 .. Len(tree[f]) :
              /\ MadeArg(draw, tree[f][a]) /\ tree[f][a] \in ArgValues
              /\ Len(tree[f][a].vals) \in Nat
         /\ EndToEnd(tree[f], Len(tree[f]))
         /\ \A s \in Sides : Owned(s, funcs[f]) \subseteq 1 .. Len(tree[f])
<1>1. PICK S : S = ArgValues
  OBVIOUS
<1>2. PICK V : V = Value
  OBVIOUS
<1>3. PICK filled \in Seq(S) : filled = tree[f]
  BY <1>1 DEF MadeOK, TreeGood
<1>4. Filled(draw, ArgsOf(funcs[f]), filled)
  BY <1>3 DEF MadeOK, TreeGood
<1>5. PICK N \in Nat : N = Len(filled) /\ DOMAIN filled = 1 .. N
  BY LenProperties
<1>6. funcs[f] \in FuncSet /\ Len(ArgsOf(funcs[f])) = Count(funcs[f])
  BY FuncFacts DEF GivenOK
<1>7. Count(funcs[f]) \in Nat /\ \A s \in Sides : Owned(s, funcs[f]) \subseteq 1 .. Count(funcs[f])
  BY <1>6, OwnedIs
<1>8. N = Count(funcs[f])
  <2>1. ~(Len(tree[f]) < Len(ArgsOf(funcs[f])))
    BY DEF Built, Unvalued, Args, ArgsOf
  <2>2. Len(filled) <= Len(ArgsOf(funcs[f]))
    BY <1>4 DEF Filled
  <2> QED
    BY <1>3, <1>5, <1>6, <1>7, <2>1, <2>2
<1>9. \A a \in 1 .. N :
        /\ MadeArg(draw, filled[a])
        /\ filled[a].start = IF a = 1 THEN 0 ELSE filled[a - 1].start + Len(filled[a - 1].vals)
  BY <1>4, <1>5 DEF Filled
<1>10. ASSUME NEW a \in 1 .. N
       PROVE  filled[a] \in ArgValues /\ filled[a].start \in Nat /\ Len(filled[a].vals) \in Nat
  <2>1. PICK arg \in S : arg = filled[a]
    BY <1>5
  <2>2. arg.vals \in Seq(V) /\ arg.start \in Nat
    BY <1>1, <1>2 DEF ArgValues
  <2> QED
    BY <1>1, <2>1, <2>2, LenProperties
<1>11. EndToEnd(filled, N)
  BY <1>9, <1>10 DEF EndToEnd
<1> QED
  BY <1>3, <1>5, <1>7, <1>8, <1>9, <1>10, <1>11

LEMMA AllShown ==
  ASSUME Inv, sel = <<>>, NEW s \in Sides, status[s] = "done", NEW f \in DOMAIN funcs, f \in Active
  PROVE  Built /\ Shows(s, f, prog[s]) /\ Makes(s, f, prog[s])
<1>1. PICK job : job = JobOf(s, lang, funcs, tree, sel, writer)
  OBVIOUS
<1>2. /\ job.side = s /\ job.lang = lang[s] /\ job.funcs = funcs /\ job.tree = tree
      /\ job.sel = <<>> /\ job.writer = "harness"
  BY <1>1 DEF JobOf, Inv, SourcesOK
<1>3. Built
  BY DEF Inv, NothingYet
<1>4. GivenOK /\ MadeOK /\ draw \in Draws /\ lang[s] \in Languages
  BY DEF Inv, GivenOK
<1>5. PICK N \in Nat : N = Len(tree[f])
  BY <1>3, <1>4, TreeIs
<1>6. /\ N = Count(job.funcs[f])
      /\ \A a \in 1 .. N : MadeArg(draw, tree[f][a])
      /\ Owned(s, funcs[f]) \subseteq 1 .. N
  BY <1>2, <1>3, <1>4, <1>5, TreeIs
<1>7. JobOK(draw, job, f)
  BY <1>1, <1>3, <1>4, JobGood
<1>8. BodiesOK(job, Active, prog[s], "done")
  BY <1>1, Whose DEF Desired
<1>9. Whole(job, f, Code(prog[s], f))
  <2>1. job.side \in Sides /\ job.funcs[f] \in FuncSet
    BY <1>7 DEF JobOK
  <2> QED
    BY <1>8, <2>1, DoneIsWhole
<1>10. PICK bodies : bodies = prog[s]
  OBVIOUS
<1>11. /\ \A a \in 1 .. N : WriteVar(job, f, a).res = "ok"
       /\ \A a \in Owned(s, funcs[f]) : InitVar(job, f, a).res = "ok"
       /\ \A y : y \in Fields(bodies, f, "write") <=>
            \E a \in 1 .. N : \E line \in WriteVar(job, f, a).fields : y = <<a, line>>
       /\ \A y : y \in Fields(bodies, f, "init") <=>
            \E a \in Owned(s, funcs[f]) : \E line \in InitVar(job, f, a).fields : y = <<a, line>>
  BY <1>2, <1>6, <1>9, <1>10, WholeFields
<1>12. ASSUME NEW a \in 1 .. N
       PROVE  /\ Meets(tree[f][a], WriteFields(lang[s], tree[f][a]))
              /\ WriteVar(job, f, a).res = WriteFields(lang[s], tree[f][a]).res
              /\ WriteVar(job, f, a).fields = ToSet(WriteFields(lang[s], tree[f][a]).lines)
              /\ Meets(tree[f][a], InitValue(lang[s], tree[f][a]))
              /\ InitVar(job, f, a).res = InitValue(lang[s], tree[f][a]).res
              /\ InitVar(job, f, a).fields = ToSet(InitValue(lang[s], tree[f][a]).lines)
  <2>1. PICK arg : arg = tree[f][a]
    OBVIOUS
  <2>2. PICK l \in Languages : l = lang[s]
    BY <1>4
  <2>3. MadeArg(draw, arg)
    BY <1>6, <2>1
  <2>4. Meets(arg, WriteFields(l, arg)) /\ Meets(arg, InitValue(l, arg))
    BY <1>4, <2>3, WriteMeets, InitMeets
  <2>5. PICK v : v = WriteFields(l, arg)
    OBVIOUS
  <2>6. PICK w : w = InitValue(l, arg)
    OBVIOUS
  <2>7. WriteVar(job, f, a) = [fields |-> ToSet(v.lines), next |-> v.next, res |-> v.res]
    BY <1>2, <2>1, <2>2, <2>5, WriteVarShows
  <2>8. InitVar(job, f, a) = [fields |-> ToSet(w.lines), next |-> w.next, res |-> w.res]
    BY <1>2, <2>1, <2>2, <2>6 DEF InitVar
  <2> QED
    BY <2>1, <2>2, <2>4, <2>5, <2>6, <2>7, <2>8
<1>13. Shows(s, f, bodies)
  BY <1>5, <1>11, <1>12 DEF Shows
<1>14. Makes(s, f, bodies)
  BY <1>6, <1>11, <1>12 DEF Makes
<1> QED
  BY <1>3, <1>10, <1>13, <1>14

(* The lines of a visit that is through, and the values they are for.      *)
LEMMA LinesAre ==
  ASSUME NEW arg \in ArgValues, NEW v, Meets(arg, v), v.res = "ok"
  PROVE  /\ \A line \in ToSet(v.lines) :
              /\ line \in Line /\ line.val \in 0 .. Len(arg.vals) - 1
              /\ Kind(line.ty) \in Taking /\ line.inside \subseteq 0 .. line.val - 1
              /\ ~Punned(arg.ty) => /\ line.path = arg.vals[line.val + 1].path
                                    /\ line.ty = arg.vals[line.val + 1].ty
         /\ \A i \in 0 .. Len(arg.vals) - 1 : \E line \in ToSet(v.lines) : line.val = i
         /\ \A x, y \in ToSet(v.lines) : x.val = y.val => x = y
<1>1. PICK lines : lines = v.lines
  OBVIOUS
<1>2. PICK S : S = Line
  OBVIOUS
<1>3. /\ lines \in Seq(S) /\ Len(lines) = Len(arg.vals)
      /\ \A i \in 1 .. Len(lines) : /\ lines[i].val = 0 + i - 1
                                    /\ Kind(lines[i].ty) \in Taking
                                    /\ lines[i].inside \subseteq 0 .. 0 + i - 2
  BY <1>1, <1>2 DEF Meets, Lined
<1>4. PICK n \in Nat : n = Len(lines) /\ DOMAIN lines = 1 .. n
  BY <1>3, LenProperties
<1>5. \A i \in 1 .. n : lines[i] \in Line
  BY <1>2, <1>3, <1>4
<1>6. ~Punned(arg.ty) => \A i \in 1 .. n : /\ lines[i].path = arg.vals[i].path
                                          /\ lines[i].ty = arg.vals[i].ty
  BY <1>1, <1>4 DEF Meets, SamePlaces
<1>7. ASSUME NEW i \in 1 .. n
      PROVE  /\ lines[i].val = i - 1 /\ lines[i].val + 1 = i /\ lines[i].val \in 0 .. n - 1
             /\ lines[i].inside \subseteq 0 .. lines[i].val - 1
  <2>1. lines[i].val = 0 + i - 1 /\ lines[i].inside \subseteq 0 .. 0 + i - 2
    BY <1>3, <1>4
  <2>2. 0 + i - 1 = i - 1 /\ 0 + i - 2 = (i - 1) - 1 /\ (i - 1) + 1 = i /\ i - 1 \in 0 .. n - 1
    OBVIOUS
  <2> QED
    BY <2>1, <2>2
<1>8. \A line : line \in ToSet(lines) <=> \E i \in 1 .. n : line = lines[i]
  BY <1>4 DEF ToSet
<1>9. ASSUME NEW line \in ToSet(lines)
      PROVE  /\ line \in Line /\ line.val \in 0 .. n - 1
             /\ Kind(line.ty) \in Taking /\ line.inside \subseteq 0 .. line.val - 1
             /\ ~Punned(arg.ty) => /\ line.path = arg.vals[line.val + 1].path
                                   /\ line.ty = arg.vals[line.val + 1].ty
  <2>1. PICK i \in 1 .. n : line = lines[i]
    BY <1>8
  <2>2. Kind(lines[i].ty) \in Taking
    BY <1>3, <1>4
  <2> QED
    BY <1>5, <1>6, <1>7, <2>1, <2>2
<1>10. ASSUME NEW i \in 0 .. n - 1 PROVE \E line \in ToSet(lines) : line.val = i
  <2>1. PICK j \in 1 .. n : j - 1 = i
    <3>1. i + 1 \in 1 .. n /\ (i + 1) - 1 = i
      OBVIOUS
    <3> QED
      BY <3>1
  <2>2. lines[j].val = i /\ lines[j] \in ToSet(lines)
    BY <1>7, <1>8, <2>1
  <2> QED
    BY <2>2
<1>11. ASSUME NEW x \in ToSet(lines), NEW y \in ToSet(lines), x.val = y.val PROVE x = y
  <2>1. PICK i \in 1 .. n : x = lines[i]
    BY <1>8
  <2>2. PICK j \in 1 .. n : y = lines[j]
    BY <1>8
  <2>3. i = j
    <3>1. x.val = i - 1 /\ y.val = j - 1
      BY <1>7, <2>1, <2>2
    <3>2. i - 1 = j - 1
      BY <1>11, <3>1
    <3> QED
      BY <3>2
  <2> QED
    BY <2>1, <2>2, <2>3
<1> QED
  BY <1>1, <1>3, <1>4, <1>9, <1>10, <1>11

LEMMA ValuesCounted ==
  ASSUME GivenOK, MadeOK, Built, NEW f \in DOMAIN funcs
  PROVE  Cardinality(ValsOf(f)) = Together(tree[f], Len(tree[f]))
<1>1. PICK args : args = tree[f]
  OBVIOUS
<1>2. PICK N \in Nat : N = Len(args)
  BY <1>1, TreeIs
<1>3. EndToEnd(args, N)
  BY <1>1, <1>2, TreeIs
<1>4. PICK X : X = ValsOf(f)
  OBVIOUS
<1>5. \A x : x \in X <=> /\ x = <<f, x[2], x[3]>> /\ x[2] \in 1 .. N
                         /\ x[3] \in 0 .. Len(args[x[2]].vals) - 1
  <2>1. ASSUME NEW x, x \in X
        PROVE  /\ x = <<f, x[2], x[3]>> /\ x[2] \in 1 .. N
               /\ x[3] \in 0 .. Len(args[x[2]].vals) - 1
    <3>1. x \in AllVals /\ x[1] = f
      BY <1>4, <2>1, ValsAre
    <3>2. /\ x = <<x[1], x[2], x[3]>> /\ x[2] \in 1 .. Len(tree[x[1]])
          /\ x[3] \in 0 .. Len(tree[x[1]][x[2]].vals) - 1
      BY <3>1, ValsAre
    <3> QED
      BY <1>1, <1>2, <3>1, <3>2
  <2>2. ASSUME NEW x, x = <<f, x[2], x[3]>>, x[2] \in 1 .. N,
               x[3] \in 0 .. Len(args[x[2]].vals) - 1
        PROVE  x \in X
    <3>1. x[1] = f
      BY <2>2
    <3>2. x \in AllVals
      BY <1>1, <1>2, <2>2, <3>1, ValsAre
    <3> QED
      BY <1>4, <3>1, <3>2, ValsAre
  <2> QED
    BY <2>1, <2>2
<1>6. PICK spot : spot = [x \in X |-> <<x[2], x[3]>>]
  OBVIOUS
<1>7. \A a \in 1 .. N : Len(args[a].vals) \in Nat
  BY <1>3 DEF EndToEnd
<1>8. ASSUME NEW x \in X PROVE spot[x] \in Spots(args, N)
  <2>1. x[2] \in 1 .. N /\ x[3] \in 0 .. Len(args[x[2]].vals) - 1
    BY <1>5
  <2>2. x[3] \in Nat /\ x[3] < Len(args[x[2]].vals)
    BY <1>7, <2>1
  <2>3. PICK p : p = <<x[2], x[3]>>
    OBVIOUS
  <2>4. p \in Nat \X Nat /\ p[1] = x[2] /\ p[2] = x[3]
    BY <2>1, <2>2, <2>3
  <2>5. p \in Spots(args, N)
    BY <2>1, <2>2, <2>4 DEF Spots
  <2> QED
    BY <1>6, <2>3, <2>5
<1>9. ASSUME NEW x \in X, NEW y \in X, spot[x] = spot[y] PROVE x = y
  <2>1. x[2] = y[2] /\ x[3] = y[3]
    <3>1. <<x[2], x[3]>> = <<y[2], y[3]>>
      BY <1>6, <1>9
    <3> QED
      BY <3>1
  <2> QED
    BY <1>5, <2>1
<1>10. ASSUME NEW p \in Spots(args, N) PROVE \E x \in X : spot[x] = p
  <2>1. p = <<p[1], p[2]>> /\ p[1] \in 1 .. N /\ p[2] \in Nat /\ p[2] < Len(args[p[1]].vals)
    BY DEF Spots
  <2>2. p[2] \in 0 .. Len(args[p[1]].vals) - 1
    BY <1>7, <2>1
  <2>3. PICK x : x = <<f, p[1], p[2]>>
    OBVIOUS
  <2>4. x[2] = p[1] /\ x[3] = p[2] /\ x = <<f, x[2], x[3]>>
    BY <2>3
  <2>5. x \in X
    BY <1>5, <2>1, <2>2, <2>4
  <2> QED
    BY <1>6, <2>1, <2>4, <2>5
<1>11. Cardinality(X) = Together(args, N)
  BY <1>3, <1>8, <1>9, <1>10, PlacesCounted
<1> QED
  BY <1>1, <1>2, <1>4, <1>11

LEMMA FieldsCounted ==
  ASSUME GivenOK, MadeOK, Built, NEW s \in Sides, NEW f \in DOMAIN funcs,
         NEW bodies, Shows(s, f, bodies), NEW X, X = Fields(bodies, f, "write")
  PROVE  /\ Cardinality(X) = Together(tree[f], Len(tree[f]))
         /\ {Index(f, x) : x \in X} = 0 .. Together(tree[f], Len(tree[f])) - 1
         /\ \A x \in X : \/ Punned(tree[f][x[1]].ty)
                         \/ x[2].path = Val(f, x[1], x[2].val).path
<1>1. PICK args : args = tree[f]
  OBVIOUS
<1>2. PICK N \in Nat : N = Len(args)
  BY <1>1, TreeIs
<1>3. EndToEnd(args, N) /\ \A a \in 1 .. N : args[a] \in ArgValues /\ Len(args[a].vals) \in Nat
  BY <1>1, <1>2, TreeIs
<1>4. PICK ls : ls = [a \in 1 .. N |-> ToSet(WriteFields(lang[s], args[a]).lines)]
  OBVIOUS
<1>5. ASSUME NEW a \in 1 .. N
      PROVE  /\ \A line \in ls[a] :
                  /\ line.val \in 0 .. Len(args[a].vals) - 1
                  /\ ~Punned(args[a].ty) => line.path = args[a].vals[line.val + 1].path
             /\ \A i \in 0 .. Len(args[a].vals) - 1 : \E line \in ls[a] : line.val = i
             /\ \A x, y \in ls[a] : x.val = y.val => x = y
  <2>1. PICK arg \in ArgValues : arg = args[a]
    BY <1>3
  <2>2. PICK v : v = WriteFields(lang[s], arg)
    OBVIOUS
  <2>3. Meets(arg, v) /\ v.res = "ok"
    BY <1>1, <1>2, <2>1, <2>2 DEF Shows
  <2>4. ls[a] = ToSet(v.lines)
    BY <1>4, <2>1, <2>2
  <2> QED
    BY <2>1, <2>3, <2>4, LinesAre
<1>6. \A y : y \in X <=> \E a \in 1 .. N : \E line \in ls[a] : y = <<a, line>>
  BY <1>1, <1>2, <1>4 DEF Shows
<1>7. PICK spot : spot = [x \in X |-> <<x[1], x[2].val>>]
  OBVIOUS
<1>8. ASSUME NEW x \in X
      PROVE  /\ x = <<x[1], x[2]>> /\ x[1] \in 1 .. N /\ x[2] \in ls[x[1]]
             /\ spot[x] = <<x[1], x[2].val>> /\ spot[x] \in Spots(args, N)
             /\ spot[x][1] = x[1] /\ spot[x][2] = x[2].val
  <2>0. PICK a \in 1 .. N : \E line \in ls[a] : x = <<a, line>>
    BY <1>6
  <2>1. PICK line \in ls[a] : x = <<a, line>>
    BY <2>0
  <2>2. x[1] = a /\ x[2] = line /\ x = <<x[1], x[2]>>
    BY <2>1
  <2>3. line.val \in 0 .. Len(args[a].vals) - 1 /\ Len(args[a].vals) \in Nat
    BY <1>3, <1>5
  <2>4. line.val \in Nat /\ line.val < Len(args[a].vals)
    BY <2>3
  <2>5. PICK p : p = <<a, line.val>>
    OBVIOUS
  <2>6. p \in Nat \X Nat /\ p[1] = a /\ p[2] = line.val
    BY <2>4, <2>5
  <2>7. p \in Spots(args, N)
    BY <2>4, <2>6 DEF Spots
  <2>8. spot[x] = p
    BY <1>7, <2>2, <2>5
  <2> QED
    BY <2>2, <2>5, <2>6, <2>7, <2>8
<1>9. ASSUME NEW x \in X, NEW y \in X, spot[x] = spot[y] PROVE x = y
  <2>1. PICK a \in 1 .. N : a = x[1]
    BY <1>8
  <2>2. y[1] = a /\ x[2].val = y[2].val
    BY <1>8, <1>9, <2>1
  <2>3. x[2] \in ls[a] /\ y[2] \in ls[a]
    BY <1>8, <2>1, <2>2
  <2>4. x[2] = y[2]
    BY <1>5, <2>2, <2>3
  <2> QED
    BY <1>8, <2>1, <2>2, <2>4
<1>10. ASSUME NEW p \in Spots(args, N) PROVE \E x \in X : spot[x] = p
  <2>1. p = <<p[1], p[2]>> /\ p[1] \in 1 .. N /\ p[2] \in Nat /\ p[2] < Len(args[p[1]].vals)
    BY DEF Spots
  <2>2. PICK a \in 1 .. N : a = p[1]
    BY <2>1
  <2>3. p[2] \in 0 .. Len(args[a].vals) - 1
    BY <1>3, <2>1, <2>2
  <2>4. PICK line \in ls[a] : line.val = p[2]
    BY <1>5, <2>3
  <2>5. PICK x \in X : x = <<a, line>>
    BY <1>6
  <2>6. x[1] = a /\ x[2] = line
    BY <2>5
  <2>7. spot[x] = <<a, p[2]>>
    BY <1>8, <2>4, <2>6
  <2> QED
    BY <2>1, <2>2, <2>7
<1>11. /\ Cardinality(X) = Together(args, N)
       /\ PlacesOf(args, X, spot) = 0 .. Together(args, N) - 1
  <2>1. \A x \in X : spot[x] \in Spots(args, N)
    BY <1>8
  <2> QED
    BY <1>3, <1>9, <1>10, <2>1, PlacesCounted
<1>12. ASSUME NEW x \in X PROVE Index(f, x) = Place(args, spot[x])
  <2>1. spot[x][1] = x[1] /\ spot[x][2] = x[2].val
    BY <1>8
  <2> QED
    BY <1>1, <2>1 DEF Index, Place
<1>13. ASSUME NEW x \in X, ~Punned(tree[f][x[1]].ty)
       PROVE  x[2].path = Val(f, x[1], x[2].val).path
  <2>1. PICK a \in 1 .. N : a = x[1] /\ x[2] \in ls[a]
    BY <1>8
  <2>2. x[2].path = args[a].vals[x[2].val + 1].path
    BY <1>1, <1>5, <1>13, <2>1
  <2> QED
    BY <1>1, <2>1, <2>2 DEF Val
<1>14. {Index(f, x) : x \in X} = PlacesOf(args, X, spot)
  BY <1>12 DEF PlacesOf
<1> QED
  BY <1>1, <1>2, <1>11, <1>13, <1>14

(* On each side the fields that are reported and the values the harness    *)
(* has listed are in step: as many, under the indices from 0 on without a  *)
(* gap or a double, and, where no pun gives a type two shapes, each under  *)
(* the index of the value that a failure will name by its path.            *)
THEOREM IndicesAreFaithful == Spec => []IndicesFaithful
<1>1. Inv => IndicesFaithful
  <2> SUFFICES ASSUME Inv, sel = <<>>, \A s \in Sides : status[s] = "done",
                      NEW s \in Sides, NEW f \in DOMAIN funcs, f \in Active
               PROVE  LET fields == Fields(prog[s], f, "write")
                          count  == Cardinality(ValsOf(f))
                      IN  /\ {Index(f, x) : x \in fields} = 0 .. count - 1
                          /\ Cardinality(fields) = count
                          /\ \A x \in fields : \/ Punned(tree[f][x[1]].ty)
                                               \/ x[2].path = Val(f, x[1], x[2].val).path
    BY DEF IndicesFaithful, Active
  <2>1. Built /\ Shows(s, f, prog[s])
    BY AllShown
  <2>2. GivenOK /\ MadeOK
    BY DEF Inv
  <2>3. PICK X : X = Fields(prog[s], f, "write")
    OBVIOUS
  <2>4. /\ Cardinality(X) = Together(tree[f], Len(tree[f]))
        /\ {Index(f, x) : x \in X} = 0 .. Together(tree[f], Len(tree[f])) - 1
        /\ \A x \in X : \/ Punned(tree[f][x[1]].ty)
                        \/ x[2].path = Val(f, x[1], x[2].val).path
    BY <2>1, <2>2, <2>3, FieldsCounted
  <2>5. Cardinality(ValsOf(f)) = Together(tree[f], Len(tree[f]))
    BY <2>1, <2>2, ValuesCounted
  <2> QED
    BY <2>3, <2>4, <2>5
<1> QED
  BY <1>1, Invariance, PTL
-----------------------------------------------------------------------------
(* What the sides report when the binary runs *)

(* What is reported of a value that is found. *)
FoundBytes(t, val) ==
  IF Kind(t) = "primitive" THEN <<"bytes", Ty[t].width, val.num>>
  ELSE <<"tag", 4, Idx(val, Len(Cases(t)))>>
NoBytes == <<"other", 0, 0>>

LEMMA ContentIsKind ==
  ASSUME NEW t, NEW val
  PROVE  Content(t, val)[1] = Kind(t)
<1>1. CASE Kind(t) = "primitive"
  <2>1. Content(t, val) = <<"primitive", Ty[t].width, val.num>>
    BY <1>1 DEF Content
  <2> QED
    BY <1>1, <2>1
<1>2. CASE Kind(t) # "primitive"
  <2>1. Content(t, val) = <<Kind(t), Len(Cases(t)), Idx(val, Len(Cases(t)))>>
    BY <1>2 DEF Content
  <2> QED
    BY <2>1
<1> QED
  BY <1>1, <1>2

LEMMA SameContentSameBytes ==
  ASSUME NEW t, NEW u, NEW val, Content(t, val) = Content(u, val)
  PROVE  FoundBytes(t, val) = FoundBytes(u, val) /\ Kind(t) = Kind(u)
<1>1. Kind(t) = Kind(u)
  BY ContentIsKind
<1>2. CASE Kind(t) = "primitive"
  <2>1. /\ Content(t, val) = <<"primitive", Ty[t].width, val.num>>
        /\ Content(u, val) = <<"primitive", Ty[u].width, val.num>>
    BY <1>1, <1>2 DEF Content
  <2>2. Ty[t].width = Ty[u].width
    <3>1. PICK c : c = Content(t, val) /\ c = Content(u, val)
      OBVIOUS
    <3>2. PICK w : w = Ty[t].width
      OBVIOUS
    <3>3. PICK x : x = Ty[u].width
      OBVIOUS
    <3>4. PICK n : n = val.num
      OBVIOUS
    <3>5. c = <<"primitive", w, n>> /\ c = <<"primitive", x, n>>
      BY <2>1, <3>1, <3>2, <3>3, <3>4
    <3>6. c[2] = w /\ c[2] = x
      BY <3>5
    <3> QED
      BY <3>2, <3>3, <3>6
  <2> QED
    BY <1>1, <1>2, <2>2 DEF FoundBytes
<1>3. CASE Kind(t) # "primitive"
  <2>1. /\ Content(t, val) = <<Kind(t), Len(Cases(t)), Idx(val, Len(Cases(t)))>>
        /\ Content(u, val) = <<Kind(u), Len(Cases(u)), Idx(val, Len(Cases(u)))>>
    BY <1>1, <1>3 DEF Content
  <2>2. Idx(val, Len(Cases(t))) = Idx(val, Len(Cases(u)))
    <3>1. PICK c : c = Content(t, val) /\ c = Content(u, val)
      OBVIOUS
    <3>2. PICK w : w = Idx(val, Len(Cases(t)))
      OBVIOUS
    <3>3. PICK x : x = Idx(val, Len(Cases(u)))
      OBVIOUS
    <3>4. PICK k : k = Kind(t)
      OBVIOUS
    <3>5. PICK m : m = Len(Cases(t))
      OBVIOUS
    <3>6. PICK n : n = Len(Cases(u))
      OBVIOUS
    <3>7. c = <<k, m, w>> /\ c = <<k, n, x>>
      BY <1>1, <2>1, <3>1, <3>2, <3>3, <3>4, <3>5, <3>6
    <3>8. c[3] = w /\ c[3] = x
      BY <3>7
    <3> QED
      BY <3>2, <3>3, <3>8
  <2> QED
    BY <1>1, <1>3, <2>2 DEF FoundBytes
<1> QED
  BY <1>1, <1>2, <1>3

(* The lines of argument a on side s. *)
LinesOf(s, f, a) == ToSet(WriteFields(lang[s], tree[f][a]).lines)

(* The generators are done, with all of the program. *)
Ready == Inv /\ sel = <<>> /\ \A s \in Sides : status[s] = "done"

LEMMA ReadyIs ==
  ASSUME Ready, NEW f \in DOMAIN funcs, f \in Active
  PROVE  /\ \A s \in Sides, a \in 1 .. Len(tree[f]) :
              /\ \A line \in LinesOf(s, f, a) :
                   /\ line.val \in 0 .. Len(tree[f][a].vals) - 1
                   /\ line.inside \subseteq 0 .. line.val - 1
              /\ \A i \in 0 .. Len(tree[f][a].vals) - 1 : \E line \in LinesOf(s, f, a) : line.val = i
              /\ \A x, y \in LinesOf(s, f, a) : x.val = y.val => x = y
         /\ \A s \in Sides : \A y : y \in Fields(prog[s], f, "write") <=>
              \E a \in 1 .. Len(tree[f]) : \E line \in LinesOf(s, f, a) : y = <<a, line>>
         /\ \A s \in Sides : \A y : y \in Fields(prog[s], f, "init") =>
              \E a \in 1 .. Len(tree[f]) : \E line \in LinesOf(s, f, a) : y = <<a, line>>
<1>1. GivenOK /\ MadeOK /\ Inv /\ sel = <<>> /\ \A s \in Sides : status[s] = "done"
  BY DEF Ready, Inv
<1>2. Built /\ \A s \in Sides : Shows(s, f, prog[s]) /\ Makes(s, f, prog[s])
  <2>1. Built
    BY <1>1, AllShown DEF Sides
  <2> QED
    BY <1>1, <2>1, AllShown
<1>3. \A a \in 1 .. Len(tree[f]) : tree[f][a] \in ArgValues
  BY <1>1, <1>2, TreeIs
<1>4. ASSUME NEW s \in Sides, NEW a \in 1 .. Len(tree[f])
      PROVE  /\ \A line \in LinesOf(s, f, a) :
                  /\ line.val \in 0 .. Len(tree[f][a].vals) - 1
                  /\ line.inside \subseteq 0 .. line.val - 1
             /\ \A i \in 0 .. Len(tree[f][a].vals) - 1 :
                  \E line \in LinesOf(s, f, a) : line.val = i
             /\ \A x, y \in LinesOf(s, f, a) : x.val = y.val => x = y
  <2>1. PICK arg \in ArgValues : arg = tree[f][a]
    BY <1>3
  <2>2. PICK v : v = WriteFields(lang[s], arg)
    OBVIOUS
  <2>3. Meets(arg, v) /\ v.res = "ok"
    BY <1>2, <2>1, <2>2 DEF Shows
  <2>4. LinesOf(s, f, a) = ToSet(v.lines)
    BY <2>1, <2>2 DEF LinesOf
  <2> QED
    BY <2>1, <2>3, <2>4, LinesAre
<1>5. ASSUME NEW s \in Sides, NEW y
      PROVE  y \in Fields(prog[s], f, "write") <=>
               \E a \in 1 .. Len(tree[f]) : \E line \in LinesOf(s, f, a) : y = <<a, line>>
  BY <1>2 DEF Shows, LinesOf
<1>6. ASSUME NEW s \in Sides, NEW y, y \in Fields(prog[s], f, "init")
      PROVE  \E a \in 1 .. Len(tree[f]) : \E line \in LinesOf(s, f, a) : y = <<a, line>>
  <2>1. PICK a \in Owned(s, funcs[f]) :
          /\ InitValue(lang[s], tree[f][a]).res = "ok"
          /\ \E line \in ToSet(InitValue(lang[s], tree[f][a]).lines) : y = <<a, line>>
    BY <1>2, <1>6 DEF Makes
  <2>2. a \in 1 .. Len(tree[f])
    BY <1>1, <1>2, <2>1, TreeIs
  <2>3. PICK arg \in ArgValues : arg = tree[f][a]
    BY <1>3, <2>2
  <2>4. PICK l \in Languages : l = lang[s]
    BY <1>1 DEF GivenOK
  <2>5. arg.ty \in DOMAIN Ty /\ InitValue(l, arg).res = "ok" /\ WriteFields(l, arg).res = "ok"
    BY <1>2, <2>1, <2>2, <2>3, <2>4 DEF Shows, ArgValues
  <2>6. InitValue(l, arg) = WriteFields(l, arg)
    BY <2>5, InitIsWrite
  <2>7. \E line \in LinesOf(s, f, a) : y = <<a, line>>
    BY <2>1, <2>3, <2>4, <2>6 DEF LinesOf
  <2> QED
    BY <2>2, <2>7
<1> QED
  BY <1>4, <1>5, <1>6

LEMMA AlikeIs ==
  ASSUME Ready, NEW f \in DOMAIN funcs, f \in Active, Alike(f), NEW s \in Sides, NEW a \in 1 .. Len(tree[f]),
         NEW line \in LinesOf(s, f, a), NEW val, val = Val(f, a, line.val)
  PROVE  Content(line.ty, val) = Content(val.ty, val)
<1>1. GivenOK /\ MadeOK /\ Built
  BY AllShown DEF Ready, Inv, Sides
<1>2. a \in DOMAIN tree[f]
  BY <1>1, TreeIs
<1>3. PICK arg : arg = tree[f][a]
  OBVIOUS
<1>4. LinesAlike(lang[s], arg)
  BY <1>2, <1>3 DEF Alike
<1>5. val = arg.vals[line.val + 1]
  BY <1>3 DEF Val
<1>6. line \in ToSet(WriteFields(lang[s], arg).lines)
  BY <1>3 DEF LinesOf
<1> QED
  BY <1>4, <1>5, <1>6 DEF LinesAlike

(* Where the blocks of the puns have the leaves in common, a side finds    *)
(* what is its own and what is not lost.                                   *)
LEMMA FindsIs ==
  ASSUME Ready, NEW f \in DOMAIN funcs, f \in Active, Alike(f), NEW s \in Sides, NEW a \in 1 .. Len(tree[f]),
         NEW line \in LinesOf(s, f, a), NEW lost
  PROVE  Finds(s, f, a, line, lost) <=> (s = Owner(f, a) \/ <<f, a, line.val>> \notin lost)
<1>1. PICK val : val = Val(f, a, line.val)
  OBVIOUS
<1>2. PICK o \in Sides : o = Owner(f, a)
  BY DEF Owner, Sides
<1>3. ASSUME NEW made \in Fields(prog[o], f, "init"), made[1] = a, made[2].val = line.val
      PROVE  Content(made[2].ty, val) = Content(line.ty, val)
  <2>1. PICK b \in 1 .. Len(tree[f]) : \E other \in LinesOf(o, f, b) : made = <<b, other>>
    BY ReadyIs
  <2>2. PICK other \in LinesOf(o, f, b) : made = <<b, other>>
    BY <2>1
  <2>3. b = a /\ made[2] = other /\ other.val = line.val
    BY <1>3, <2>2
  <2>4. other \in LinesOf(o, f, a) /\ val = Val(f, a, other.val)
    BY <1>1, <2>3
  <2>5. Content(other.ty, val) = Content(val.ty, val)
    BY <2>4, AlikeIs
  <2>6. Content(line.ty, val) = Content(val.ty, val)
    BY <1>1, AlikeIs
  <2> QED
    BY <2>3, <2>5, <2>6
<1> QED
  BY <1>1, <1>2, <1>3 DEF Finds

(* What the sides report of a run where lost is not passed on, and what of *)
(* it is under an index.                                                   *)
Seen(s, lost) == UNION {Reports(s, f, lost) : f \in DOMAIN funcs}
Under3(seen, f, i) == {x[3] : x \in {y \in seen : y[1] = f /\ y[2] = i}}

BytesOf(s, f, a, line, lost) ==
  Bytes(line.ty, Val(f, a, line.val), Finds(s, f, a, line, lost))

Only(set, b) == set = {b}
ByIndex(s, f, a, v, lost) == Under3(Seen(s, lost), f, tree[f][a].start + v)

LEMMA SeenIs ==
  ASSUME Ready, NEW f \in DOMAIN funcs, f \in Active, NEW s \in Sides, NEW a \in 1 .. Len(tree[f]), NEW lost,
         NEW line \in LinesOf(s, f, a), Reached(s, f, a, line, lost),
         NEW b, b = BytesOf(s, f, a, line, lost), NEW v, v = line.val
  PROVE  Only(ByIndex(s, f, a, v, lost), b)
<1>1. PICK i : i = tree[f][a].start + line.val
  OBVIOUS
<1>2. PICK X : X = Fields(prog[s], f, "write")
  OBVIOUS
<1>3. \A y : y \in X <=> \E c \in 1 .. Len(tree[f]) : \E l \in LinesOf(s, f, c) : y = <<c, l>>
  BY <1>2, ReadyIs
<1>4. PICK x \in X : x = <<a, line>>
  BY <1>3
<1>5. x[1] = a /\ x[2] = line
  BY <1>4
<1>6. PICK r : r = <<f, i, b>>
  OBVIOUS
<1>7. r \in Seen(s, lost)
  <2>1. Index(f, x) = i
    BY <1>1, <1>5 DEF Index
  <2>2. r = <<f, Index(f, x), Bytes(x[2].ty, Val(f, x[1], x[2].val), Finds(s, f, x[1], x[2], lost))>>
    BY <1>5, <1>6, <2>1 DEF BytesOf
  <2>3. x \in {y \in Fields(prog[s], f, "write") : Reached(s, f, y[1], y[2], lost)}
    BY <1>2, <1>5
  <2>4. r \in Reports(s, f, lost)
    BY <2>2, <2>3 DEF Reports
  <2> QED
    BY <2>4 DEF Seen
<1>8. r[1] = f /\ r[2] = i /\ r[3] = b
  BY <1>6
<1>9. ASSUME NEW y \in Seen(s, lost), y[1] = f, y[2] = i PROVE y[3] = b
  <2>1. PICK g \in DOMAIN funcs : y \in Reports(s, g, lost)
    BY DEF Seen
  <2>2. PICK z \in Fields(prog[s], g, "write") :
          y = <<g, Index(g, z), Bytes(z[2].ty, Val(g, z[1], z[2].val), Finds(s, g, z[1], z[2], lost))>>
    BY <2>1 DEF Reports
  <2>3. g = f /\ Index(g, z) = i
    BY <1>9, <2>2
  <2>4. z \in X
    BY <1>2, <2>3
  <2>5. PICK c \in 1 .. Len(tree[f]) : \E l \in LinesOf(s, f, c) : z = <<c, l>>
    BY <1>3, <2>4
  <2>6. PICK l \in LinesOf(s, f, c) : z = <<c, l>>
    BY <2>5
  <2>7. z[1] = c /\ z[2] = l
    BY <2>6
  <2>8. c = a /\ l = line
    <3>1. PICK args : args = tree[f]
      OBVIOUS
    <3>2. GivenOK /\ MadeOK /\ Built
      BY AllShown DEF Ready, Inv, Sides
    <3>3. PICK N \in Nat : N = Len(args)
      BY <3>1, <3>2, TreeIs
    <3>4. EndToEnd(args, N) /\ \A e \in 1 .. N : Len(args[e].vals) \in Nat
      BY <3>1, <3>2, <3>3, TreeIs
    <3>5. PICK p : p = <<a, line.val>>
      OBVIOUS
    <3>6. PICK q : q = <<c, l.val>>
      OBVIOUS
    <3>7. p \in Spots(args, N)
      <4>1. line.val \in 0 .. Len(args[a].vals) - 1 /\ Len(args[a].vals) \in Nat /\ a \in 1 .. N
        BY <3>1, <3>3, <3>4, ReadyIs
      <4>2. line.val \in Nat /\ line.val < Len(args[a].vals)
        BY <4>1
      <4>3. p \in Nat \X Nat /\ p[1] = a /\ p[2] = line.val
        BY <3>5, <4>1, <4>2
      <4> QED
        BY <4>1, <4>2, <4>3 DEF Spots
    <3>8. q \in Spots(args, N)
      <4>1. l.val \in 0 .. Len(args[c].vals) - 1 /\ Len(args[c].vals) \in Nat /\ c \in 1 .. N
        BY <3>1, <3>3, <3>4, ReadyIs
      <4>2. l.val \in Nat /\ l.val < Len(args[c].vals)
        BY <4>1
      <4>3. q \in Nat \X Nat /\ q[1] = c /\ q[2] = l.val
        BY <3>6, <4>1, <4>2
      <4> QED
        BY <4>1, <4>2, <4>3 DEF Spots
    <3>9. Place(args, p) = i /\ Place(args, q) = i
      <4>1. Index(f, z) = i
        BY <2>3
      <4>2. Index(f, z) = args[c].start + l.val
        BY <2>7, <3>1 DEF Index
      <4>3. p[1] = a /\ p[2] = line.val /\ q[1] = c /\ q[2] = l.val
        BY <3>5, <3>6
      <4> QED
        BY <1>1, <3>1, <4>1, <4>2, <4>3 DEF Place
    <3>10. p = q
      BY <3>4, <3>7, <3>8, <3>9, PlacesAre
    <3>11. a = c /\ line.val = l.val
      BY <3>5, <3>6, <3>10
    <3> QED
      BY <3>11, ReadyIs
  <2>9. y = <<f, i, Bytes(line.ty, Val(f, a, line.val), Finds(s, f, a, line, lost))>>
    BY <2>2, <2>3, <2>7, <2>8
  <2> QED
    BY <2>9 DEF BytesOf
<1>10. Under3(Seen(s, lost), f, i) = {b}
  BY <1>7, <1>8, <1>9 DEF Under3
<1> QED
  BY <1>1, <1>10 DEF ByIndex, Only

(* A value is reported as it is, unless it is lost on the way to s.        *)
NoneLost(f, a, v, lost) == \A u \in 0 .. v - 1 : <<f, a, u>> \notin lost
ReportedAs(s, f, a, v, lost, val) ==
  /\ (s = Owner(f, a) \/ <<f, a, v>> \notin lost) =>
       ByIndex(s, f, a, v, lost) = {FoundBytes(val.ty, val)}
  /\ (~(s = Owner(f, a) \/ <<f, a, v>> \notin lost) /\ Kind(val.ty) # "union") =>
       ByIndex(s, f, a, v, lost) = {NoBytes}

LEMMA Reported ==
  ASSUME Ready, NEW f \in DOMAIN funcs, f \in Active, Alike(f), NEW s \in Sides, NEW a \in 1 .. Len(tree[f]),
         NEW v \in 0 .. Len(tree[f][a].vals) - 1, NEW lost, NoneLost(f, a, v, lost),
         NEW val, val = Val(f, a, v)
  PROVE  ReportedAs(s, f, a, v, lost, val)
<1>1. PICK line \in LinesOf(s, f, a) : line.val = v
  BY ReadyIs
<1>2. Reached(s, f, a, line, lost)
  <2>1. ASSUME NEW x \in Fields(prog[s], f, "write"), x[1] = a, x[2].val \in line.inside
        PROVE  Finds(s, f, a, x[2], lost)
    <3>1. PICK c \in 1 .. Len(tree[f]) : \E l \in LinesOf(s, f, c) : x = <<c, l>>
      BY ReadyIs
    <3>2. PICK l \in LinesOf(s, f, c) : x = <<c, l>>
      BY <3>1
    <3>3. c = a /\ x[2] = l
      BY <2>1, <3>2
    <3>4. l \in LinesOf(s, f, a)
      BY <3>3
    <3>5. l.val \in line.inside /\ line.inside \subseteq 0 .. line.val - 1
      BY <2>1, <3>3, ReadyIs
    <3>6. <<f, a, l.val>> \notin lost
      BY <1>1, <3>5 DEF NoneLost
    <3>7. Finds(s, f, a, l, lost)
      BY <3>4, <3>6, FindsIs
    <3> QED
      BY <3>3, <3>7
  <2> QED
    BY <2>1 DEF Reached
<1>3. Content(line.ty, val) = Content(val.ty, val)
  BY <1>1, AlikeIs
<1>4. FoundBytes(line.ty, val) = FoundBytes(val.ty, val) /\ Kind(line.ty) = Kind(val.ty)
  BY <1>3, SameContentSameBytes
<1>5. PICK b : b = BytesOf(s, f, a, line, lost)
  OBVIOUS
<1>6. ByIndex(s, f, a, v, lost) = {b}
  <2>1. Only(ByIndex(s, f, a, v, lost), b)
    BY <1>1, <1>2, <1>5, SeenIs
  <2> QED
    BY <2>1 DEF Only
<1>7. Finds(s, f, a, line, lost) <=> (s = Owner(f, a) \/ <<f, a, v>> \notin lost)
  BY <1>1, FindsIs
<1>8. ASSUME s = Owner(f, a) \/ <<f, a, v>> \notin lost PROVE b = FoundBytes(val.ty, val)
  <2>1. Finds(s, f, a, line, lost)
    BY <1>7, <1>8
  <2>2. b = FoundBytes(line.ty, val)
    BY <1>1, <1>5, <2>1 DEF BytesOf, Bytes, FoundBytes
  <2> QED
    BY <1>4, <2>2
<1>9. ASSUME ~(s = Owner(f, a) \/ <<f, a, v>> \notin lost), Kind(val.ty) # "union"
      PROVE  b = NoBytes
  <2>1. ~Finds(s, f, a, line, lost)
    BY <1>7, <1>9
  <2> QED
    BY <1>4, <1>5, <1>9, <2>1 DEF BytesOf, Bytes, NoBytes
<1> QED
  BY <1>6, <1>8, <1>9 DEF ReportedAs

LEMMA AgreesIs ==
  ASSUME NEW val, NEW x, NEW y, x = {FoundBytes(val.ty, val)}
  PROVE  /\ y = {FoundBytes(val.ty, val)} => Agrees(val, x, y)
         /\ y = {NoBytes} => ~Agrees(val, x, y) /\ ~Agrees(val, y, x)
<1>1. PICK n : n = Idx(val, Len(Cases(val.ty)))
  OBVIOUS
<1>2. PICK t : t = val.ty
  OBVIOUS
<1>3. PICK tag : tag = <<"tag", 4, n>>
  OBVIOUS
<1>4. PICK found : found = FoundBytes(t, val)
  OBVIOUS
<1>5. Kind(t) \in Tags => found = tag
  BY <1>1, <1>2, <1>3, <1>4 DEF FoundBytes, Tags
<1>6. found # NoBytes
  <2>1. NoBytes[1] = "other"
    BY DEF NoBytes
  <2>2. PICK w : w = Ty[t].width
    OBVIOUS
  <2>3. PICK m : m = val.num
    OBVIOUS
  <2>4. found = <<"bytes", w, m>> \/ found = tag
    BY <1>1, <1>2, <1>3, <1>4, <2>2, <2>3 DEF FoundBytes
  <2>5. found[1] = "bytes" \/ found[1] = "tag"
    BY <1>3, <2>4
  <2> QED
    BY <2>1, <2>5
<1>7. \A p, q : Agrees(val, p, q) <=>
        IF Kind(t) \in Tags THEN p = {tag} /\ q = {tag} ELSE p = q
  BY <1>1, <1>2, <1>3 DEF Agrees
<1>8. x = {found}
  BY <1>2, <1>4
<1>9. ASSUME y = {found} PROVE Agrees(val, x, y)
  BY <1>5, <1>7, <1>8, <1>9
<1>10. ASSUME y = {NoBytes} PROVE ~Agrees(val, x, y) /\ ~Agrees(val, y, x)
  <2>1. x # y
    BY <1>6, <1>8, <1>10
  <2>2. Kind(t) \in Tags => y # {tag}
    BY <1>5, <1>6, <1>10
  <2> QED
    BY <1>7, <2>1, <2>2
<1> QED
  BY <1>2, <1>4, <1>9, <1>10

(* The values that do not agree after a run where lost is not passed on.   *)
WrongIn(f, lost) ==
  {x \in ValsOf(f) :
     ~Agrees(Val(f, x[2], x[3]),
             Under3(Seen("caller", lost), f, tree[f][x[2]].start + x[3]),
             Under3(Seen("callee", lost), f, tree[f][x[2]].start + x[3]))}

LEMMA NoFalseAlarm ==
  ASSUME Ready, NEW f \in DOMAIN funcs, f \in Active, Alike(f), NEW lost, NEW y \in WrongIn(f, lost)
  PROVE  \E d \in lost : d[1] = f /\ ~Earlier(y, d)
<1> SUFFICES ASSUME \A d \in lost : d[1] = f => Earlier(y, d) PROVE FALSE
  OBVIOUS
<1>1. GivenOK /\ MadeOK
  BY DEF Ready, Inv
<1>2. y \in ValsOf(f)
  BY DEF WrongIn
<1>3. y \in AllVals /\ y[1] = f
  BY <1>1, <1>2, ValsAre
<1>4. /\ y = <<f, y[2], y[3]>> /\ y[2] \in 1 .. Len(tree[f])
      /\ y[3] \in 0 .. Len(tree[f][y[2]].vals) - 1
      /\ y[2] \in Nat /\ y[3] \in Nat /\ f \in Nat
  <2>1. y \in Triples
    BY <1>1, <1>3, ValsAre
  <2> QED
    BY <1>1, <1>3, <2>1, ValsAre DEF Triples
<1>5. PICK a \in 1 .. Len(tree[f]) : a = y[2]
  BY <1>4
<1>6. PICK v \in 0 .. Len(tree[f][a].vals) - 1 : v = y[3]
  BY <1>4, <1>5
<1>7. a \in Nat /\ v \in Nat
  BY <1>4, <1>5, <1>6
<1>8. ASSUME NEW u \in 0 .. v PROVE <<f, a, u>> \notin lost
  <2>1. PICK d : d = <<f, a, u>>
    OBVIOUS
  <2>2. d[1] = f /\ d[2] = a /\ d[3] = u
    BY <2>1
  <2>3. ~Earlier(y, d)
    BY <1>3, <1>4, <1>5, <1>6, <1>7, <2>2 DEF Earlier
  <2> QED
    BY <2>1, <2>2, <2>3
<1>9. v \in 0 .. v /\ \A u \in 0 .. v - 1 : u \in 0 .. v
  BY <1>7
<1>10. <<f, a, v>> \notin lost /\ \A u \in 0 .. v - 1 : <<f, a, u>> \notin lost
  BY <1>8, <1>9
<1>11. PICK val : val = Val(f, a, v)
  OBVIOUS
<1>12. \A s \in Sides :
         Under3(Seen(s, lost), f, tree[f][a].start + v) = {FoundBytes(val.ty, val)}
  <2>1. ASSUME NEW s \in Sides PROVE ReportedAs(s, f, a, v, lost, val)
    <3>1. NoneLost(f, a, v, lost)
      BY <1>10 DEF NoneLost
    <3> QED
      BY <1>11, <3>1, Reported
  <2> QED
    BY <1>10, <2>1 DEF ReportedAs, ByIndex
<1>13. PICK caller : caller = Under3(Seen("caller", lost), f, tree[f][a].start + v)
  OBVIOUS
<1>14. PICK callee : callee = Under3(Seen("callee", lost), f, tree[f][a].start + v)
  OBVIOUS
<1>15. caller = {FoundBytes(val.ty, val)} /\ callee = {FoundBytes(val.ty, val)}
  BY <1>12, <1>13, <1>14 DEF Sides
<1>16. Agrees(val, caller, callee)
  BY <1>15, AgreesIs
<1>17. ~Agrees(val, caller, callee)
  BY <1>5, <1>6, <1>11, <1>13, <1>14 DEF WrongIn
<1> QED
  BY <1>16, <1>17

LEMMA LossSeen ==
  ASSUME Ready, NEW f \in DOMAIN funcs, f \in Active, Alike(f), NEW lost, lost \subseteq Data,
         \A x, y \in lost : x = y, NEW d \in lost, d[1] = f
  PROVE  d \in WrongIn(f, lost)
<1>1. GivenOK /\ MadeOK
  BY DEF Ready, Inv
<1>2. d \in AllVals /\ Kind(Val(d[1], d[2], d[3]).ty) # "union"
  BY DEF Data
<1>3. d \in ValsOf(f)
  BY <1>1, <1>2, ValsAre
<1>4. /\ d = <<f, d[2], d[3]>> /\ d[2] \in 1 .. Len(tree[f])
      /\ d[3] \in 0 .. Len(tree[f][d[2]].vals) - 1 /\ d[3] \in Nat
  <2>1. d \in Triples
    BY <1>1, <1>2, ValsAre
  <2> QED
    BY <1>1, <1>2, <2>1, ValsAre DEF Triples
<1>5. PICK a \in 1 .. Len(tree[f]) : a = d[2]
  BY <1>4
<1>6. PICK v \in 0 .. Len(tree[f][a].vals) - 1 : v = d[3]
  BY <1>4, <1>5
<1>7. d = <<f, a, v>> /\ v \in Nat
  BY <1>4, <1>5, <1>6
<1>8. ASSUME NEW u \in 0 .. v - 1 PROVE <<f, a, u>> \notin lost
  <2>1. u # v
    BY <1>7
  <2>2. <<f, a, u>> # <<f, a, v>>
    BY <2>1
  <2> QED
    BY <1>7, <2>2
<1>9. PICK val : val = Val(f, a, v)
  OBVIOUS
<1>10. Kind(val.ty) # "union"
  BY <1>2, <1>5, <1>6, <1>9
<1>11. PICK o \in Sides : o = Owner(f, a)
  BY DEF Owner, Sides
<1>12. PICK n \in Sides : n # o
  BY DEF Sides
<1>20. ASSUME NEW s \in Sides PROVE ReportedAs(s, f, a, v, lost, val)
  <2>1. NoneLost(f, a, v, lost)
    BY <1>8 DEF NoneLost
  <2> QED
    BY <1>9, <2>1, Reported
<1>13. Under3(Seen(o, lost), f, tree[f][a].start + v) = {FoundBytes(val.ty, val)}
  BY <1>11, <1>20 DEF ReportedAs, ByIndex
<1>14. Under3(Seen(n, lost), f, tree[f][a].start + v) = {NoBytes}
  BY <1>7, <1>10, <1>11, <1>12, <1>20 DEF ReportedAs, ByIndex
<1>15. PICK x : x = Under3(Seen(o, lost), f, tree[f][a].start + v)
  OBVIOUS
<1>16. PICK y : y = Under3(Seen(n, lost), f, tree[f][a].start + v)
  OBVIOUS
<1>17. ~Agrees(val, x, y) /\ ~Agrees(val, y, x)
  BY <1>13, <1>14, <1>15, <1>16, AgreesIs
<1>18. (o = "caller" /\ n = "callee") \/ (o = "callee" /\ n = "caller")
  BY <1>12 DEF Sides
<1>19. ~Agrees(val, Under3(Seen("caller", lost), f, tree[f][a].start + v),
               Under3(Seen("callee", lost), f, tree[f][a].start + v))
  BY <1>15, <1>16, <1>17, <1>18
<1> QED
  BY <1>3, <1>5, <1>6, <1>9, <1>19 DEF WrongIn
-----------------------------------------------------------------------------
(* The verdict *)

(* At most one leaf is lost, and where the blocks of the puns have their   *)
(* leaves in common, it is the first value that does not agree.            *)
Judged ==
  ran => /\ \A x, y \in bad : x = y
         /\ \A f \in Active : Alike(f) =>
              /\ \A y \in Wrong(f) : \E d \in bad : d[1] = f /\ ~Earlier(y, d)
              /\ \A d \in bad : d[1] = f => d \in Wrong(f)

LEMMA RunJudges ==
  ASSUME Inv, Run PROVE Judged'
<1>1. /\ UNCHANGED <<funcs, draw, lang, variadics>> /\ UNCHANGED <<gen, tree, err>>
      /\ UNCHANGED <<sel, writer, prog, status, full>> /\ UNCHANGED verdict
  BY DEF Run, given, values, sources
<1>2. /\ ~ran /\ (\A s \in Sides : status[s] = "done")
      /\ bad' \in {{}} \cup {{d} : d \in Data}
      /\ saw' = [s \in Sides |-> UNION {Reports(s, f, bad') : f \in DOMAIN funcs}]
  BY DEF Run
<1>3. Ready
  BY <1>2 DEF Ready, Inv, ResultsOK, MinimizedOK
<1>4. PICK lost : lost = bad'
  OBVIOUS
<1>5. lost \subseteq Data /\ \A x, y \in lost : x = y
  BY <1>2, <1>4
<1>6. saw'["caller"] = Seen("caller", lost) /\ saw'["callee"] = Seen("callee", lost)
  BY <1>2, <1>4 DEF Seen, Sides
<1>7. ASSUME NEW f PROVE Wrong(f)' = WrongIn(f, lost)
  <2>1. ValsOf(f)' = ValsOf(f) /\ tree' = tree
    BY <1>1 DEF ValsOf
  <2>2. \A x : Mismatch(f, x[2], x[3])' <=>
          ~Agrees(Val(f, x[2], x[3]),
                  Under3(Seen("caller", lost), f, tree[f][x[2]].start + x[3]),
                  Under3(Seen("callee", lost), f, tree[f][x[2]].start + x[3]))
    BY <1>1, <1>6 DEF Mismatch, Vals, Under3, Val
  <2> QED
    BY <2>1, <2>2 DEF Wrong, WrongIn
<1>8. ASSUME NEW f PROVE Alike(f)' <=> Alike(f)
  BY <1>1 DEF Alike, LinesAlike
<1>9. ASSUME NEW f \in Active', Alike(f)'
      PROVE  /\ \A y \in Wrong(f)' : \E d \in bad' : d[1] = f /\ ~Earlier(y, d)
             /\ \A d \in bad' : d[1] = f => d \in Wrong(f)'
  <2>1. f \in DOMAIN funcs /\ f \in Active /\ Alike(f)
    BY <1>1, <1>8, <1>9 DEF Active
  <2>2. \A y \in WrongIn(f, lost) : \E d \in lost : d[1] = f /\ ~Earlier(y, d)
    BY <1>3, <2>1, NoFalseAlarm
  <2>3. \A d \in lost : d[1] = f => d \in WrongIn(f, lost)
    BY <1>3, <1>5, <2>1, LossSeen
  <2> QED
    BY <1>4, <1>7, <2>2, <2>3
<1> QED
  BY <1>4, <1>5, <1>9 DEF Judged

LEMMA StaysJudged ==
  ASSUME Judged, UNCHANGED <<funcs, variadics, lang, tree, ran, bad, saw>> PROVE Judged'
<1>1. ASSUME NEW f PROVE (Alike(f)' <=> Alike(f)) /\ Wrong(f)' = Wrong(f)
  <2>1. Alike(f)' <=> Alike(f)
    BY DEF Alike, LinesAlike
  <2>2. Wrong(f)' = Wrong(f)
    BY DEF Wrong, Mismatch, Vals, Val, ValsOf
  <2> QED
    BY <2>1, <2>2
<1>2. Active' = Active
  BY DEF Active
<1> QED
  BY <1>1, <1>2 DEF Judged

LEMMA JudgedNext ==
  Inv /\ Judged /\ [Next]_vars => Judged'
<1> SUFFICES ASSUME Inv, Judged, [Next]_vars PROVE Judged'
  OBVIOUS
<1>1. CASE BuildArg
  <2>1. ~Built
    BY <1>1 DEF BuildArg, Built
  <2>2. ~ran /\ ran' = ran
    BY <1>1, <2>1 DEF BuildArg, results, Inv, NothingYet
  <2> QED
    BY <2>2 DEF Judged
<1>2. CASE \E s \in Sides : GenerateBody(s)
  <2>1. UNCHANGED <<funcs, variadics, lang, tree, ran, bad, saw>>
    BY <1>2 DEF GenerateBody, given, values, results
  <2> QED
    BY <2>1, StaysJudged
<1>3. CASE Run
  BY <1>3, RunJudges
<1>4. CASE Check
  <2>1. UNCHANGED <<funcs, variadics, lang, tree, ran, bad, saw>>
    BY <1>4 DEF Check, given, values
  <2> QED
    BY <2>1, StaysJudged
<1>5. CASE Minimize
  <2>1. UNCHANGED <<funcs, variadics, lang, tree, ran, bad, saw>>
    BY <1>5 DEF Minimize, given, values, results
  <2> QED
    BY <2>1, StaysJudged
<1>6. CASE Over \/ UNCHANGED vars
  <2>1. UNCHANGED <<funcs, variadics, lang, tree, ran, bad, saw>>
    BY <1>6 DEF Over, vars, given, values, results
  <2> QED
    BY <2>1, StaysJudged
<1> QED
  BY <1>1, <1>2, <1>3, <1>4, <1>5, <1>6 DEF Next

LEMMA JudgedAlways ==
  Spec => []Judged
<1>1. Init => Judged
  BY DEF Init, Judged
<1> QED
  BY <1>1, JudgedNext, Invariance, PTL DEF Spec

LEMMA VerdictIs ==
  ASSUME Inv, verdict # <<>>, NEW f \in Active
  PROVE  /\ ran /\ verdict[f] = FirstMismatch(f)
         /\ Wrong(f) # {} => /\ verdict[f] \in Wrong(f)
                             /\ \A y \in Wrong(f) : verdict[f] = y \/ Earlier(verdict[f], y)
         /\ Wrong(f) = {} => verdict[f] = <<>>
<1>1. verdict = [x \in Active |-> FirstMismatch(x)] /\ ran /\ f \in DOMAIN funcs
  BY DEF Inv, ResultsOK, Active
<1>2. verdict[f] = FirstMismatch(f)
  BY <1>1
<1>3. Wrong(f) \subseteq Triples
  BY <1>1, ValsAre DEF Inv, Wrong
<1>4. ASSUME Wrong(f) # {}
      PROVE  /\ verdict[f] \in Wrong(f)
             /\ \A y \in Wrong(f) : verdict[f] = y \/ Earlier(verdict[f], y)
  <2>1. verdict[f] = FirstOf(Wrong(f))
    BY <1>2, <1>4 DEF FirstMismatch
  <2>2. PICK xs : xs = Wrong(f)
    OBVIOUS
  <2>3. FirstOf(xs) \in xs /\ \A y \in xs : FirstOf(xs) = y \/ Earlier(FirstOf(xs), y)
    BY <1>3, <1>4, <2>2, FirstIs
  <2> QED
    BY <2>1, <2>2, <2>3
<1>5. Wrong(f) = {} => verdict[f] = <<>>
  BY <1>2 DEF FirstMismatch
<1> QED
  BY <1>1, <1>2, <1>4, <1>5

(* No false alarm: when the calls pass everything on, every function whose *)
(* puns have their leaves in common passes, whichever languages the two    *)
(* sides are in and whichever variants were chosen.                        *)
THEOREM FaithfulCallsPass == Spec => []FaithfulPasses
<1>1. Inv /\ Judged => FaithfulPasses
  <2> SUFFICES ASSUME Inv, Judged, verdict # <<>>, bad = {}, NEW f \in Active, Alike(f)
               PROVE  verdict[f] = <<>>
    BY DEF FaithfulPasses
  <2>1. ran
    BY VerdictIs
  <2>2. Wrong(f) = {}
    BY <2>1 DEF Judged
  <2> QED
    BY <2>2, VerdictIs
<1> QED
  BY <1>1, Invariance, JudgedAlways, PTL

(* No missed alarm and no misplaced one: the one leaf that is lost on the  *)
(* way, however deep in its argument and whatever it hides, is the value   *)
(* the check names for its function, and the other functions pass.         *)
THEOREM LossesAreBlamed == Spec => []LostLeafBlamed
<1>1. Inv /\ Judged => LostLeafBlamed
  <2> SUFFICES ASSUME Inv, Judged, verdict # <<>>, NEW x \in bad, NEW f \in Active, Alike(f)
               PROVE  verdict[f] = IF f = x[1] THEN x ELSE <<>>
    BY DEF LostLeafBlamed
  <2>1. ran
    BY VerdictIs
  <2>2. /\ \A a, b \in bad : a = b
        /\ \A y \in Wrong(f) : \E d \in bad : d[1] = f /\ ~Earlier(y, d)
        /\ \A d \in bad : d[1] = f => d \in Wrong(f)
    BY <2>1 DEF Judged
  <2>3. CASE f = x[1]
    <3>1. x \in Wrong(f)
      BY <2>2, <2>3
    <3>2. /\ verdict[f] \in Wrong(f)
          /\ verdict[f] = x \/ Earlier(verdict[f], x)
      BY <3>1, VerdictIs
    <3>3. ~Earlier(verdict[f], x)
      BY <2>2, <3>2
    <3> QED
      BY <2>3, <3>2, <3>3
  <2>4. CASE f # x[1]
    <3>1. Wrong(f) = {}
      BY <2>2, <2>4
    <3> QED
      BY <2>4, <3>1, VerdictIs
  <2> QED
    BY <2>3, <2>4
<1> QED
  BY <1>1, Invariance, JudgedAlways, PTL
-----------------------------------------------------------------------------
(* The minimized sources *)

(* All that a generation for the functions fs has written, once it is done. *)
LEMMA MadeWhole ==
  ASSUME GivenOK, MadeOK, Built, NEW s \in Sides, NEW x, NEW w, NEW fs, NEW f \in fs,
         f \in DOMAIN funcs, NEW bodies,
         BodiesOK(JobOf(s, lang, funcs, tree, x, w), fs, bodies, "done")
  PROVE  LET job == JobOf(s, lang, funcs, tree, x, w)
         IN  /\ \A a \in 1 .. Len(tree[f]) : WriteVar(job, f, a).res = "ok"
             /\ \A y : y \in Fields(bodies, f, "write") <=>
                  \E a \in 1 .. Len(tree[f]) :
                    \E line \in WriteVar(job, f, a).fields : y = <<a, line>>
             /\ \A y : y \in Inits(bodies, f) <=>
                  \E a \in Owned(s, funcs[f]) : y = Did(job, f, "init", a)
<1>1. PICK job : job = JobOf(s, lang, funcs, tree, x, w)
  OBVIOUS
<1>2. job.side = s /\ job.funcs = funcs
  BY <1>1 DEF JobOf
<1>3. Len(tree[f]) = Count(job.funcs[f])
  BY <1>2, TreeIs
<1>4. job.side \in Sides /\ job.funcs[f] \in FuncSet
  BY <1>1, JobGood DEF JobOK
<1>5. BodiesOK(job, fs, bodies, "done")
  BY <1>1
<1>6. Whole(job, f, Code(bodies, f))
  BY <1>4, <1>5, DoneIsWhole
<1> QED
  BY <1>1, <1>2, <1>3, <1>6, WholeFields

(* What is selected and how it is shown changes nothing of what is made.   *)
LEMMA SameInits ==
  ASSUME GivenOK, MadeOK, Built, NEW s \in Sides, NEW f \in DOMAIN funcs,
         NEW x, NEW w, NEW fs, f \in fs, NEW bodies,
         BodiesOK(JobOf(s, lang, funcs, tree, x, w), fs, bodies, "done"),
         NEW x2, NEW w2, NEW fs2, f \in fs2, NEW bodies2,
         BodiesOK(JobOf(s, lang, funcs, tree, x2, w2), fs2, bodies2, "done")
  PROVE  Inits(bodies, f) = Inits(bodies2, f)
<1>1. PICK job : job = JobOf(s, lang, funcs, tree, x, w)
  OBVIOUS
<1>2. PICK job2 : job2 = JobOf(s, lang, funcs, tree, x2, w2)
  OBVIOUS
<1>3. ASSUME NEW a PROVE Did(job, f, "init", a) = Did(job2, f, "init", a)
  <2>1. job.lang = job2.lang /\ job.tree = job2.tree
    BY <1>1, <1>2 DEF JobOf
  <2>2. InitVar(job, f, a) = InitVar(job2, f, a)
    BY <2>1 DEF InitVar
  <2>3. Perform(job, f, "init", a) = InitVar(job, f, a)
    BY DEF Perform
  <2>4. Perform(job2, f, "init", a) = InitVar(job2, f, a)
    BY DEF Perform
  <2> QED
    BY <2>2, <2>3, <2>4 DEF Did
<1>4. \A y : y \in Inits(bodies, f) <=> \E a \in Owned(s, funcs[f]) : y = Did(job, f, "init", a)
  BY <1>1, MadeWhole
<1>5. \A y : y \in Inits(bodies2, f) <=> \E a \in Owned(s, funcs[f]) : y = Did(job2, f, "init", a)
  BY <1>2, MadeWhole
<1> QED
  BY <1>3, <1>4, <1>5

(* The lines of an argument that a generator with a selection shows.       *)
LEMMA ShownIs ==
  ASSUME NEW job, NEW f, NEW a, NEW line \in WriteVar(job, f, a).fields, job.sel # <<>>
  PROVE  job.sel = <<f, a, line.val>>
<1>1. PICK arg : arg = job.tree[f][a]
  OBVIOUS
<1>2. PICK visit : visit = WriteFields(job.lang, arg)
  OBVIOUS
<1>3. PICK shown : shown = {y \in ToSet(visit.lines) : IsShown(job, f, a, y)}
  OBVIOUS
<1>4. WriteVar(job, f, a).fields \in {{}, shown}
  BY <1>1, <1>2, <1>3 DEF WriteVar
<1>5. IsShown(job, f, a, line)
  BY <1>3, <1>4
<1> QED
  BY <1>5 DEF IsShown, ShouldWriteVal

(* With the harness's writer, the selected value is shown.                 *)
LEMMA SelectedShown ==
  ASSUME NEW job, NEW f, NEW a, NEW v, job.sel = <<f, a, v>>, job.writer = "harness",
         job.lang \in Languages, MadeArg(draw, job.tree[f][a]), job.tree[f][a] \in ArgValues,
         draw \in Draws, WriteVar(job, f, a).res = "ok", v \in 0 .. Len(job.tree[f][a].vals) - 1
  PROVE  \E line \in WriteVar(job, f, a).fields : line.val = v
<1>1. PICK arg \in ArgValues : arg = job.tree[f][a]
  OBVIOUS
<1>2. PICK l \in Languages : l = job.lang
  OBVIOUS
<1>3. PICK visit : visit = WriteFields(l, arg)
  OBVIOUS
<1>4. PICK shown : shown = {y \in ToSet(visit.lines) : IsShown(job, f, a, y)}
  OBVIOUS
<1>5. ShouldWriteArg(job, f, a)
  BY DEF ShouldWriteArg
<1>6. WriteVar(job, f, a) =
        [fields |-> shown, next |-> visit.next,
         res |-> IF visit.res = "ok" THEN AssertResult(job, shown, arg.vals) ELSE visit.res]
  BY <1>1, <1>2, <1>3, <1>4, <1>5 DEF WriteVar
<1>7. visit.res = "ok"
  BY <1>6
<1>8. Meets(arg, visit)
  <2>1. MadeArg(draw, arg)
    BY <1>1
  <2> QED
    BY <1>3, <2>1, WriteMeets
<1>9. PICK line \in ToSet(visit.lines) : line.val = v
  BY <1>1, <1>7, <1>8, LinesAre
<1>10. IsShown(job, f, a, line)
  BY <1>9 DEF IsShown, ShouldWriteVal
<1>11. line \in WriteVar(job, f, a).fields
  BY <1>4, <1>6, <1>9, <1>10
<1> QED
  BY <1>9, <1>11

(* The minimized sources make what the full ones made for the failing      *)
(* function, and show its one value that failed and nothing else.          *)
THEOREM MinimizedShowsTheFailure == Spec => []MinimizedShowsOne
<1>1. Inv => MinimizedShowsOne
  <2> SUFFICES ASSUME Inv, sel # <<>>, NEW s \in Sides, status[s] = "done"
               PROVE  LET f == sel[1]
                          shown == {<<f, x[1], x[2].val>> : x \in Fields(prog[s], f, "write")}
                      IN  /\ {b.func : b \in ToSet(prog[s])} = {f}
                          /\ Inits(prog[s], f) = Inits(full[s], f)
                          /\ shown \subseteq {sel}
                          /\ writer = "harness" => shown = {sel}
    BY DEF MinimizedShowsOne
  <2>1. GivenOK /\ MadeOK /\ draw \in Draws /\ lang[s] \in Languages
    BY DEF Inv, GivenOK
  <2>2. Built
    BY DEF Inv, NothingYet
  <2>3. sel \in AllVals /\ SidesOK(lang, funcs, Active, tree, <<>>, "harness", full, AllDone)
    BY DEF Inv, MinimizedOK
  <2>4. PICK f \in DOMAIN funcs : f = sel[1] /\ f \in Active
    BY <2>1, <2>3, ValsAre DEF Inv, MinimizedOK
  <2>5. PICK a \in 1 .. Len(tree[f]) : a = sel[2]
    BY <2>1, <2>3, <2>4, ValsAre
  <2>6. PICK v \in 0 .. Len(tree[f][a].vals) - 1 : v = sel[3] /\ sel = <<f, a, v>>
    BY <2>1, <2>3, <2>4, <2>5, ValsAre
  <2>7. PICK job : job = JobOf(s, lang, funcs, tree, sel, writer)
    OBVIOUS
  <2>8. job.lang = lang[s] /\ job.tree = tree /\ job.sel = sel /\ job.writer = writer
    BY <2>7 DEF JobOf
  <2>9. BodiesOK(JobOf(s, lang, funcs, tree, sel, writer), {f}, prog[s], "done")
    BY <2>4, Whose DEF Desired
  <2>10. BodiesOK(JobOf(s, lang, funcs, tree, <<>>, "harness"), Active, full[s], "done")
    BY <2>3 DEF SidesOK, AllDone, Desired
  <2>11. {b.func : b \in ToSet(prog[s])} = {f}
    <3>1. PICK bodies : bodies = prog[s]
      OBVIOUS
    <3>2. BodiesOK(job, {f}, bodies, "done")
      BY <2>7, <2>9, <3>1
    <3>3. \A b \in ToSet(bodies) : b.func \in {f}
      BY <3>2, BodiesAre DEF BodiesOK
    <3>4. \E b \in ToSet(bodies) : b.func = f
      BY <3>2 DEF BodiesOK
    <3> QED
      BY <3>1, <3>3, <3>4
  <2>12. Inits(prog[s], f) = Inits(full[s], f)
    BY <2>1, <2>2, <2>4, <2>9, <2>10, SameInits
  <2>13. /\ \A b \in 1 .. Len(tree[f]) : WriteVar(job, f, b).res = "ok"
         /\ \A y : y \in Fields(prog[s], f, "write") <=>
              \E b \in 1 .. Len(tree[f]) : \E line \in WriteVar(job, f, b).fields : y = <<b, line>>
    BY <2>1, <2>2, <2>7, <2>9, MadeWhole
  <2>14. ASSUME NEW y \in Fields(prog[s], f, "write") PROVE <<f, y[1], y[2].val>> = sel
    <3>1. PICK b \in 1 .. Len(tree[f]) : \E line \in WriteVar(job, f, b).fields : y = <<b, line>>
      BY <2>13
    <3>2. PICK line \in WriteVar(job, f, b).fields : y = <<b, line>>
      BY <3>1
    <3>3. sel = <<f, b, line.val>>
      BY <2>8, <3>2, ShownIs
    <3> QED
      BY <3>2, <3>3
  <2>15. ASSUME writer = "harness"
         PROVE  \E y \in Fields(prog[s], f, "write") : <<f, y[1], y[2].val>> = sel
    <3>1. MadeArg(draw, tree[f][a]) /\ tree[f][a] \in ArgValues
      BY <2>1, <2>2, TreeIs
    <3>2. \E line \in WriteVar(job, f, a).fields : line.val = v
      BY <2>1, <2>6, <2>8, <2>13, <2>15, <3>1, SelectedShown
    <3>3. PICK line \in WriteVar(job, f, a).fields : line.val = v
      BY <3>2
    <3>4. PICK y : y = <<a, line>>
      OBVIOUS
    <3>5. y \in Fields(prog[s], f, "write")
      BY <2>13, <3>3, <3>4
    <3>6. <<f, y[1], y[2].val>> = sel
      BY <2>6, <3>3, <3>4
    <3> QED
      BY <3>5, <3>6
  <2> QED
    BY <2>4, <2>11, <2>12, <2>14, <2>15
<1> QED
  BY <1>1, Invariance, PTL
=============================================================================
