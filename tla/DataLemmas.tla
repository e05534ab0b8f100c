----------------------------- MODULE DataLemmas -----------------------------
(***************************************************************************)
(* Facts about numbers and sequences that the proofs of several components *)
(* need: a form of induction over the naturals in which the property is a  *)
(* set, and what follows from it for the recursive operators of the models.*)
(***************************************************************************)
EXTENDS SequencesExt, SequenceTheorems, FiniteSetTheorems, WellFoundedInduction, TLAPS

(* Induction: a set with 0 and with every successor holds all naturals.    *)
LEMMA SetInduction ==
  ASSUME NEW S, 0 \in S, \A n \in Nat : n \in S => n + 1 \in S
  PROVE  Nat \subseteq S
<1>1. SUFFICES ASSUME Nat \ S # {} PROVE FALSE
  OBVIOUS
<1>2. PICK m \in Nat \ S : \A k \in Nat \ S : ~ (<<k, m>> \in OpToRel(<, Nat))
  <2>1. Nat \ S \subseteq Nat
    OBVIOUS
  <2> QED
    BY <1>1, <2>1, NatLessThanWellFounded, WFMin
<1> HIDE <1>2
<1>3. m \in Nat /\ m \notin S
  OBVIOUS
<1>4. m - 1 \in Nat /\ m - 1 < m /\ m - 1 + 1 = m
  BY <1>3
<1>5. m - 1 \in S
  <2>1. <<m - 1, m>> \in OpToRel(<, Nat)
    BY <1>3, <1>4 DEF OpToRel
  <2> QED
    BY <1>2, <1>4, <2>1
<1> QED
  BY <1>3, <1>4, <1>5

(* A set of naturals that is not empty has a least element.                *)
LEMMA LeastExists ==
  ASSUME NEW S, S \subseteq Nat, S # {}
  PROVE  \E m \in S : \A k \in S : m <= k
<1>1. PICK m \in S : \A k \in S : ~ (<<k, m>> \in OpToRel(<, Nat))
  BY NatLessThanWellFounded, WFMin
<1> HIDE <1>1
<1>2. ASSUME NEW k \in S PROVE m <= k
  <2>1. <<k, m>> \notin OpToRel(<, Nat)
    BY <1>1
  <2>2. ~ (k < m)
    BY <2>1 DEF OpToRel
  <2> QED
    BY <2>2
<1> QED
  BY <1>2

(* If it is bounded, it has a greatest one.                                *)
LEMMA GreatestExists ==
  ASSUME NEW n \in Nat, NEW S, S \subseteq 0 .. n, S # {}
  PROVE  \E m \in S : \A k \in S : k <= m
<1> DEFINE Down == {n - k : k \in S}
<1>1. Down \subseteq Nat /\ Down # {}
  <2>1. PICK k \in S : TRUE
    OBVIOUS
  <2>2. \A j \in S : n - j \in Nat
    OBVIOUS
  <2> QED
    BY <2>1, <2>2
<1>2. PICK d \in Down : \A e \in Down : d <= e
  <2> HIDE DEF Down
  <2> QED BY <1>1, LeastExists
<1>3. PICK m \in S : d = n - m
  OBVIOUS
<1>4. ASSUME NEW k \in S PROVE k <= m
  <2>1. n - m <= n - k
    BY <1>2, <1>3
  <2> QED
    BY <2>1
<1> QED
  BY <1>4

(* The greatest number of a part of 1 .. n, and what is left without it.    *)
LEMMA MaxIs ==
  ASSUME NEW n \in Nat, NEW s \in SUBSET (1 .. n), s # {}
  PROVE  /\ Max(s) \in s /\ Max(s) \in 1 .. n
         /\ \A x \in s : x <= Max(s)
         /\ s \ {Max(s)} \in SUBSET (1 .. n)
         /\ \A m \in Nat : s \subseteq 1 .. m + 1 => s \ {Max(s)} \subseteq 1 .. m
<1>1. \E x \in s : \A y \in s : x >= y
  <2>1. s \subseteq 0 .. n
    OBVIOUS
  <2>2. PICK x \in s : \A y \in s : y <= x
    BY <2>1, GreatestExists
  <2> QED
    BY <2>2
<1>2. Max(s) \in s /\ \A y \in s : Max(s) >= y
  BY <1>1 DEF Max
<1>3. PICK x : x = Max(s)
  OBVIOUS
<1>4. x \in s /\ x \in 1 .. n /\ \A y \in s : y <= x
  BY <1>2, <1>3
<1>5. ASSUME NEW m \in Nat, s \subseteq 1 .. m + 1, NEW y \in s \ {x} PROVE y \in 1 .. m
  <2>1. y \in 1 .. m + 1 /\ x \in 1 .. m + 1 /\ y <= x /\ y # x
    BY <1>4, <1>5
  <2> QED
    BY <2>1
<1> QED
  BY <1>3, <1>4, <1>5

-----------------------------------------------------------------------------
(* FlattenSeq *)

(* The function that FlattenSeq computes, from prefix to prefix.           *)
Flat(seqs) ==
  CHOOSE f : f = [i \in 1 .. Len(seqs) |-> IF i = 1 THEN seqs[i] ELSE f[i - 1] \o seqs[i]]

LEMMA FlattenIsLast ==
  ASSUME NEW seqs
  PROVE  FlattenSeq(seqs) = IF Len(seqs) = 0 THEN seqs ELSE Flat(seqs)[Len(seqs)]
  BY DEF Flat, FlattenSeq

LEMMA FlatRec ==
  ASSUME NEW T, NEW seqs \in Seq(Seq(T))
  PROVE  Flat(seqs) = [i \in 1 .. Len(seqs) |->
                         IF i = 1 THEN seqs[i] ELSE Flat(seqs)[i - 1] \o seqs[i]]
<1> DEFINE Eq(f, n) == f = [i \in 1 .. n |-> IF i = 1 THEN seqs[i] ELSE f[i - 1] \o seqs[i]]
           I == {n \in Nat : n <= Len(seqs) => \E f : Eq(f, n)}
<1>1. 0 \in I
  <2>1. Eq([i \in {} |-> i], 0)
    OBVIOUS
  <2> QED
    BY <2>1
<1>2. ASSUME NEW n \in Nat, n \in I PROVE n + 1 \in I
  <2>1. CASE ~(n + 1 <= Len(seqs))
    <3> HIDE DEF Eq
    <3> QED BY <2>1
  <2>2. CASE n + 1 <= Len(seqs)
    <3>1. n <= Len(seqs)
      BY <2>2, LenProperties
    <3>2. PICK f : Eq(f, n)
      <4> HIDE DEF Eq
      <4> QED BY <1>2, <3>1
    <3> DEFINE g == [i \in 1 .. n + 1 |->
                       IF i = n + 1 THEN (IF i = 1 THEN seqs[i] ELSE f[n] \o seqs[i]) ELSE f[i]]
    <3>3. ASSUME NEW i \in 1 .. n + 1 PROVE g[i] = IF i = 1 THEN seqs[i] ELSE g[i - 1] \o seqs[i]
      <4>1. CASE i = n + 1
        BY <4>1
      <4>2. CASE i \in 1 .. n /\ i = 1
        BY <4>2, <3>2
      <4>3. CASE i \in 1 .. n /\ i # 1
        <5>1. i - 1 \in 1 .. n /\ i # n + 1 /\ i - 1 # n + 1 /\ i - 1 \in 1 .. n + 1
          BY <4>3
        <5>2. g[i] = f[i] /\ g[i - 1] = f[i - 1]
          BY <5>1
        <5>3. f[i] = f[i - 1] \o seqs[i]
          BY <4>3, <3>2
        <5> QED
          BY <4>3, <5>2, <5>3
      <4> QED
        BY <4>1, <4>2, <4>3
    <3>4. Eq(g, n + 1)
      <4>1. g = [i \in 1 .. n + 1 |-> g[i]]
        OBVIOUS
      <4> HIDE DEF g
      <4> QED
        BY <3>3, <4>1
    <3> HIDE DEF Eq, g
    <3> QED
      BY <3>4
  <2> QED
    BY <2>1, <2>2
<1>3. \E f : Eq(f, Len(seqs))
  <2>1. Len(seqs) \in I
    <3> HIDE DEF I
    <3> QED BY <1>1, <1>2, SetInduction, LenProperties
  <2> HIDE DEF Eq
  <2> QED
    BY <2>1
<1> QED
  BY <1>3 DEF Flat

(* Where the parts are in their concatenation F: part i starts after       *)
(* off[i], the parts come in order, and nothing else is there.             *)
Lays(off, F, seqs, m) ==
  /\ off \in [1 .. m -> Nat]
  /\ \A i \in 1 .. m : /\ off[i] + Len(seqs[i]) <= Len(F)
                      /\ \A j \in 1 .. Len(seqs[i]) : F[off[i] + j] = seqs[i][j]
  /\ \A i, k \in 1 .. m : i < k => off[i] + Len(seqs[i]) <= off[k]
  /\ \A n \in 1 .. Len(F) : \E i \in 1 .. m : \E j \in 1 .. Len(seqs[i]) : n = off[i] + j

LEMMA Within ==
  ASSUME NEW a \in Nat, NEW b \in Nat, NEW c \in Nat, NEW d \in Nat,
         a + b <= c, NEW j \in 1 .. b
  PROVE  a + j \in 1 .. c /\ a + j \in 1 .. c + d
  OBVIOUS

LEMMA LaysMore ==
  ASSUME NEW T, NEW seqs \in Seq(Seq(T)), NEW m \in Nat, m + 1 <= Len(seqs),
         NEW F \in Seq(T), NEW off, Lays(off, F, seqs, m)
  PROVE  \E o : Lays(o, F \o seqs[m + 1], seqs, m + 1)
<1> DEFINE s == seqs[m + 1]
           G == F \o s
           o == [i \in 1 .. m + 1 |-> IF i = m + 1 THEN Len(F) ELSE off[i]]
<1>1. s \in Seq(T) /\ \A i \in 1 .. m + 1 : seqs[i] \in Seq(T) /\ Len(seqs[i]) \in Nat
  <2>1. \A i \in 1 .. m + 1 : seqs[i] \in Seq(T)
    BY LenProperties
  <2> QED
    BY <2>1, LenProperties
<1> HIDE DEF s
<1>2. /\ Len(F) \in Nat /\ Len(s) \in Nat /\ Len(G) = Len(F) + Len(s)
      /\ \A n \in 1 .. Len(F) + Len(s) : G[n] = IF n <= Len(F) THEN F[n] ELSE s[n - Len(F)]
  BY <1>1, LenProperties, ConcatProperties
<1> HIDE DEF G
<1>3. \A i \in 1 .. m + 1 : i = m + 1 \/ i \in 1 .. m
  OBVIOUS
<1>4. o[m + 1] = Len(F)
  OBVIOUS
<1>5. \A i \in 1 .. m : o[i] = off[i] /\ i \in 1 .. m + 1 /\ off[i] \in Nat
  BY DEF Lays
<1>6. o = [i \in 1 .. m + 1 |-> o[i]]
  OBVIOUS
<1> HIDE DEF o
<1>7. o \in [1 .. m + 1 -> Nat]
  BY <1>2, <1>3, <1>4, <1>5, <1>6
<1>8. ASSUME NEW i \in 1 .. m + 1
      PROVE  /\ o[i] + Len(seqs[i]) <= Len(G)
             /\ \A j \in 1 .. Len(seqs[i]) : G[o[i] + j] = seqs[i][j]
  <2>1. CASE i = m + 1
    <3>1. seqs[i] = s /\ o[i] = Len(F)
      BY <2>1, <1>4 DEF s
    <3>2. ASSUME NEW j \in 1 .. Len(s) PROVE G[Len(F) + j] = s[j]
      <4>1. /\ Len(F) + j \in 1 .. Len(F) + Len(s)
            /\ ~(Len(F) + j <= Len(F)) /\ Len(F) + j - Len(F) = j
        BY <1>2
      <4> QED
        BY <4>1, <1>2
    <3> QED
      BY <3>1, <3>2, <1>2
  <2>2. CASE i \in 1 .. m
    <3>1. off[i] + Len(seqs[i]) <= Len(F)
      BY <2>2 DEF Lays
    <3>2. ASSUME NEW j \in 1 .. Len(seqs[i]) PROVE G[o[i] + j] = seqs[i][j]
      <4>1. off[i] + j \in 1 .. Len(F) /\ off[i] + j \in 1 .. Len(F) + Len(s)
        <5>1. off[i] \in Nat /\ Len(seqs[i]) \in Nat /\ Len(F) \in Nat /\ Len(s) \in Nat
          BY <2>2, <1>1, <1>2, <1>5
        <5> QED
          BY <3>1, <5>1, Within
      <4>2. G[off[i] + j] = F[off[i] + j]
        <5>1. PICK x \in 1 .. Len(F) + Len(s) : x = off[i] + j /\ x \in 1 .. Len(F)
          BY <4>1
        <5>2. x <= Len(F)
          BY <5>1, <1>2
        <5> QED
          BY <5>1, <5>2, <1>2
      <4> QED
        BY <4>2, <2>2, <1>5 DEF Lays
    <3> QED
      BY <3>1, <3>2, <2>2, <1>1, <1>2, <1>5
  <2> QED
    BY <2>1, <2>2, <1>3
<1>9. ASSUME NEW i \in 1 .. m + 1, NEW k \in 1 .. m + 1, i < k PROVE o[i] + Len(seqs[i]) <= o[k]
  <2>1. i \in 1 .. m
    BY <1>9
  <2>2. CASE k = m + 1
    BY <2>1, <2>2, <1>4, <1>5 DEF Lays
  <2>3. CASE k \in 1 .. m
    BY <2>1, <2>3, <1>5, <1>9 DEF Lays
  <2> QED
    BY <2>2, <2>3, <1>3
<1>10. ASSUME NEW n \in 1 .. Len(G)
       PROVE  \E i \in 1 .. m + 1 : \E j \in 1 .. Len(seqs[i]) : n = o[i] + j
  <2>1. CASE n <= Len(F)
    <3>1. PICK i \in 1 .. m : \E j \in 1 .. Len(seqs[i]) : n = off[i] + j
      BY <2>1, <1>2 DEF Lays
    <3> QED
      BY <3>1, <1>5
  <2>2. CASE ~(n <= Len(F))
    <3>1. n - Len(F) \in 1 .. Len(seqs[m + 1]) /\ n = Len(F) + (n - Len(F))
      BY <2>2, <1>2 DEF s
    <3>2. m + 1 \in 1 .. m + 1
      OBVIOUS
    <3> QED
      BY <3>1, <3>2, <1>4
  <2> QED
    BY <2>1, <2>2
<1>11. Lays(o, G, seqs, m + 1)
  BY <1>7, <1>8, <1>9, <1>10 DEF Lays
<1> QED
  BY <1>11 DEF G, s

LEMMA FlattenLays ==
  ASSUME NEW T, NEW seqs \in Seq(Seq(T))
  PROVE  /\ FlattenSeq(seqs) \in Seq(T)
         /\ \E off : Lays(off, FlattenSeq(seqs), seqs, Len(seqs))
<1> DEFINE f == Flat(seqs)
           F == [m \in 0 .. Len(seqs) |-> IF m = 0 THEN <<>> ELSE f[m]]
           Good(m) == F[m] \in Seq(T) /\ \E off : Lays(off, F[m], seqs, m)
           I == {m \in Nat : m <= Len(seqs) => Good(m)}
<1>1. Len(seqs) \in Nat /\ \A i \in 1 .. Len(seqs) : seqs[i] \in Seq(T)
  BY LenProperties
<1>2. f = [i \in 1 .. Len(seqs) |-> IF i = 1 THEN seqs[i] ELSE f[i - 1] \o seqs[i]]
  BY FlatRec
<1>3. F[0] = <<>>
  BY <1>1
<1>4. ASSUME NEW m \in Nat, m + 1 <= Len(seqs), F[m] \in Seq(T)
      PROVE  F[m + 1] = F[m] \o seqs[m + 1]
  <2>1. m + 1 \in 1 .. Len(seqs) /\ m \in 0 .. Len(seqs) /\ m + 1 # 0 /\ m + 1 - 1 = m
    BY <1>1, <1>4
  <2> HIDE DEF f
  <2>2. F[m + 1] = f[m + 1]
    BY <2>1
  <2>3. CASE m = 0
    <3>1. F[m] = <<>> /\ F[m + 1] = seqs[m + 1]
      BY <2>1, <2>2, <2>3, <1>2
    <3>2. seqs[m + 1] \in Seq(T)
      BY <2>1, <1>1
    <3> HIDE DEF F
    <3> QED
      BY <3>1, <3>2
  <2>4. CASE m # 0
    <3>1. f[m + 1] = f[m] \o seqs[m + 1]
      <4>1. PICK i \in 1 .. Len(seqs) : i = m + 1 /\ i # 1 /\ i - 1 = m
        BY <2>1, <2>4
      <4>2. f[i] = f[i - 1] \o seqs[i]
        BY <4>1, <1>2
      <4> QED
        BY <4>1, <4>2
    <3>2. F[m] = f[m]
      BY <2>1, <2>4
    <3> QED
      BY <3>1, <3>2, <2>2
  <2> QED
    BY <2>3, <2>4
<1>5. FlattenSeq(seqs) = F[Len(seqs)]
  <2>1. CASE Len(seqs) = 0
    <3>1. seqs = <<>>
      BY <2>1
    <3> QED
      BY <3>1, <2>1, <1>3, FlattenIsLast
  <2>2. CASE Len(seqs) # 0
    BY <2>2, <1>1, FlattenIsLast
  <2> QED
    BY <2>1, <2>2
<1> HIDE DEF F
<1>6. 0 \in I
  <2>1. Lays(<<>>, <<>>, seqs, 0)
    BY DEF Lays
  <2>2. Good(0)
    BY <2>1, <1>3
  <2> QED
    BY <2>2
<1>7. ASSUME NEW m \in Nat, m \in I PROVE m + 1 \in I
  <2>1. CASE ~(m + 1 <= Len(seqs))
    BY <2>1
  <2>2. CASE m + 1 <= Len(seqs)
    <3>1. Good(m)
      <4>1. m <= Len(seqs)
        BY <2>2, <1>1
      <4> HIDE DEF Good
      <4> QED BY <1>7, <4>1
    <3>2. F[m + 1] = F[m] \o seqs[m + 1] /\ seqs[m + 1] \in Seq(T)
      <4>1. m + 1 \in 1 .. Len(seqs)
        BY <2>2, <1>1
      <4> QED
        BY <4>1, <2>2, <3>1, <1>1, <1>4
    <3>3. \E off : Lays(off, F[m + 1], seqs, m + 1)
      BY <2>2, <3>1, <3>2, LaysMore
    <3>4. F[m + 1] \in Seq(T)
      BY <3>1, <3>2
    <3>5. Good(m + 1)
      BY <3>3, <3>4
    <3> HIDE DEF Good
    <3> QED
      BY <3>5
  <2> QED
    BY <2>1, <2>2
<1>8. Good(Len(seqs))
  <2>1. Len(seqs) \in I
    <3> HIDE DEF I
    <3> QED BY <1>1, <1>6, <1>7, SetInduction
  <2> HIDE DEF Good
  <2> QED
    BY <2>1, <1>1
<1> QED
  BY <1>5, <1>8

-----------------------------------------------------------------------------
(* What can be reached in n steps along succ *)

Nears(w, N, succ, S) ==
  w = [n \in 0 .. N |->
         IF n = 0 THEN S
         ELSE LET closer == w[n - 1] IN closer \cup UNION {succ[t] : t \in closer}]
Widens(w, N, succ, S) ==
  /\ w[0] = S
  /\ \A n \in 0 .. N : n # 0 => w[n] = w[n - 1] \cup UNION {succ[t] : t \in w[n - 1]}
Near(N, succ, S) == CHOOSE w : Nears(w, N, succ, S)
ClosedUnder(succ, C) == \A t \in C : succ[t] \subseteq C

LEMMA NearRec ==
  ASSUME NEW N \in Nat, NEW succ, NEW S
  PROVE  Widens(Near(N, succ, S), N, succ, S)
<1> DEFINE step(c) == c \cup UNION {succ[t] : t \in c}
           Eq(w, m) == w = [n \in 0 .. m |-> IF n = 0 THEN S ELSE step(w[n - 1])]
           I == {m \in Nat : \E w : Eq(w, m)}
<1> HIDE DEF step
<1>1. 0 \in I
  <2>1. Eq([n \in 0 .. 0 |-> S], 0)
    OBVIOUS
  <2> HIDE DEF Eq
  <2> QED
    BY <2>1
<1>2. ASSUME NEW m \in Nat, m \in I PROVE m + 1 \in I
  <2>1. PICK w : Eq(w, m)
    BY <1>2
  <2>2. PICK v : v = [n \in 0 .. m + 1 |-> IF n = 0 THEN S ELSE step(w[n - 1])]
    OBVIOUS
  <2>3. ASSUME NEW n \in 0 .. m PROVE v[n] = w[n]
    BY <2>1, <2>2
  <2>4. ASSUME NEW n \in 0 .. m + 1 PROVE v[n] = IF n = 0 THEN S ELSE step(v[n - 1])
    <3>1. CASE n = 0
      BY <2>2, <3>1
    <3>2. CASE n # 0
      <4>1. n - 1 \in 0 .. m
        BY <3>2
      <4>2. v[n] = step(w[n - 1])
        BY <2>2, <3>2
      <4>3. v[n - 1] = w[n - 1]
        BY <2>3, <4>1
      <4> QED
        BY <3>2, <4>2, <4>3
    <3> QED
      BY <3>1, <3>2
  <2>5. Eq(v, m + 1)
    <3>1. v = [n \in 0 .. m + 1 |-> v[n]]
      BY <2>2
    <3> QED
      BY <2>4, <3>1
  <2> HIDE DEF Eq
  <2> QED
    BY <2>5
<1>3. N \in I
  <2> HIDE DEF I
  <2> QED BY <1>1, <1>2, SetInduction
<1>4. \E w : Nears(w, N, succ, S)
  BY <1>3 DEF Nears, step
<1>5. PICK w : w = Near(N, succ, S)
  OBVIOUS
<1>6. Nears(w, N, succ, S)
  BY <1>4, <1>5 DEF Near
<1>7. Widens(w, N, succ, S)
  <2>1. w = [n \in 0 .. N |-> IF n = 0 THEN S ELSE step(w[n - 1])]
    BY <1>6 DEF Nears, step
  <2>2. w[0] = S
    BY <2>1
  <2>3. ASSUME NEW n \in 0 .. N, n # 0
        PROVE  w[n] = w[n - 1] \cup UNION {succ[t] : t \in w[n - 1]}
    <3>1. w[n] = step(w[n - 1])
      BY <2>1, <2>3
    <3> QED
      BY <3>1 DEF step
  <2> QED
    BY <2>2, <2>3 DEF Widens
<1> QED
  BY <1>5, <1>7

(* What is near after as many steps as there are types is closed: every    *)
(* step before the first that adds nothing added a type.                   *)
LEMMA NearCloses ==
  ASSUME NEW N \in Nat, NEW succ \in [1 .. N -> SUBSET (1 .. N)], NEW S \in SUBSET (1 .. N)
  PROVE  /\ \A n \in 0 .. N :
              Near(N, succ, S)[n] \in SUBSET (1 .. N) /\ S \subseteq Near(N, succ, S)[n]
         /\ ClosedUnder(succ, Near(N, succ, S)[N])
         /\ \A C \in SUBSET (1 .. N) : S \subseteq C /\ ClosedUnder(succ, C)
              => Near(N, succ, S)[N] \subseteq C
<1>1. PICK w : w = Near(N, succ, S)
  OBVIOUS
<1>2. w[0] = S /\ \A n \in 0 .. N : n # 0 => w[n] = w[n - 1] \cup UNION {succ[t] : t \in w[n - 1]}
  <2>1. Widens(w, N, succ, S)
    BY <1>1, NearRec
  <2> QED
    BY <2>1 DEF Widens
<1> DEFINE Big(n) == ClosedUnder(succ, w[n]) \/ Cardinality(w[n]) >= n + 1
           Good(n) == w[n] \in SUBSET (1 .. N) /\ S \subseteq w[n] /\ Big(n)
           Inside(n) == \A C \in SUBSET (1 .. N) :
                          S \subseteq C /\ ClosedUnder(succ, C) => w[n] \subseteq C
           I == {n \in Nat : n <= N => Good(n) /\ Inside(n)}
<1>3. \A X \in SUBSET (1 .. N) : IsFiniteSet(X) /\ Cardinality(X) \in Nat
  <2>1. IsFiniteSet(1 .. N)
    BY FS_Interval
  <2> QED
    BY <2>1, FS_Subset, FS_CardinalityType
<1>4. 0 \in I
  <2>1. Big(0)
    <3>1. CASE S = {}
      BY <1>2, <3>1 DEF ClosedUnder
    <3>2. CASE S # {}
      <4>1. Cardinality(S) # 0
        BY <1>3, <3>2, FS_EmptySet
      <4> QED
        BY <1>2, <1>3, <4>1
    <3> QED
      BY <3>1, <3>2
  <2> HIDE DEF Big
  <2> QED
    BY <1>2, <2>1
<1>5. ASSUME NEW n \in Nat, n \in I PROVE n + 1 \in I
  <2> SUFFICES ASSUME n + 1 <= N PROVE Good(n + 1) /\ Inside(n + 1)
    <3> HIDE DEF Good, Inside
    <3> QED OBVIOUS
  <2>1. Good(n) /\ Inside(n)
    <3> HIDE DEF Good, Inside
    <3> QED BY <1>5
  <2>2. w[n + 1] = w[n] \cup UNION {succ[t] : t \in w[n]}
    <3>1. n + 1 \in 0 .. N /\ n + 1 # 0 /\ n + 1 - 1 = n
      OBVIOUS
    <3> QED
      BY <1>2, <3>1
  <2>3. w[n + 1] \in SUBSET (1 .. N) /\ S \subseteq w[n + 1]
    BY <2>1, <2>2
  <2>4. Inside(n + 1)
    BY <2>1, <2>2 DEF ClosedUnder
  <2>5. Big(n + 1)
    <3>1. CASE ClosedUnder(succ, w[n])
      <4>1. w[n + 1] = w[n]
        BY <2>2, <3>1 DEF ClosedUnder
      <4> QED
        BY <3>1, <4>1
    <3>2. CASE ~ClosedUnder(succ, w[n]) /\ Cardinality(w[n]) >= n + 1
      <4>1. w[n] \subseteq w[n + 1] /\ w[n + 1] # w[n]
        BY <2>2, <3>2 DEF ClosedUnder
      <4>2. IsFiniteSet(w[n + 1])
        BY <1>3, <2>3
      <4>3. Cardinality(w[n]) \in Nat /\ Cardinality(w[n + 1]) \in Nat
        BY <1>3, <2>1, <2>3
      <4>4. Cardinality(w[n]) <= Cardinality(w[n + 1]) /\ Cardinality(w[n]) # Cardinality(w[n + 1])
        BY <4>1, <4>2, FS_Subset
      <4> QED
        BY <3>2, <4>3, <4>4
    <3> QED
      BY <2>1, <3>1, <3>2
  <2> HIDE DEF Big, Inside
  <2> QED
    BY <2>3, <2>4, <2>5
<1>6. \A n \in Nat : n \in I
  <2> HIDE DEF I
  <2> QED BY <1>4, <1>5, SetInduction
<1>7. \A n \in 0 .. N : Good(n) /\ Inside(n)
  <2> HIDE DEF Good, Inside
  <2> QED BY <1>6
<1>8. ClosedUnder(succ, w[N])
  <2>1. Good(N)
    <3> HIDE DEF Good
    <3> QED BY <1>7
  <2>2. Cardinality(w[N]) <= N
    <3>1. IsFiniteSet(1 .. N) /\ Cardinality(1 .. N) = N
      BY FS_Interval
    <3> QED
      BY <2>1, <3>1, FS_Subset
  <2>3. Cardinality(w[N]) \in Nat
    BY <1>3, <2>1
  <2> QED
    BY <2>1, <2>2, <2>3
<1>9. N \in 0 .. N
  OBVIOUS
<1>10. \A n \in 0 .. N : w[n] \in SUBSET (1 .. N) /\ S \subseteq w[n]
  BY <1>7
<1>11. Inside(N)
  <2> HIDE DEF Good, Inside
  <2> QED BY <1>7, <1>9
<1> HIDE DEF Inside, Good, Big, I
<1> QED
  BY <1>1, <1>8, <1>10, <1>11 DEF Inside
=============================================================================
