--------------------------- MODULE RunCheckProofs ---------------------------
(***************************************************************************)
(* Proofs about RunCheck: what the lines on stdout, the buffers that were  *)
(* read from them, the verdicts and the blame have to do with each other,  *)
(* for every program, however its process ends.                            *)
(*                                                                         *)
(* At any moment the reader is somewhere in the output: the lines before a *)
(* point q of the program's order of reports are read, the lines after it  *)
(* are on stdout still (Rest), or were lost at the end.  The buffers hold  *)
(* what the lines up to q reported (Filled).  All properties follow from   *)
(* this and from what the code does when stdout is empty.                  *)
(***************************************************************************)
EXTENDS RunCheck, DataLemmas

-----------------------------------------------------------------------------
(* Before: the values of a function, argument by argument *)

Upto(f) == CHOOSE u : u = [n \in 0 .. Len(Args(f)) |-> IF n = 0 THEN 0 ELSE u[n - 1] + Args(f)[n]]

LEMMA BeforeIs == \A f, a : Before(f, a) = Upto(f)[a - 1]
  BY DEF Before, Upto

LEMMA FuncType ==
  ASSUME NEW f \in Funcs
  PROVE  /\ Args(f) \in Seq(Nat) /\ Len(Args(f)) \in Nat /\ DOMAIN Args(f) = 1 .. Len(Args(f))
         /\ Inputs(f) \in 0 .. Len(Args(f))
         /\ \A a \in DOMAIN Args(f) : Args(f)[a] \in Nat
  BY ArgsAssumption, LenProperties

LEMMA UptoRec ==
  ASSUME NEW f \in Funcs
  PROVE  /\ Upto(f)[0] = 0
         /\ \A n \in 1 .. Len(Args(f)) : Upto(f)[n] = Upto(f)[n - 1] + Args(f)[n]
<1> DEFINE A == Args(f)
           Eq(u, n) == u = [i \in 0 .. n |-> IF i = 0 THEN 0 ELSE u[i - 1] + A[i]]
           I == {n \in Nat : n <= Len(A) => \E u : Eq(u, n)}
<1>l. Len(A) \in Nat
  BY FuncType
<1> HIDE DEF A
<1>1. 0 \in I
  <2>1. Eq([i \in 0 .. 0 |-> 0], 0)
    OBVIOUS
  <2> HIDE DEF Eq
  <2> QED
    BY <2>1
<1>2. ASSUME NEW n \in Nat, n \in I PROVE n + 1 \in I
  <2>1. CASE ~(n + 1 <= Len(A))
    <3> HIDE DEF Eq
    <3> QED BY <2>1
  <2>2. CASE n + 1 <= Len(A)
    <3>1. n <= Len(A)
      BY <2>2, <1>l
    <3>2. PICK u : Eq(u, n)
      <4> HIDE DEF Eq
      <4> QED BY <1>2, <3>1
    <3> DEFINE w == [i \in 0 .. n + 1 |-> IF i = n + 1 THEN u[n] + A[i] ELSE u[i]]
    <3>3. ASSUME NEW i \in 0 .. n + 1 PROVE w[i] = IF i = 0 THEN 0 ELSE w[i - 1] + A[i]
      <4>1. CASE i = n + 1
        BY <4>1
      <4>2. CASE i = 0
        BY <4>2, <3>2
      <4>3. CASE i \in 1 .. n
        <5>1. i \in 0 .. n /\ i - 1 \in 0 .. n /\ i # 0 /\ i # n + 1 /\ i - 1 # n + 1
          BY <4>3
        <5>2. w[i] = u[i] /\ w[i - 1] = u[i - 1]
          BY <5>1
        <5>3. u[i] = u[i - 1] + A[i]
          BY <5>1, <3>2
        <5> QED
          BY <5>1, <5>2, <5>3
      <4> QED
        BY <4>1, <4>2, <4>3
    <3>4. Eq(w, n + 1)
      <4>1. w = [i \in 0 .. n + 1 |-> w[i]]
        OBVIOUS
      <4> HIDE DEF w
      <4> QED
        BY <3>3, <4>1
    <3> HIDE DEF Eq, w
    <3> QED
      BY <3>4
  <2> QED
    BY <2>1, <2>2
<1>3. \E u : Eq(u, Len(A))
  <2>1. Len(A) \in I
    <3> HIDE DEF I
    <3> QED BY <1>1, <1>2, <1>l, SetInduction
  <2> HIDE DEF Eq
  <2> QED
    BY <2>1
<1>4. Eq(Upto(f), Len(A))
  BY <1>3 DEF Upto, A
<1>5. \A n \in 0 .. Len(A) : Upto(f)[n] = IF n = 0 THEN 0 ELSE Upto(f)[n - 1] + A[n]
  BY <1>4
<1> QED
  BY <1>5, <1>l DEF A

LEMMA UptoType ==
  ASSUME NEW f \in Funcs, NEW n \in 0 .. Len(Args(f))
  PROVE  Upto(f)[n] \in Nat
<1> DEFINE I == {m \in Nat : m <= Len(Args(f)) => Upto(f)[m] \in Nat}
<1>1. 0 \in I
  BY UptoRec
<1>2. ASSUME NEW m \in Nat, m \in I PROVE m + 1 \in I
  <2>1. SUFFICES ASSUME m + 1 <= Len(Args(f)) PROVE Upto(f)[m + 1] \in Nat
    OBVIOUS
  <2>2. Upto(f)[m] \in Nat
    BY <1>2, <2>1, FuncType
  <2>3. PICK k \in 1 .. Len(Args(f)) : k = m + 1 /\ k - 1 = m
    BY <2>1, FuncType
  <2>4. Upto(f)[k] = Upto(f)[k - 1] + Args(f)[k] /\ Args(f)[k] \in Nat
    BY UptoRec, FuncType
  <2> QED
    BY <2>2, <2>3, <2>4
<1>3. n \in I
  <2> HIDE DEF I
  <2>1. n \in Nat
    BY FuncType
  <2> QED BY <2>1, <1>1, <1>2, SetInduction
<1> QED
  BY <1>3, FuncType

(* The values of an argument come after those of the arguments before it.  *)
LEMMA UptoGrows ==
  ASSUME NEW f \in Funcs, NEW m \in 0 .. Len(Args(f)), NEW n \in 0 .. Len(Args(f)), m <= n
  PROVE  Upto(f)[m] <= Upto(f)[n]
<1> DEFINE I == {d \in Nat : m + d <= Len(Args(f)) => Upto(f)[m] <= Upto(f)[m + d]}
<1>1. 0 \in I
  BY UptoType, FuncType
<1>2. ASSUME NEW d \in Nat, d \in I PROVE d + 1 \in I
  <2>1. SUFFICES ASSUME m + (d + 1) <= Len(Args(f)) PROVE Upto(f)[m] <= Upto(f)[m + (d + 1)]
    OBVIOUS
  <2>2. Upto(f)[m] <= Upto(f)[m + d]
    BY <1>2, <2>1, FuncType
  <2>3. PICK k \in 1 .. Len(Args(f)) : k = m + (d + 1) /\ k - 1 = m + d /\ k - 1 \in 0 .. Len(Args(f))
    BY <2>1, FuncType
  <2>4. Upto(f)[k] = Upto(f)[k - 1] + Args(f)[k] /\ Args(f)[k] \in Nat
    BY UptoRec, FuncType
  <2>5. Upto(f)[m] \in Nat /\ Upto(f)[k - 1] \in Nat
    BY <2>3, UptoType
  <2> QED
    BY <2>2, <2>3, <2>4, <2>5
<1>3. n - m \in I
  <2> HIDE DEF I
  <2>1. n - m \in Nat
    BY FuncType
  <2> QED
    BY <2>1, <1>1, <1>2, SetInduction
<1>4. m + (n - m) = n /\ n <= Len(Args(f))
  BY FuncType
<1> QED
  BY <1>3, <1>4

LEMMA ValsOfIs ==
  ASSUME NEW f \in Funcs, NEW a \in DOMAIN Args(f)
  PROVE  /\ Before(f, a) \in Nat
         /\ \A v : v \in ValsOf(f, a) <=> \E n \in 0 .. Args(f)[a] - 1 : v = Before(f, a) + n
         /\ \A v \in ValsOf(f, a) : v \in Nat /\ Upto(f)[a - 1] <= v /\ v < Upto(f)[a]
<1>1. a \in 1 .. Len(Args(f)) /\ a - 1 \in 0 .. Len(Args(f)) /\ Args(f)[a] \in Nat
  BY FuncType
<1>2. Upto(f)[a - 1] \in Nat /\ Upto(f)[a] = Upto(f)[a - 1] + Args(f)[a]
  BY <1>1, UptoType, UptoRec
<1>3. Before(f, a) = Upto(f)[a - 1]
  BY BeforeIs
<1>4. \A v : v \in ValsOf(f, a) <=> \E n \in 0 .. Args(f)[a] - 1 : v = Before(f, a) + n
  BY DEF ValsOf
<1> QED
  BY <1>1, <1>2, <1>3, <1>4

(* No two arguments share a value. *)
LEMMA ValsOfApart ==
  ASSUME NEW f \in Funcs, NEW a \in DOMAIN Args(f), NEW b \in DOMAIN Args(f),
         NEW v \in ValsOf(f, a), v \in ValsOf(f, b)
  PROVE  a = b
<1>1. ASSUME NEW x \in DOMAIN Args(f), NEW y \in DOMAIN Args(f),
             v \in ValsOf(f, x), v \in ValsOf(f, y), x < y
      PROVE  FALSE
  <2>1. v \in Nat /\ v < Upto(f)[x] /\ Upto(f)[y - 1] <= v
    BY <1>1, ValsOfIs
  <2>2. x \in 0 .. Len(Args(f)) /\ y - 1 \in 0 .. Len(Args(f)) /\ x <= y - 1
    BY <1>1, FuncType, SMTT(30)
  <2>3. Upto(f)[x] <= Upto(f)[y - 1] /\ Upto(f)[x] \in Nat /\ Upto(f)[y - 1] \in Nat
    BY <2>2, UptoGrows, UptoType
  <2> QED
    BY <2>1, <2>3
<1>2. a \in Int /\ b \in Int
  BY FuncType
<1>3. ~(a < b) /\ ~(b < a)
  BY <1>1
<1> QED
  BY <1>2, <1>3

LEMMA ValsType ==
  ASSUME NEW f \in Funcs
  PROVE  Vals(f) \subseteq Nat
  BY ValsOfIs DEF Vals

-----------------------------------------------------------------------------
(* The lines of a call *)

Line == [info : {"func"}, id : Sides, func : Funcs]
        \cup [info : {"val"}, id : Sides, func : Funcs, val : Nat]
        \cup [info : {"done"}]

ArgLine(s, f, a) == [n \in 1 .. Args(f)[a] |-> ValLine(s, f, Before(f, a) + n - 1)]

LEMMA ArgLineIs ==
  ASSUME NEW s \in Sides, NEW f \in Funcs, NEW a \in DOMAIN Args(f)
  PROVE  /\ ArgLine(s, f, a) \in Seq(Line) /\ Len(ArgLine(s, f, a)) = Args(f)[a]
         /\ \A n \in 1 .. Args(f)[a] :
              /\ ArgLine(s, f, a)[n] = ValLine(s, f, Before(f, a) + n - 1)
              /\ Before(f, a) + n - 1 \in ValsOf(f, a)
         /\ \A v \in ValsOf(f, a) : \E n \in 1 .. Args(f)[a] : v = Before(f, a) + n - 1
<1>1. Args(f)[a] \in Nat /\ Before(f, a) \in Nat
  BY FuncType, ValsOfIs
<1>2. ASSUME NEW n \in 1 .. Args(f)[a]
      PROVE  /\ ValLine(s, f, Before(f, a) + n - 1) \in Line
             /\ Before(f, a) + n - 1 \in ValsOf(f, a)
  <2>1. Before(f, a) + n - 1 \in Nat
    BY <1>1
  <2>2. n - 1 \in 0 .. Args(f)[a] - 1 /\ Before(f, a) + n - 1 = Before(f, a) + (n - 1)
    BY <1>1
  <2> QED
    BY <2>1, <2>2, ValsOfIs DEF ValLine, Line
<1>3. ArgLine(s, f, a) \in [1 .. Args(f)[a] -> Line]
  BY <1>2 DEF ArgLine
<1>4. ArgLine(s, f, a) \in Seq(Line) /\ Len(ArgLine(s, f, a)) = Args(f)[a]
  <2>1. ArgLine(s, f, a) \in Seq(Line)
    BY <1>1, <1>3, SeqDef
  <2> QED
    BY <1>1, <1>3, <2>1, LenProperties
<1>5. ASSUME NEW v \in ValsOf(f, a) PROVE \E n \in 1 .. Args(f)[a] : v = Before(f, a) + n - 1
  <2>1. PICK n \in 0 .. Args(f)[a] - 1 : v = Before(f, a) + n
    BY ValsOfIs
  <2>2. n + 1 \in 1 .. Args(f)[a] /\ v = Before(f, a) + (n + 1) - 1
    BY <1>1, <2>1
  <2> QED
    BY <2>2
<1> QED
  BY <1>2, <1>4, <1>5 DEF ArgLine

(* What the lines L of side s for the arguments args are: the values of    *)
(* these arguments, each once.                                             *)
Covers(L, s, f, args) ==
  /\ L \in Seq(Line)
  /\ \A n \in 1 .. Len(L) : \E i \in DOMAIN args : \E v \in ValsOf(f, args[i]) : L[n] = ValLine(s, f, v)
  /\ \A i \in DOMAIN args : \A v \in ValsOf(f, args[i]) : \E n \in 1 .. Len(L) : L[n] = ValLine(s, f, v)
  /\ \A m, n \in 1 .. Len(L) : L[m] = L[n] => m = n

LEMMA ArgLinesCover ==
  ASSUME NEW s \in Sides, NEW f \in Funcs, NEW args \in Seq(DOMAIN Args(f)),
         \A i, k \in DOMAIN args : args[i] = args[k] => i = k
  PROVE  Covers(ArgLines(s, f, args), s, f, args)
<1> DEFINE seqs == [i \in DOMAIN args |-> ArgLine(s, f, args[i])]
           L == ArgLines(s, f, args)
<1>1. L = FlattenSeq(seqs)
  BY DEF ArgLines, ArgLine
<1>2. Len(args) \in Nat /\ DOMAIN args = 1 .. Len(args) /\ \A i \in DOMAIN args : args[i] \in DOMAIN Args(f)
  BY LenProperties
<1>3. seqs \in Seq(Seq(Line)) /\ Len(seqs) = Len(args)
  <2>1. seqs \in [1 .. Len(args) -> Seq(Line)]
    BY <1>2, ArgLineIs
  <2> HIDE DEF seqs
  <2>2. seqs \in Seq(Seq(Line))
    BY <1>2, <2>1, SeqDef
  <2> QED
    BY <1>2, <2>1, <2>2, LenProperties
<1>4. \A i \in 1 .. Len(args) : seqs[i] = ArgLine(s, f, args[i]) /\ Len(seqs[i]) = Args(f)[args[i]]
  BY <1>2, ArgLineIs
<1> HIDE DEF seqs, L
<1>5. L \in Seq(Line) /\ \E off : Lays(off, L, seqs, Len(args))
  BY <1>1, <1>3, FlattenLays
<1>6. PICK off : Lays(off, L, seqs, Len(args))
  BY <1>5
<1>7. \A n \in 1 .. Len(L) : \E i \in 1 .. Len(args) : \E j \in 1 .. Args(f)[args[i]] :
        n = off[i] + j /\ L[n] = ValLine(s, f, Before(f, args[i]) + j - 1)
  <2> TAKE n \in 1 .. Len(L)
  <2>0. PICK i \in 1 .. Len(args) : \E j \in 1 .. Len(seqs[i]) : n = off[i] + j
    BY <1>6 DEF Lays
  <2>1. PICK j \in 1 .. Len(seqs[i]) : n = off[i] + j
    BY <2>0
  <2>2. L[n] = seqs[i][j]
    BY <1>6, <2>1 DEF Lays
  <2>3. j \in 1 .. Args(f)[args[i]]
    BY <2>1, <1>4
  <2>4. seqs[i][j] = ValLine(s, f, Before(f, args[i]) + j - 1)
    BY <2>3, <1>2, <1>4, ArgLineIs
  <2> QED
    BY <2>1, <2>2, <2>3, <2>4
<1>8. ASSUME NEW n \in 1 .. Len(L)
      PROVE  \E i \in DOMAIN args : \E v \in ValsOf(f, args[i]) : L[n] = ValLine(s, f, v)
  <2>1. PICK i \in 1 .. Len(args) : \E j \in 1 .. Args(f)[args[i]] :
          L[n] = ValLine(s, f, Before(f, args[i]) + j - 1)
    BY <1>7
  <2>2. PICK j \in 1 .. Args(f)[args[i]] : L[n] = ValLine(s, f, Before(f, args[i]) + j - 1)
    BY <2>1
  <2>3. Before(f, args[i]) + j - 1 \in ValsOf(f, args[i])
    BY <2>2, <1>2, ArgLineIs
  <2> QED
    BY <2>2, <2>3, <1>2
<1>9. ASSUME NEW i \in DOMAIN args, NEW v \in ValsOf(f, args[i])
      PROVE  \E n \in 1 .. Len(L) : L[n] = ValLine(s, f, v)
  <2>1. PICK j \in 1 .. Args(f)[args[i]] : v = Before(f, args[i]) + j - 1
    BY <1>2, ArgLineIs
  <2>2. L[off[i] + j] = seqs[i][j] /\ off[i] + Len(seqs[i]) <= Len(L) /\ off[i] \in Nat
    BY <2>1, <1>2, <1>4, <1>6 DEF Lays
  <2>3. seqs[i][j] = ValLine(s, f, v)
    BY <2>1, <1>2, <1>4, ArgLineIs
  <2>4. off[i] + j \in 1 .. Len(L)
    <3>1. Len(L) \in Nat /\ Len(seqs[i]) \in Nat /\ j \in 1 .. Len(seqs[i])
      BY <2>1, <1>2, <1>4, <1>5, LenProperties, FuncType, SMTT(30)
    <3> QED
      BY <3>1, <2>2
  <2> QED
    BY <2>2, <2>3, <2>4
<1>10. ASSUME NEW m \in 1 .. Len(L), NEW n \in 1 .. Len(L), L[m] = L[n] PROVE m = n
  <2>i. PICK i \in 1 .. Len(args) : \E j \in 1 .. Args(f)[args[i]] :
          m = off[i] + j /\ L[m] = ValLine(s, f, Before(f, args[i]) + j - 1)
    BY <1>7
  <2>k. PICK k \in 1 .. Len(args) : \E l \in 1 .. Args(f)[args[k]] :
          n = off[k] + l /\ L[n] = ValLine(s, f, Before(f, args[k]) + l - 1)
    BY <1>7
  <2>1. PICK j \in 1 .. Args(f)[args[i]] :
          m = off[i] + j /\ L[m] = ValLine(s, f, Before(f, args[i]) + j - 1)
    BY <2>i
  <2>2. PICK l \in 1 .. Args(f)[args[k]] :
          n = off[k] + l /\ L[n] = ValLine(s, f, Before(f, args[k]) + l - 1)
    BY <2>k
  <2>3. Before(f, args[i]) + j - 1 = Before(f, args[k]) + l - 1
    BY <2>1, <2>2, <1>10 DEF ValLine
  <2>4. args[i] = args[k]
    <3>1. Before(f, args[i]) + j - 1 \in ValsOf(f, args[i])
      BY <2>1, <1>2, ArgLineIs
    <3>2. Before(f, args[k]) + l - 1 \in ValsOf(f, args[k])
      BY <2>2, <1>2, ArgLineIs
    <3> QED
      BY <3>1, <3>2, <2>3, <1>2, ValsOfApart
  <2>5. i = k
    BY <2>4, <1>2
  <2>6. Before(f, args[i]) \in Nat /\ Args(f)[args[i]] \in Nat
    BY <1>2, ValsOfIs, FuncType
  <2>7. j = l
    BY <2>3, <2>5, <2>6
  <2> QED
    BY <2>1, <2>2, <2>5, <2>7
<1> QED
  BY <1>5, <1>8, <1>9, <1>10 DEF Covers, L

Ins(f)  == [a \in 1 .. Inputs(f) |-> a]
Outs(f) == [a \in 1 .. Len(Args(f)) - Inputs(f) |-> Inputs(f) + a]

(* Ins(f) and Outs(f) are the arguments, each once. *)
LEMMA InsOuts ==
  ASSUME NEW f \in Funcs
  PROVE  /\ Ins(f) \in Seq(DOMAIN Args(f)) /\ Outs(f) \in Seq(DOMAIN Args(f))
         /\ Ins(f) \o Outs(f) \in Seq(DOMAIN Args(f))
         /\ DOMAIN Ins(f) = 1 .. Inputs(f) /\ \A i \in DOMAIN Ins(f) : Ins(f)[i] = i
         /\ DOMAIN Outs(f) = 1 .. Len(Args(f)) - Inputs(f)
         /\ \A i \in DOMAIN Outs(f) : Outs(f)[i] = Inputs(f) + i
         /\ DOMAIN (Ins(f) \o Outs(f)) = DOMAIN Args(f)
         /\ \A i \in DOMAIN Args(f) : (Ins(f) \o Outs(f))[i] = i
<1> DEFINE n == Len(Args(f))
           p == Inputs(f)
           D == DOMAIN Args(f)
<1>1. n \in Nat /\ p \in 0 .. n /\ D = 1 .. n
  BY FuncType
<1>2. /\ DOMAIN Ins(f) = 1 .. p /\ \A i \in 1 .. p : Ins(f)[i] = i
      /\ DOMAIN Outs(f) = 1 .. n - p /\ \A i \in 1 .. n - p : Outs(f)[i] = p + i
  BY DEF Ins, Outs
<1>3. Ins(f) \in [1 .. p -> D] /\ Outs(f) \in [1 .. n - p -> D]
  BY <1>1 DEF Ins, Outs
<1> HIDE DEF n, p, D
<1>4. p \in Nat /\ n - p \in Nat
  BY <1>1
<1>5. Ins(f) \in Seq(D) /\ Outs(f) \in Seq(D)
  BY <1>3, <1>4, SeqDef
<1>6. Len(Ins(f)) = p /\ Len(Outs(f)) = n - p
  BY <1>2, <1>4, <1>5, LenProperties
<1>7. /\ Ins(f) \o Outs(f) \in Seq(D) /\ Len(Ins(f) \o Outs(f)) = p + (n - p)
      /\ \A i \in 1 .. p + (n - p) :
           (Ins(f) \o Outs(f))[i] = IF i <= p THEN Ins(f)[i] ELSE Outs(f)[i - p]
  <2>1. /\ Ins(f) \o Outs(f) \in Seq(D) /\ Len(Ins(f) \o Outs(f)) = Len(Ins(f)) + Len(Outs(f))
        /\ \A i \in 1 .. Len(Ins(f)) + Len(Outs(f)) :
             (Ins(f) \o Outs(f))[i] = IF i <= Len(Ins(f)) THEN Ins(f)[i] ELSE Outs(f)[i - Len(Ins(f))]
    BY <1>5, ConcatProperties
  <2> QED
    BY <1>6, <2>1
<1>8. p + (n - p) = n
  BY <1>1, <1>4
<1>9. DOMAIN (Ins(f) \o Outs(f)) = 1 .. n
  BY <1>7, <1>8, LenProperties
<1>10. ASSUME NEW i \in 1 .. n PROVE (Ins(f) \o Outs(f))[i] = i
  <2>1. CASE i <= p
    BY <2>1, <1>1, <1>2, <1>7, <1>8
  <2>2. CASE ~(i <= p)
    <3>1. i - p \in 1 .. n - p /\ p + (i - p) = i
      BY <2>2, <1>1
    <3> QED
      BY <3>1, <2>2, <1>2, <1>7, <1>8
  <2> QED
    BY <2>1, <2>2
<1> QED
  BY <1>1, <1>2, <1>5, <1>7, <1>9, <1>10 DEF n, p, D

(* One after another: where a line of a concatenation comes from.          *)
LEMMA ConcatAt ==
  ASSUME NEW T, NEW s \in Seq(T), NEW t \in Seq(T)
  PROVE  /\ s \o t \in Seq(T) /\ Len(s \o t) = Len(s) + Len(t) /\ Len(s) \in Nat /\ Len(t) \in Nat
         /\ \A n \in 1 .. Len(s) : (s \o t)[n] = s[n]
         /\ \A n \in 1 .. Len(t) : (s \o t)[Len(s) + n] = t[n]
         /\ \A n \in 1 .. Len(s) + Len(t) :
              n \in 1 .. Len(s) \/ \E k \in 1 .. Len(t) : n = Len(s) + k
<1>1. Len(s) \in Nat /\ Len(t) \in Nat
  BY LenProperties
<1>2. /\ s \o t \in Seq(T) /\ Len(s \o t) = Len(s) + Len(t)
      /\ \A n \in 1 .. Len(s) + Len(t) : (s \o t)[n] = IF n <= Len(s) THEN s[n] ELSE t[n - Len(s)]
  BY ConcatProperties
<1>3. ASSUME NEW n \in 1 .. Len(s) + Len(t), ~(n \in 1 .. Len(s))
      PROVE  \E k \in 1 .. Len(t) : n = Len(s) + k
  <2>1. n - Len(s) \in 1 .. Len(t) /\ n = Len(s) + (n - Len(s))
    BY <1>1, <1>3
  <2> QED
    BY <2>1
<1>4. ASSUME NEW n \in 1 .. Len(t) PROVE (s \o t)[Len(s) + n] = t[n]
  BY <1>1, <1>2
<1>5. ASSUME NEW n \in 1 .. Len(s) PROVE (s \o t)[n] = s[n]
  BY <1>1, <1>2
<1> QED
  BY <1>1, <1>2, <1>3, <1>4, <1>5

(* The call of f: what its lines C are.                                    *)
IsVal(l)      == l.info = "val"
IsFunc(l, s)  == l.info = "func" /\ l.id = s
Call(C, f) ==
  /\ C \in Seq(Line)
  (* every line is of f *)
  /\ \A n \in 1 .. Len(C) :
       \/ \E s \in Sides : C[n] = FuncLine(s, f)
       \/ \E s \in Sides : \E v \in Vals(f) : C[n] = ValLine(s, f, v)
  (* a side announces f before it reports its values *)
  /\ \A n \in 1 .. Len(C) : \A s \in Sides : IsVal(C[n]) /\ C[n].id = s =>
       \E m \in 1 .. Len(C) : m < n /\ C[m] = FuncLine(s, f)
  (* each once *)
  /\ \A m, n \in 1 .. Len(C) : IsVal(C[m]) /\ C[m] = C[n] => m = n
  (* and all of them *)
  /\ \A s \in Sides : \A v \in Vals(f) : \E n \in 1 .. Len(C) : C[n] = ValLine(s, f, v)

LEMMA CallIs ==
  ASSUME NEW f \in Funcs
  PROVE  Call(CallLines(f), f)
<1> DEFINE C == CallLines(f)
           A == ArgLines("caller", f, Ins(f))
           B == ArgLines("callee", f, Ins(f) \o Outs(f))
           D == ArgLines("caller", f, Outs(f))
           X == FuncLine("caller", f)
           Y == FuncLine("callee", f)
           a == Len(A)
           b == Len(B)
           d == Len(D)
<1>1. C = (((<<X>> \o A) \o <<Y>>) \o B) \o D
  BY DEF CallLines, Ins, Outs
<1>2. Covers(A, "caller", f, Ins(f)) /\ Covers(B, "callee", f, Ins(f) \o Outs(f)) /\ Covers(D, "caller", f, Outs(f))
  <2>1. \A i, k \in DOMAIN Outs(f) : Outs(f)[i] = Outs(f)[k] => i = k
    BY InsOuts, FuncType
  <2> QED
    BY <2>1, InsOuts, ArgLinesCover DEF Sides
<1>3. /\ X \in Line /\ X.info = "func" /\ X.id = "caller" /\ X.func = f
      /\ Y \in Line /\ Y.info = "func" /\ Y.id = "callee" /\ Y.func = f
  BY DEF FuncLine, Line, Sides
<1> HIDE DEF A, B, D, X, Y
<1>4. A \in Seq(Line) /\ B \in Seq(Line) /\ D \in Seq(Line)
  BY <1>2 DEF Covers
<1>5. /\ a \in Nat /\ b \in Nat /\ d \in Nat
      /\ C \in Seq(Line) /\ Len(C) = a + 2 + b + d
      /\ C[1] = X /\ C[a + 2] = Y
      /\ \A n \in 1 .. a : C[1 + n] = A[n]
      /\ \A n \in 1 .. b : C[a + 2 + n] = B[n]
      /\ \A n \in 1 .. d : C[a + 2 + b + n] = D[n]
  <2>1. <<X>> \in Seq(Line) /\ Len(<<X>>) = 1 /\ <<Y>> \in Seq(Line) /\ Len(<<Y>>) = 1
        /\ <<X>>[1] = X /\ <<Y>>[1] = Y
    BY <1>3
  <2> DEFINE P == <<X>> \o A
             Q == P \o <<Y>>
             R == Q \o B
  <2>2. /\ P \in Seq(Line) /\ Len(P) = 1 + a /\ a \in Nat
        /\ P[1] = X /\ \A n \in 1 .. a : P[1 + n] = A[n]
    BY <2>1, <1>4, ConcatAt
  <2> HIDE DEF P
  <2>3. /\ Q \in Seq(Line) /\ Len(Q) = a + 2 /\ Q[a + 2] = Y
        /\ \A n \in 1 .. a + 1 : Q[n] = P[n]
    <3>1. /\ Q \in Seq(Line) /\ Len(Q) = Len(P) + 1
          /\ \A n \in 1 .. Len(P) : Q[n] = P[n]
          /\ Q[Len(P) + 1] = Y
      BY <2>1, <2>2, ConcatAt
    <3> HIDE DEF Q
    <3> QED
      BY <3>1, <2>2
  <2> HIDE DEF Q
  <2>4. /\ R \in Seq(Line) /\ Len(R) = a + 2 + b /\ b \in Nat
        /\ \A n \in 1 .. a + 2 : R[n] = Q[n]
        /\ \A n \in 1 .. b : R[a + 2 + n] = B[n]
    <3>1. /\ R \in Seq(Line) /\ Len(R) = Len(Q) + b /\ b \in Nat
          /\ \A n \in 1 .. Len(Q) : R[n] = Q[n]
          /\ \A n \in 1 .. b : R[Len(Q) + n] = B[n]
      <4>1. Q \in Seq(Line) /\ B \in Seq(Line)
        BY <2>3, <1>4
      <4> QED
        BY <4>1, ConcatAt
    <3> HIDE DEF R
    <3> QED
      BY <3>1, <2>3
  <2> HIDE DEF R
  <2>5. C = R \o D
    BY <1>1 DEF P, Q, R
  <2> HIDE DEF C
  <2>6. /\ C \in Seq(Line) /\ Len(C) = Len(R) + d /\ d \in Nat
        /\ \A n \in 1 .. Len(R) : C[n] = R[n]
        /\ \A n \in 1 .. d : C[Len(R) + n] = D[n]
    <3>1. R \in Seq(Line) /\ D \in Seq(Line)
      BY <2>4, <1>4
    <3> QED
      BY <3>1, <2>5, ConcatAt
  <2>7. \A n \in 1 .. a + 2 + b : C[n] = R[n]
    BY <2>4, <2>6
  <2>8. C[1] = X /\ C[a + 2] = Y
    <3>1. 1 \in 1 .. a + 2 + b /\ 1 \in 1 .. a + 2 /\ 1 \in 1 .. a + 1 /\ a + 2 \in 1 .. a + 2
          /\ a + 2 \in 1 .. a + 2 + b
      BY <2>2, <2>4
    <3> QED
      BY <3>1, <2>2, <2>3, <2>4, <2>7
  <2>9. ASSUME NEW n \in 1 .. a PROVE C[1 + n] = A[n]
    <3>1. 1 + n \in 1 .. a + 2 + b /\ 1 + n \in 1 .. a + 2 /\ 1 + n \in 1 .. a + 1
      BY <2>2, <2>4
    <3> QED
      BY <3>1, <2>2, <2>3, <2>4, <2>7
  <2>10. ASSUME NEW n \in 1 .. b PROVE C[a + 2 + n] = B[n]
    <3>1. a + 2 + n \in 1 .. a + 2 + b
      BY <2>2, <2>4
    <3> QED
      BY <3>1, <2>4, <2>7
  <2> QED
    BY <2>2, <2>4, <2>6, <2>8, <2>9, <2>10
<1> HIDE DEF C, a, b, d
(* Every line is one of the two announcements or in one of the three parts. *)
<1>6. ASSUME NEW n \in 1 .. Len(C)
      PROVE  \/ n = 1 \/ n = a + 2
             \/ \E k \in 1 .. a : n = 1 + k
             \/ \E k \in 1 .. b : n = a + 2 + k
             \/ \E k \in 1 .. d : n = a + 2 + b + k
  <2>1. CASE n \in 2 .. a + 1
    <3>1. n - 1 \in 1 .. a /\ n = 1 + (n - 1)
      BY <2>1, <1>5
    <3> QED
      BY <3>1
  <2>2. CASE n \in a + 3 .. a + 2 + b
    <3>1. n - (a + 2) \in 1 .. b /\ n = a + 2 + (n - (a + 2))
      BY <2>2, <1>5
    <3> QED
      BY <3>1
  <2>3. CASE n \in a + 3 + b .. a + 2 + b + d
    <3>1. n - (a + 2 + b) \in 1 .. d /\ n = a + 2 + b + (n - (a + 2 + b))
      BY <2>3, <1>5
    <3> QED
      BY <3>1
  <2>4. n \in Nat /\ n >= 1 /\ n <= a + 2 + b + d
    BY <1>5
  <2> QED
    BY <2>1, <2>2, <2>3, <2>4, <1>5
(* The lines of the three parts. *)
<1>7. /\ \A k \in 1 .. a : \E i \in DOMAIN Ins(f) : \E v \in ValsOf(f, i) : A[k] = ValLine("caller", f, v)
      /\ \A k \in 1 .. b : \E i \in DOMAIN Args(f) : \E v \in ValsOf(f, i) : B[k] = ValLine("callee", f, v)
      /\ \A k \in 1 .. d : \E i \in DOMAIN Outs(f) : \E v \in ValsOf(f, Inputs(f) + i) : D[k] = ValLine("caller", f, v)
  <2>1. \A k \in 1 .. a : \E i \in DOMAIN Ins(f) : \E v \in ValsOf(f, i) : A[k] = ValLine("caller", f, v)
    <3>1. \A k \in 1 .. a : \E i \in DOMAIN Ins(f) : \E v \in ValsOf(f, Ins(f)[i]) : A[k] = ValLine("caller", f, v)
      BY <1>2 DEF Covers, a
    <3>2. \A i \in DOMAIN Ins(f) : Ins(f)[i] = i
      BY InsOuts
    <3> QED
      BY <3>1, <3>2
  <2>2. \A k \in 1 .. b : \E i \in DOMAIN Args(f) : \E v \in ValsOf(f, i) : B[k] = ValLine("callee", f, v)
    <3> DEFINE all == Ins(f) \o Outs(f)
    <3>1. \A k \in 1 .. b : \E i \in DOMAIN all : \E v \in ValsOf(f, all[i]) : B[k] = ValLine("callee", f, v)
      BY <1>2 DEF Covers, b
    <3>2. DOMAIN all = DOMAIN Args(f) /\ \A i \in DOMAIN Args(f) : all[i] = i
      BY InsOuts
    <3> HIDE DEF all
    <3> QED
      BY <3>1, <3>2
  <2>3. \A k \in 1 .. d : \E i \in DOMAIN Outs(f) : \E v \in ValsOf(f, Inputs(f) + i) : D[k] = ValLine("caller", f, v)
    <3>1. \A k \in 1 .. d : \E i \in DOMAIN Outs(f) : \E v \in ValsOf(f, Outs(f)[i]) : D[k] = ValLine("caller", f, v)
      BY <1>2 DEF Covers, d
    <3>2. \A i \in DOMAIN Outs(f) : Outs(f)[i] = Inputs(f) + i
      BY InsOuts
    <3> QED
      BY <3>1, <3>2
  <2> QED
    BY <2>1, <2>2, <2>3
<1>8. /\ \A i \in DOMAIN Ins(f) : i \in DOMAIN Args(f)
      /\ \A i \in DOMAIN Outs(f) : Inputs(f) + i \in DOMAIN Args(f)
      /\ \A i \in DOMAIN Ins(f), k \in DOMAIN Outs(f) : i # Inputs(f) + k
      /\ \A i \in DOMAIN Args(f) : i \in DOMAIN Ins(f) \/ \E k \in DOMAIN Outs(f) : i = Inputs(f) + k
  <2>1. \A i \in DOMAIN Args(f) : i \in DOMAIN Ins(f) \/ \E k \in DOMAIN Outs(f) : i = Inputs(f) + k
    <3> SUFFICES ASSUME NEW i \in DOMAIN Args(f), i \notin DOMAIN Ins(f)
                 PROVE  \E k \in DOMAIN Outs(f) : i = Inputs(f) + k
      OBVIOUS
    <3>1. i - Inputs(f) \in DOMAIN Outs(f) /\ i = Inputs(f) + (i - Inputs(f))
      BY InsOuts, FuncType
    <3> QED
      BY <3>1
  <2>2. \A i \in DOMAIN Ins(f) : i \in DOMAIN Args(f)
    BY InsOuts, FuncType
  <2>3. \A i \in DOMAIN Outs(f) : Inputs(f) + i \in DOMAIN Args(f)
    BY InsOuts, FuncType
  <2>4. \A i \in DOMAIN Ins(f), k \in DOMAIN Outs(f) : i # Inputs(f) + k
    BY InsOuts, FuncType
  <2> QED
    BY <2>1, <2>2, <2>3, <2>4
<1>9. \A i \in DOMAIN Args(f) : ValsOf(f, i) \subseteq Vals(f)
  BY DEF Vals
<1>10. /\ \A k \in 1 .. a : \E v \in Vals(f) : A[k] = ValLine("caller", f, v)
       /\ \A k \in 1 .. b : \E v \in Vals(f) : B[k] = ValLine("callee", f, v)
       /\ \A k \in 1 .. d : \E v \in Vals(f) : D[k] = ValLine("caller", f, v)
  BY <1>7, <1>8, <1>9
<1>ids. /\ \A k \in 1 .. a : A[k].id = "caller"
        /\ \A k \in 1 .. b : B[k].id = "callee"
        /\ \A k \in 1 .. d : D[k].id = "caller"
  <2>1. \A s, v : ValLine(s, f, v).id = s
    BY DEF ValLine
  <2> QED
    BY <2>1, <1>10
<1>at. /\ \A k \in 1 .. a : C[1 + k].id = "caller" /\ 1 < 1 + k
       /\ \A k \in 1 .. b : C[a + 2 + k].id = "callee" /\ a + 2 < a + 2 + k
       /\ \A k \in 1 .. d : C[a + 2 + b + k].id = "caller" /\ 1 < a + 2 + b + k
  <2>1. /\ \A k \in 1 .. a : C[1 + k].id = "caller"
        /\ \A k \in 1 .. b : C[a + 2 + k].id = "callee"
        /\ \A k \in 1 .. d : C[a + 2 + b + k].id = "caller"
    BY <1>5, <1>ids, ZenonT(30)
  <2>2. /\ \A k \in 1 .. a : 1 < 1 + k
        /\ \A k \in 1 .. b : a + 2 < a + 2 + k
        /\ \A k \in 1 .. d : 1 < a + 2 + b + k
    BY <1>5
  <2> QED
    BY <2>1, <2>2
<1>11. ASSUME NEW n \in 1 .. Len(C)
       PROVE  \/ \E s \in Sides : C[n] = FuncLine(s, f)
              \/ \E s \in Sides : \E v \in Vals(f) : C[n] = ValLine(s, f, v)
  <2>1. C[1] = FuncLine("caller", f) /\ C[a + 2] = FuncLine("callee", f)
    BY <1>5 DEF X, Y
  <2>2. "caller" \in Sides /\ "callee" \in Sides
    BY DEF Sides
  <2> QED
    BY <2>1, <2>2, <1>5, <1>6, <1>10
<1>12. ASSUME NEW n \in 1 .. Len(C), NEW s \in Sides, IsVal(C[n]), C[n].id = s
       PROVE  \E m \in 1 .. Len(C) : m < n /\ C[m] = FuncLine(s, f)
  <2>1. 1 \in 1 .. Len(C) /\ a + 2 \in 1 .. Len(C)
    BY <1>5
  <2>2. n # 1 /\ n # a + 2
    BY <1>3, <1>5, <1>12 DEF IsVal
  <2>3. CASE \E k \in 1 .. a : n = 1 + k
    <3>0. PICK k \in 1 .. a : n = 1 + k
      BY <2>3
    <3>1. C[n].id = "caller" /\ 1 < n
      BY <3>0, <1>at
    <3> QED
      BY <3>1, <2>1, <1>5, <1>12 DEF X
  <2>4. CASE \E k \in 1 .. b : n = a + 2 + k
    <3>1. C[n].id = "callee" /\ a + 2 < n
      <4>1. PICK k \in 1 .. b : n = a + 2 + k
        BY <2>4
      <4> QED
        BY <4>1, <1>at
    <3> QED
      BY <3>1, <2>1, <1>5, <1>12 DEF Y
  <2>5. CASE \E k \in 1 .. d : n = a + 2 + b + k
    <3>1. C[n].id = "caller" /\ 1 < n
      <4>1. PICK k \in 1 .. d : n = a + 2 + b + k
        BY <2>5
      <4> QED
        BY <4>1, <1>at
    <3> QED
      BY <3>1, <2>1, <1>5, <1>12 DEF X
  <2> QED
    BY <2>2, <2>3, <2>4, <2>5, <1>6
<1>13. ASSUME NEW m \in 1 .. Len(C), NEW n \in 1 .. Len(C), IsVal(C[m]), C[m] = C[n] PROVE m = n
  <2>1. /\ m # 1 /\ m # a + 2 /\ n # 1 /\ n # a + 2
    BY <1>3, <1>5, <1>13 DEF IsVal
  <2>2. /\ \A k, l \in 1 .. a : A[k] = A[l] => k = l
        /\ \A k, l \in 1 .. b : B[k] = B[l] => k = l
        /\ \A k, l \in 1 .. d : D[k] = D[l] => k = l
    BY <1>2 DEF Covers, a, b, d
  <2>3. \A k \in 1 .. a, l \in 1 .. d : A[k] # D[l]
    <3> SUFFICES ASSUME NEW k \in 1 .. a, NEW l \in 1 .. d, A[k] = D[l] PROVE FALSE
      OBVIOUS
    <3>1. PICK i \in DOMAIN Ins(f) : \E v \in ValsOf(f, i) : A[k] = ValLine("caller", f, v)
      BY <1>7
    <3>2. PICK j \in DOMAIN Outs(f) : \E v \in ValsOf(f, Inputs(f) + j) : D[l] = ValLine("caller", f, v)
      BY <1>7
    <3>3. PICK v \in ValsOf(f, i) : A[k] = ValLine("caller", f, v)
      BY <3>1
    <3>4. v \in ValsOf(f, Inputs(f) + j)
      BY <3>2, <3>3 DEF ValLine
    <3> QED
      BY <3>3, <3>4, <1>8, ValsOfApart
  <2> DEFINE Part(x) == \/ \E k \in 1 .. a : x = 1 + k /\ C[x] = A[k]
                        \/ \E k \in 1 .. b : x = a + 2 + k /\ C[x] = B[k]
                        \/ \E k \in 1 .. d : x = a + 2 + b + k /\ C[x] = D[k]
  <2>5. ASSUME NEW x \in 1 .. Len(C), x # 1, x # a + 2 PROVE Part(x)
    <3>1. CASE \E k \in 1 .. a : x = 1 + k
      BY <3>1, <1>5
    <3>2. CASE \E k \in 1 .. b : x = a + 2 + k
      <4>1. PICK k \in 1 .. b : x = a + 2 + k
        BY <3>2
      <4>2. C[a + 2 + k] = B[k]
        BY <1>5
      <4>3. C[x] = B[k]
        BY <4>1, <4>2
      <4>4. \E l \in 1 .. b : x = a + 2 + l /\ C[x] = B[l]
        BY <4>1, <4>3
      <4> QED
        BY <4>4
    <3>3. CASE \E k \in 1 .. d : x = a + 2 + b + k
      <4>1. PICK k \in 1 .. d : x = a + 2 + b + k
        BY <3>3
      <4>2. C[a + 2 + b + k] = D[k]
        BY <1>5
      <4>3. C[x] = D[k]
        BY <4>1, <4>2
      <4>4. \E l \in 1 .. d : x = a + 2 + b + l /\ C[x] = D[l]
        BY <4>1, <4>3
      <4> QED
        BY <4>4
    <3> QED
      BY <2>5, <3>1, <3>2, <3>3, <1>6
  <2>p. Part(m) /\ Part(n)
    BY <2>1, <2>5
  <2>6. C[m] = C[n] /\ "caller" # "callee"
    BY <1>13
  <2>7. CASE \E k \in 1 .. a : m = 1 + k /\ C[m] = A[k]
    <3>1. PICK k \in 1 .. a : m = 1 + k /\ C[m] = A[k]
      BY <2>7
    <3>2. PICK l \in 1 .. a : n = 1 + l /\ C[n] = A[l]
      BY <3>1, <2>p, <2>3, <2>6, <1>ids
    <3> QED
      BY <3>1, <3>2, <2>2, <2>6
  <2>8. CASE \E k \in 1 .. b : m = a + 2 + k /\ C[m] = B[k]
    <3>1. PICK k \in 1 .. b : m = a + 2 + k /\ C[m] = B[k]
      BY <2>8
    <3>2. PICK l \in 1 .. b : n = a + 2 + l /\ C[n] = B[l]
      BY <3>1, <2>p, <2>3, <2>6, <1>ids
    <3> QED
      BY <3>1, <3>2, <2>2, <2>6
  <2>9. CASE \E k \in 1 .. d : m = a + 2 + b + k /\ C[m] = D[k]
    <3>1. PICK k \in 1 .. d : m = a + 2 + b + k /\ C[m] = D[k]
      BY <2>9
    <3>2. PICK l \in 1 .. d : n = a + 2 + b + l /\ C[n] = D[l]
      BY <3>1, <2>p, <2>3, <2>6, <1>ids
    <3> QED
      BY <3>1, <3>2, <2>2, <2>6
  <2> QED
    BY <2>p, <2>7, <2>8, <2>9
<1>14. ASSUME NEW s \in Sides, NEW v \in Vals(f) PROVE \E n \in 1 .. Len(C) : C[n] = ValLine(s, f, v)
  <2>1. PICK i \in DOMAIN Args(f) : v \in ValsOf(f, i)
    BY DEF Vals
  <2>2. /\ \A k \in 1 .. a : 1 + k \in 1 .. Len(C)
        /\ \A k \in 1 .. b : a + 2 + k \in 1 .. Len(C)
        /\ \A k \in 1 .. d : a + 2 + b + k \in 1 .. Len(C)
    BY <1>5
  <2>3. CASE s = "callee"
    <3>1. \E k \in 1 .. b : B[k] = ValLine("callee", f, v)
      BY <2>1, <1>2, InsOuts, ZenonT(30) DEF Covers, b
    <3> QED
      BY <3>1, <2>2, <2>3, <1>5
  <2>4. CASE s = "caller" /\ i \in DOMAIN Ins(f)
    <3>1. \E k \in 1 .. a : A[k] = ValLine("caller", f, v)
      BY <2>1, <2>4, <1>2, InsOuts DEF Covers, a
    <3> QED
      BY <3>1, <2>2, <2>4, <1>5
  <2>5. CASE s = "caller" /\ \E k \in DOMAIN Outs(f) : i = Inputs(f) + k
    <3>1. \E k \in 1 .. d : D[k] = ValLine("caller", f, v)
      BY <2>1, <2>5, <1>2, InsOuts DEF Covers, d
    <3> QED
      BY <3>1, <2>2, <2>5, <1>5
  <2> QED
    BY <2>3, <2>4, <2>5, <1>8 DEF Sides
<1>15. Call(C, f)
  BY <1>5, <1>11, <1>12, <1>13, <1>14 DEF Call
<1> QED
  BY <1>15 DEF C

(* What Program is: the calls one after another, and done at the end.      *)
N == Len(Program)
Done == [info |-> "done"]

LEMMA DesiredType ==
  /\ Len(Desired) \in Nat /\ DOMAIN Desired = 1 .. Len(Desired)
  /\ \A i \in 1 .. Len(Desired) : Desired[i] \in Funcs /\ Desired[i] \in Nat
  /\ \A f \in Funcs : f \in Nat /\ \E i \in 1 .. Len(Desired) : Desired[i] = f
  /\ \A i, k \in 1 .. Len(Desired) : i <= k => Desired[i] <= Desired[k]
  /\ \A i, k \in 1 .. Len(Desired) : Desired[i] = Desired[k] => i = k
<1>1. Len(Desired) \in Nat /\ DOMAIN Desired = 1 .. Len(Desired)
      /\ \A i \in 1 .. Len(Desired) : Desired[i] \in Nat
  BY DesiredAssumption, LenProperties
<1>2. Funcs = {Desired[i] : i \in 1 .. Len(Desired)}
  BY <1>1 DEF Funcs, ToSet
<1>3. \A i, k \in 1 .. Len(Desired) : i < k => Desired[i] < Desired[k]
  BY <1>1, DesiredAssumption
<1>4. ASSUME NEW i \in 1 .. Len(Desired), NEW k \in 1 .. Len(Desired), i <= k
      PROVE  Desired[i] <= Desired[k]
  <2>1. CASE i = k
    BY <2>1, <1>1
  <2>2. CASE i < k
    BY <2>2, <1>1, <1>3
  <2> QED
    BY <2>1, <2>2, <1>4, <1>1
<1>5. ASSUME NEW i \in 1 .. Len(Desired), NEW k \in 1 .. Len(Desired), Desired[i] = Desired[k]
      PROVE  i = k
  <2>1. ~(i < k) /\ ~(k < i)
    BY <1>1, <1>3, <1>5
  <2> QED
    BY <2>1, <1>1
<1> QED
  BY <1>1, <1>2, <1>4, <1>5

Calls == [i \in DOMAIN Desired |-> CallLines(Desired[i])]

(* Line n of the program is line j of the call of the i-th function.       *)
From(n, i, j) ==
  /\ i \in 1 .. Len(Desired) /\ j \in 1 .. Len(Calls[i])
  /\ Program[n] = Calls[i][j]

LEMMA ProgramLays ==
  /\ Program \in Seq(Line) /\ N \in Nat /\ N >= 1 /\ Program[N] = Done
  /\ \A i \in 1 .. Len(Desired) : Call(Calls[i], Desired[i])
  /\ \E off :
       /\ \A n \in 1 .. N - 1 : \E i, j : From(n, i, j) /\ n = off[i] + j
       /\ \A i \in 1 .. Len(Desired) : \A j \in 1 .. Len(Calls[i]) :
            off[i] + j \in 1 .. N - 1 /\ Program[off[i] + j] = Calls[i][j]
       /\ \A i, k \in 1 .. Len(Desired) : i < k => off[i] + Len(Calls[i]) <= off[k]
       /\ \A i \in 1 .. Len(Desired) : off[i] \in Nat /\ Len(Calls[i]) \in Nat
<1> DEFINE M == Len(Desired)
           F == FlattenSeq(Calls)
<1>1. M \in Nat /\ DOMAIN Calls = 1 .. M /\ \A i \in 1 .. M : Calls[i] = CallLines(Desired[i])
  BY DesiredType DEF Calls
<1>2. \A i \in 1 .. M : Call(Calls[i], Desired[i])
  BY <1>1, DesiredType, CallIs
<1>3. \A i \in 1 .. M : Calls[i] \in Seq(Line) /\ Len(Calls[i]) \in Nat
  <2>1. \A i \in 1 .. M : Calls[i] \in Seq(Line)
    BY <1>2 DEF Call
  <2> QED
    BY <2>1, LenProperties
<1>4. Calls \in Seq(Seq(Line)) /\ Len(Calls) = M
  <2>1. Calls \in [1 .. M -> Seq(Line)]
    BY <1>1, <1>3, DesiredType DEF Calls
  <2>2. Calls \in Seq(Seq(Line))
    BY <1>1, <2>1, SeqDef
  <2> QED
    BY <1>1, <2>2, LenProperties
<1>5. F \in Seq(Line) /\ \E off : Lays(off, F, Calls, M)
  <2> HIDE DEF M
  <2>1. FlattenSeq(Calls) \in Seq(Line) /\ \E off : Lays(off, FlattenSeq(Calls), Calls, Len(Calls))
    BY <1>4, FlattenLays
  <2> QED
    BY <1>4, <2>1
<1>6. Program = F \o <<Done>>
  BY DEF Program, Calls, Done
<1> HIDE DEF F, M
<1>7. Done \in Line /\ <<Done>> \in Seq(Line) /\ Len(<<Done>>) = 1 /\ <<Done>>[1] = Done
  BY DEF Done, Line
<1>8. /\ Program \in Seq(Line) /\ N = Len(F) + 1 /\ Len(F) \in Nat /\ Program[N] = Done
      /\ \A n \in 1 .. Len(F) : Program[n] = F[n]
  <2>1. /\ Program \in Seq(Line) /\ Len(Program) = Len(F) + Len(<<Done>>) /\ Len(F) \in Nat
        /\ \A n \in 1 .. Len(F) : Program[n] = F[n]
        /\ \A n \in 1 .. Len(<<Done>>) : Program[Len(F) + n] = <<Done>>[n]
    BY <1>5, <1>6, <1>7, ConcatAt
  <2> QED
    BY <2>1, <1>7 DEF N
<1>9. PICK off : Lays(off, F, Calls, M)
  BY <1>5
<1>10. ASSUME NEW n \in 1 .. N - 1 PROVE \E i, j : From(n, i, j) /\ n = off[i] + j
  <2>1. n \in 1 .. Len(F)
    BY <1>8
  <2>2. PICK i \in 1 .. M : \E j \in 1 .. Len(Calls[i]) : n = off[i] + j
    BY <2>1, <1>9 DEF Lays
  <2>3. PICK j \in 1 .. Len(Calls[i]) : n = off[i] + j
    BY <2>2
  <2>4. F[n] = Calls[i][j]
    BY <2>3, <1>9 DEF Lays
  <2>5. From(n, i, j)
    BY <2>1, <2>3, <2>4, <1>8 DEF From, M
  <2> QED
    BY <2>3, <2>5
<1>11. ASSUME NEW i \in 1 .. M, NEW j \in 1 .. Len(Calls[i])
       PROVE  off[i] + j \in 1 .. N - 1 /\ Program[off[i] + j] = Calls[i][j]
  <2>1. off[i] + Len(Calls[i]) <= Len(F) /\ off[i] \in Nat /\ F[off[i] + j] = Calls[i][j]
    BY <1>9 DEF Lays
  <2>2. off[i] + j \in 1 .. Len(F)
    BY <2>1, <1>3, <1>8
  <2> QED
    BY <2>1, <2>2, <1>8
<1>12. /\ \A i, k \in 1 .. M : i < k => off[i] + Len(Calls[i]) <= off[k]
       /\ \A i \in 1 .. M : off[i] \in Nat /\ Len(Calls[i]) \in Nat
  BY <1>3, <1>9 DEF Lays
<1>13. \A n \in 1 .. N - 1 : \E i, j : From(n, i, j) /\ n = off[i] + j
  BY <1>10
<1> QED
  <2>1. Program \in Seq(Line) /\ N \in Nat /\ N >= 1 /\ Program[N] = Done
    BY <1>8
  <2> QED
    BY <2>1, <1>2, <1>11, <1>12, <1>13 DEF M

(* The lines, without where the calls begin.                               *)
LEMMA ProgramIs ==
  /\ Program \in Seq(Line) /\ N \in Nat /\ N >= 1 /\ Program[N] = Done
  /\ \A n \in 1 .. N - 1 : Program[n].func \in Funcs /\ Program[n].id \in Sides
  /\ \A n \in 1 .. N - 1 :
       \/ Program[n] = FuncLine(Program[n].id, Program[n].func)
       \/ /\ Program[n] = ValLine(Program[n].id, Program[n].func, Program[n].val)
          /\ Program[n].val \in Vals(Program[n].func)
  /\ \A n \in 1 .. N - 1 : IsVal(Program[n]) =>
       \E m \in 1 .. N - 1 : m < n /\ Program[m] = FuncLine(Program[n].id, Program[n].func)
  /\ \A m, n \in 1 .. N - 1 : IsVal(Program[m]) /\ Program[m] = Program[n] => m = n
  /\ \A m, n \in 1 .. N - 1 : m <= n => Program[m].func <= Program[n].func
  /\ \A s \in Sides : \A f \in Funcs : \A v \in Vals(f) :
       \E n \in 1 .. N - 1 : Program[n] = ValLine(s, f, v)
<1> DEFINE M == Len(Desired)
           K == Calls
           D == Desired
           P == Program
<1>0. PICK off :
        /\ \A n \in 1 .. N - 1 : \E i, j : From(n, i, j) /\ n = off[i] + j
        /\ \A i \in 1 .. M : \A j \in 1 .. Len(K[i]) :
             off[i] + j \in 1 .. N - 1 /\ P[off[i] + j] = K[i][j]
        /\ \A i, k \in 1 .. M : i < k => off[i] + Len(K[i]) <= off[k]
        /\ \A i \in 1 .. M : off[i] \in Nat /\ Len(K[i]) \in Nat
  BY ProgramLays
<1>1. \A n \in 1 .. N - 1 : \E i \in 1 .. M : \E j \in 1 .. Len(K[i]) : n = off[i] + j /\ P[n] = K[i][j]
  BY <1>0 DEF From
<1>2. /\ \A i \in 1 .. M : \A j \in 1 .. Len(K[i]) :
           off[i] + j \in 1 .. N - 1 /\ P[off[i] + j] = K[i][j]
      /\ \A i, k \in 1 .. M : i < k => off[i] + Len(K[i]) <= off[k]
      /\ \A i \in 1 .. M : off[i] \in Nat /\ Len(K[i]) \in Nat
  BY <1>0
<1> HIDE <1>0
<1>3. /\ M \in Nat
      /\ \A i \in 1 .. M : D[i] \in Funcs /\ D[i] \in Nat
      /\ \A f \in Funcs : \E i \in 1 .. M : D[i] = f
      /\ \A i, k \in 1 .. M : i <= k => D[i] <= D[k]
      /\ \A i, k \in 1 .. M : D[i] = D[k] => i = k
  BY DesiredType
<1>4. \A i \in 1 .. M : Call(K[i], D[i])
  BY ProgramLays
<1>5. P \in Seq(Line) /\ N \in Nat /\ N >= 1 /\ P[N] = Done
  BY ProgramLays
<1> HIDE DEF M, K, D, P
<1>6. /\ \A s, f : /\ FuncLine(s, f).info = "func" /\ FuncLine(s, f).id = s /\ FuncLine(s, f).func = f
      /\ \A s, f, v : /\ ValLine(s, f, v).info = "val" /\ ValLine(s, f, v).id = s
                      /\ ValLine(s, f, v).func = f /\ ValLine(s, f, v).val = v
  BY DEF FuncLine, ValLine
(* what a line of the i-th call is *)
<1>7. ASSUME NEW i \in 1 .. M, NEW j \in 1 .. Len(K[i])
      PROVE  /\ K[i][j].func = D[i] /\ K[i][j].id \in Sides
             /\ \/ K[i][j] = FuncLine(K[i][j].id, D[i])
                \/ K[i][j] = ValLine(K[i][j].id, D[i], K[i][j].val) /\ K[i][j].val \in Vals(D[i])
  <2>1. \/ \E s \in Sides : K[i][j] = FuncLine(s, D[i])
        \/ \E s \in Sides : \E v \in Vals(D[i]) : K[i][j] = ValLine(s, D[i], v)
    BY <1>4 DEF Call
  <2>2. CASE \E s \in Sides : K[i][j] = FuncLine(s, D[i])
    BY <2>2, <1>6
  <2>3. CASE \E s \in Sides : \E v \in Vals(D[i]) : K[i][j] = ValLine(s, D[i], v)
    BY <2>3, <1>6
  <2> QED
    BY <2>1, <2>2, <2>3
<1>8. ASSUME NEW n \in 1 .. N - 1
      PROVE  /\ P[n].func \in Funcs /\ P[n].id \in Sides
             /\ \/ P[n] = FuncLine(P[n].id, P[n].func)
                \/ P[n] = ValLine(P[n].id, P[n].func, P[n].val) /\ P[n].val \in Vals(P[n].func)
  <2>1. PICK i \in 1 .. M : \E j \in 1 .. Len(K[i]) : n = off[i] + j /\ P[n] = K[i][j]
    BY <1>1
  <2> QED
    BY <2>1, <1>3, <1>7
<1>9. ASSUME NEW n \in 1 .. N - 1, IsVal(P[n])
      PROVE  \E m \in 1 .. N - 1 : m < n /\ P[m] = FuncLine(P[n].id, P[n].func)
  <2>1. PICK i \in 1 .. M : \E j \in 1 .. Len(K[i]) : n = off[i] + j /\ P[n] = K[i][j]
    BY <1>1
  <2>2. PICK j \in 1 .. Len(K[i]) : n = off[i] + j /\ P[n] = K[i][j]
    BY <2>1
  <2>3. PICK m \in 1 .. Len(K[i]) : m < j /\ K[i][m] = FuncLine(P[n].id, D[i])
    BY <2>2, <1>4, <1>7, <1>9 DEF Call
  <2>4. P[n].func = D[i]
    BY <2>2, <1>7
  <2>5. off[i] + m \in 1 .. N - 1 /\ P[off[i] + m] = K[i][m]
    BY <1>2
  <2>6. off[i] + m < off[i] + j
    BY <2>3, <1>2
  <2> QED
    BY <2>2, <2>3, <2>4, <2>5, <2>6
<1>10. ASSUME NEW m \in 1 .. N - 1, NEW n \in 1 .. N - 1, IsVal(P[m]), P[m] = P[n] PROVE m = n
  <2>1. PICK i \in 1 .. M : \E j \in 1 .. Len(K[i]) : m = off[i] + j /\ P[m] = K[i][j]
    BY <1>1
  <2>2. PICK j \in 1 .. Len(K[i]) : m = off[i] + j /\ P[m] = K[i][j]
    BY <2>1
  <2>3. PICK k \in 1 .. M : \E l \in 1 .. Len(K[k]) : n = off[k] + l /\ P[n] = K[k][l]
    BY <1>1
  <2>4. PICK l \in 1 .. Len(K[k]) : n = off[k] + l /\ P[n] = K[k][l]
    BY <2>3
  <2>5. i = k
    <3>1. D[i] = D[k]
      <4>1. K[i][j] = K[k][l]
        BY <2>2, <2>4, <1>10
      <4>2. K[i][j].func = D[i] /\ K[k][l].func = D[k]
        BY <1>7
      <4> QED
        BY <4>1, <4>2
    <3> QED
      BY <3>1, <1>3
  <2>6. j = l
    <3>1. IsVal(K[i][j]) /\ K[i][j] = K[i][l] /\ l \in 1 .. Len(K[i])
      BY <2>2, <2>4, <2>5, <1>10
    <3> QED
      BY <3>1, <1>4 DEF Call
  <2> QED
    BY <2>2, <2>4, <2>5, <2>6
<1>11. ASSUME NEW m \in 1 .. N - 1, NEW n \in 1 .. N - 1, m <= n PROVE P[m].func <= P[n].func
  <2>1. PICK i \in 1 .. M : \E j \in 1 .. Len(K[i]) : m = off[i] + j /\ P[m] = K[i][j]
    BY <1>1
  <2>2. PICK j \in 1 .. Len(K[i]) : m = off[i] + j /\ P[m] = K[i][j]
    BY <2>1
  <2>3. PICK k \in 1 .. M : \E l \in 1 .. Len(K[k]) : n = off[k] + l /\ P[n] = K[k][l]
    BY <1>1
  <2>4. PICK l \in 1 .. Len(K[k]) : n = off[k] + l /\ P[n] = K[k][l]
    BY <2>3
  <2>5. i <= k
    <3>1. SUFFICES ASSUME k < i PROVE FALSE
      BY <1>3
    <3>2. off[k] + Len(K[k]) <= off[i] /\ off[k] \in Nat /\ off[i] \in Nat /\ Len(K[k]) \in Nat
      BY <3>1, <1>2
    <3>3. l <= Len(K[k]) /\ l \in Nat /\ j >= 1 /\ j \in Nat
      BY <1>2
    <3>4. off[k] + l < off[i] + j
      BY <3>2, <3>3, SMTT(30)
    <3> QED
      BY <3>4, <3>2, <3>3, <2>2, <2>4, <1>11
  <2>6. P[m].func = D[i] /\ P[n].func = D[k]
    BY <2>2, <2>4, <1>7
  <2> QED
    BY <2>5, <2>6, <1>3
<1>12. ASSUME NEW s \in Sides, NEW f \in Funcs, NEW v \in Vals(f)
       PROVE  \E n \in 1 .. N - 1 : P[n] = ValLine(s, f, v)
  <2>1. PICK i \in 1 .. M : D[i] = f
    BY <1>3
  <2>2. PICK j \in 1 .. Len(K[i]) : K[i][j] = ValLine(s, f, v)
    BY <2>1, <1>4 DEF Call
  <2> QED
    BY <2>2, <1>2
<1> QED
  BY <1>5, <1>8, <1>9, <1>10, <1>11, <1>12 DEF P

-----------------------------------------------------------------------------
(* The invariant *)

AllBytes == {"expected", "other", "other padding", "poison"}
OutLine == Line \cup [info : {"val"}, id : Sides, val : Nat, bytes : AllBytes] \cup [info : {"noise"}]
Buffer ==
  [vals : SUBSET (Funcs \X Nat \X AllBytes), len : [Funcs -> Nat], cur_func : SUBSET Funcs,
   missing_set_func : BOOLEAN, double_writes : SUBSET (Funcs \X Nat)]

Types ==
  /\ at \in 1 .. N + 1
  /\ saw \in [Sides -> SUBSET (Funcs \X Nat \X AllBytes)]
  /\ status \in {"running", "success", "failure"}
  /\ stdout \in Seq(OutLine)
  /\ cut \in BOOLEAN
  /\ buf \in [Sides -> Buffer]
  /\ clean \in BOOLEAN
  /\ run \in {"none", "ok", "bad exit", "invalid messages", "missing set_func", "double write"}
  /\ check \in [Funcs -> SUBSET Nat]

(* What the sides saw is what the lines so far report: one value each, and *)
(* a value that is missing is in a variant not taken.                      *)
Shown(sw, n) == \E b : <<Program[n].func, Program[n].val, b>> \in sw[Program[n].id]
Reported ==
  \A s \in Sides : \A f, v, b : <<f, v, b>> \in saw[s] =>
    /\ f \in Funcs /\ v \in Vals(f) /\ b \in Bytes(f, v)
    /\ \E n \in 1 .. N : n < at /\ Program[n] = ValLine(s, f, v)
Unique ==
  \A s \in Sides : \A f, v, b, c :
    <<f, v, b>> \in saw[s] /\ <<f, v, c>> \in saw[s] => b = c
HiddenOrShown ==
  \A n \in 1 .. N : n < at /\ IsVal(Program[n]) => Shown(saw, n) \/ Hidden(Program[n])

(* Line l of stdout is the one that line n of the program wrote.           *)
Written(sw, l, n) ==
  IF IsVal(Program[n])
  THEN /\ l.info = "val" /\ l.id = Program[n].id /\ l.val = Program[n].val
       /\ <<Program[n].func, l.val, l.bytes>> \in sw[l.id]
  ELSE l = Program[n]
Wrote(sw, n) == IsVal(Program[n]) => Shown(sw, n)

(* Everything up to line q of the program is read, and what stdout holds   *)
(* is what the lines after it wrote, in order, each once; only the last of *)
(* them can be lost, and if cut, one of them is.                           *)
Rest(q, pos) ==
  /\ q \in Nat /\ q < at /\ pos \in [1 .. Len(stdout) -> Nat]
  /\ \A i \in 1 .. Len(stdout) : stdout[i].info # "noise" =>
       q < pos[i] /\ pos[i] < at /\ Written(saw, stdout[i], pos[i])
  /\ \A i, j \in 1 .. Len(stdout) :
       i < j /\ stdout[i].info # "noise" /\ stdout[j].info # "noise" => pos[i] < pos[j]
  /\ \A n \in 1 .. N : q < n /\ n < at /\ Wrote(saw, n) =>
       \/ \E i \in 1 .. Len(stdout) : stdout[i].info # "noise" /\ pos[i] = n
       \/ cut /\ \A i \in 1 .. Len(stdout) : stdout[i].info # "noise" => pos[i] < n
  /\ cut => \E n \in 1 .. N :
       q < n /\ \A i \in 1 .. Len(stdout) : stdout[i].info # "noise" => pos[i] < n

(* The buffer of side s once the lines up to q are read: the last function *)
(* announced, the values seen, and vals as long as the last value needs.   *)
Announced(b, s, q) ==
  \/ b.cur_func = {} /\ \A k \in 1 .. N - 1 : k <= q => ~IsFunc(Program[k], s)
  \/ \E k \in 1 .. N - 1 :
       /\ k <= q /\ IsFunc(Program[k], s) /\ b.cur_func = {Program[k].func}
       /\ \A j \in 1 .. N - 1 : k < j /\ j <= q => ~IsFunc(Program[j], s)
Holds(b, sw, s, q) ==
  /\ \A f, v, x : <<f, v, x>> \in b.vals =>
       /\ <<f, v, x>> \in sw[s]
       /\ \E n \in 1 .. N : n <= q /\ Program[n] = ValLine(s, f, v)
  /\ \A f, v, x : \A n \in 1 .. N :
       <<f, v, x>> \in sw[s] /\ n <= q /\ Program[n] = ValLine(s, f, v) => <<f, v, x>> \in b.vals
Sized(b) ==
  \A f \in Funcs :
    /\ \A v, x : <<f, v, x>> \in b.vals => v < b.len[f]
    /\ b.len[f] = 0 \/ \E x : <<f, b.len[f] - 1, x>> \in b.vals
Sound(b) == ~b.missing_set_func /\ b.double_writes = {} /\ Sized(b)
Filled(q) ==
  /\ \A s \in Sides : Announced(buf[s], s, q) /\ Holds(buf[s], saw, s, q) /\ Sound(buf[s])
  /\ clean => q = N

(* What each stage leaves behind.                                          *)
Stages ==
  /\ cut => status # "running"
  /\ status = "running" => run = "none"
  /\ run # "none" => stdout = <<>>
  /\ run = "ok" => clean /\ status = "success" /\ check = [f \in Funcs |-> CheckFunc(f)]
  /\ run = "bad exit" => status = "failure" /\ blame = [s \in Sides |-> BestVals(buf[s])]

Reading == \E q, pos : Rest(q, pos) /\ Filled(q)
IInv == Types /\ Reported /\ Unique /\ HiddenOrShown /\ Reading /\ Stages

-----------------------------------------------------------------------------
(* Lines of the program *)

LEMMA LineIs ==
  ASSUME NEW n \in 1 .. N
  PROVE  /\ IsVal(Program[n]) =>
              /\ n \in 1 .. N - 1 /\ Program[n].id \in Sides /\ Program[n].func \in Funcs
              /\ Program[n].val \in Vals(Program[n].func) /\ Program[n].val \in Nat
              /\ Program[n] = ValLine(Program[n].id, Program[n].func, Program[n].val)
         /\ ~IsVal(Program[n]) /\ n # N =>
              /\ n \in 1 .. N - 1 /\ Program[n].info = "func" /\ Program[n].id \in Sides
              /\ Program[n].func \in Funcs
         /\ n = N => Program[n].info = "done"
         /\ Program[n].info \in {"func", "val", "done"}
<1>1. CASE n = N
  <2>1. Program[n].info = "done"
    BY <1>1, ProgramIs DEF Done
  <2> QED
    BY <2>1, <1>1 DEF IsVal
<1>2. CASE n # N
  <2>1. n \in 1 .. N - 1
    BY <1>2, ProgramIs
  <2>2. Program[n].func \in Funcs /\ Program[n].id \in Sides
    BY <2>1, ProgramIs
  <2>3. CASE Program[n] = FuncLine(Program[n].id, Program[n].func)
    <3>1. Program[n].info = "func"
      BY <2>3 DEF FuncLine
    <3> QED
      BY <3>1, <2>1, <2>2, <1>2 DEF IsVal
  <2>4. CASE /\ Program[n] = ValLine(Program[n].id, Program[n].func, Program[n].val)
             /\ Program[n].val \in Vals(Program[n].func)
    <3>1. Program[n].info = "val"
      BY <2>4 DEF ValLine
    <3>2. Program[n].val \in Nat
      BY <2>2, <2>4, ValsType
    <3> QED
      BY <3>1, <3>2, <2>1, <2>2, <2>4, <1>2 DEF IsVal
  <2> QED
    BY <2>1, <2>3, <2>4, ProgramIs
<1> QED
  BY <1>1, <1>2

LEMMA ValLineIs ==
  ASSUME NEW n \in 1 .. N, NEW s, NEW f, NEW v, Program[n] = ValLine(s, f, v)
  PROVE  IsVal(Program[n]) /\ Program[n].id = s /\ Program[n].func = f /\ Program[n].val = v
  BY DEF IsVal, ValLine

(* No value is reported by two lines.                                      *)
LEMMA OneLine ==
  ASSUME NEW m \in 1 .. N, NEW n \in 1 .. N, NEW s, NEW f, NEW v,
         Program[m] = ValLine(s, f, v), Program[n] = ValLine(s, f, v)
  PROVE  m = n
<1>1. IsVal(Program[m]) /\ IsVal(Program[n])
  BY ValLineIs
<1>2. m \in 1 .. N - 1 /\ n \in 1 .. N - 1
  BY <1>1, LineIs
<1> QED
  BY <1>1, <1>2, ProgramIs

(* The function a side announced last is the one its lines are of.         *)
LEMMA LastAnnounced ==
  ASSUME NEW n \in 1 .. N - 1, NEW k \in 1 .. N - 1, k <= n, IsFunc(Program[k], Program[n].id),
         \A j \in 1 .. N - 1 : k < j /\ j <= n => ~IsFunc(Program[j], Program[n].id)
  PROVE  Program[k].func = Program[n].func
<1> DEFINE s == Program[n].id
           f == Program[n].func
<1>1. N \in Nat /\ f \in Nat /\ Program[k].func \in Nat
  BY ProgramIs, DesiredType
<1>2. PICK m \in 1 .. N - 1 : m <= n /\ IsFunc(Program[m], s) /\ Program[m].func = f
  <2>1. CASE IsVal(Program[n])
    <3>1. PICK m \in 1 .. N - 1 : m < n /\ Program[m] = FuncLine(s, f)
      BY <2>1, ProgramIs
    <3>2. IsFunc(Program[m], s) /\ Program[m].func = f
      BY <3>1 DEF FuncLine, IsFunc
    <3> QED
      BY <3>1, <3>2, <1>1
  <2>2. CASE ~IsVal(Program[n])
    <3>1. Program[n].info = "func"
      BY <2>2, <1>1, LineIs
    <3> QED
      BY <3>1, <1>1 DEF IsFunc
  <2> QED
    BY <2>1, <2>2
<1> HIDE DEF s, f
<1>3. m <= k
  BY <1>1, <1>2 DEF s
<1>4. Program[m].func <= Program[k].func /\ Program[k].func <= Program[n].func
  BY <1>3, ProgramIs
<1> QED
  BY <1>1, <1>2, <1>4 DEF f

LEMMA BytesType ==
  ASSUME NEW f \in Funcs, NEW v \in Vals(f)
  PROVE  Bytes(f, v) \subseteq AllBytes
  BY TypeAssumption DEF Bytes, AllBytes

-----------------------------------------------------------------------------
(* The invariant holds at the start *)

LEMMA InitIInv == Init => IInv
<1> SUFFICES ASSUME Init PROVE IInv
  OBVIOUS
<1>1. N \in Nat /\ N >= 1
  BY ProgramIs
<1>2. NewBuffer \in Buffer
  <2>1. [f \in Funcs |-> 0] \in [Funcs -> Nat]
    OBVIOUS
  <2> QED
    BY <2>1 DEF NewBuffer, Buffer
<1>3. Types
  <2>1. at \in 1 .. N + 1
    BY <1>1 DEF Init
  <2>2. saw \in [Sides -> SUBSET (Funcs \X Nat \X AllBytes)] /\ check \in [Funcs -> SUBSET Nat]
    BY DEF Init
  <2>3. stdout \in Seq(OutLine)
    BY EmptySeq DEF Init
  <2>4. buf \in [Sides -> Buffer]
    BY <1>2 DEF Init
  <2> QED
    BY <2>1, <2>2, <2>3, <2>4 DEF Init, Types
<1>4. Reported /\ Unique
  BY DEF Init, Reported, Unique
<1>5. HiddenOrShown
  <2>1. \A n \in 1 .. N : ~(n < at)
    BY <1>1 DEF Init
  <2> QED
    BY <2>1 DEF HiddenOrShown
<1>6. Rest(0, <<>>)
  <2>1. stdout = <<>> /\ Len(stdout) = 0 /\ at = 1
    BY DEF Init
  <2>2. <<>> \in [1 .. 0 -> Nat]
    OBVIOUS
  <2>3. \A n \in 1 .. N : ~(0 < n /\ n < at)
    BY <2>1, <1>1
  <2>4. \A i \in 1 .. Len(stdout) : FALSE
    BY <2>1
  <2>5. ~cut
    BY DEF Init
  <2> QED
    BY <2>1, <2>2, <2>3, <2>4, <2>5 DEF Rest
<1>7. Filled(0)
  <2>1. \A k \in 1 .. N : ~(k <= 0)
    BY <1>1
  <2>2. \A k \in 1 .. N - 1 : ~(k <= 0)
    BY <1>1
  <2>3. \A s \in Sides : buf[s] = NewBuffer
    BY DEF Init
  <2>4. NewBuffer.cur_func = {} /\ NewBuffer.vals = {} /\ Sound(NewBuffer)
    BY DEF NewBuffer, Sound, Sized
  <2>5. ASSUME NEW s \in Sides PROVE Announced(buf[s], s, 0) /\ Holds(buf[s], saw, s, 0)
    <3>1. Announced(buf[s], s, 0)
      BY <2>2, <2>3, <2>4 DEF Announced
    <3>2. Holds(buf[s], saw, s, 0)
      BY <2>1, <2>3, <2>4 DEF Holds
    <3> QED
      BY <3>1, <3>2
  <2> QED
    BY <2>3, <2>4, <2>5 DEF Filled, Init
<1>8. Stages
  BY DEF Stages, Init
<1> QED
  BY <1>3, <1>4, <1>5, <1>6, <1>7, <1>8 DEF IInv, Reading

-----------------------------------------------------------------------------
(* The steps of the process *)

LEMMA WrittenGrows ==
  ASSUME NEW sw, NEW sw2, \A s \in Sides : sw[s] \subseteq sw2[s],
         NEW l, NEW n \in 1 .. N, Written(sw, l, n)
  PROVE  Written(sw2, l, n)
<1>1. CASE IsVal(Program[n])
  <2>1. Program[n].id \in Sides
    BY <1>1, LineIs
  <2> QED
    BY <1>1, <2>1 DEF Written
<1>2. CASE ~IsVal(Program[n])
  BY <1>2 DEF Written
<1> QED
  BY <1>1, <1>2

(* Rest in the next state, part by part.                                   *)
LEMMA RestNext ==
  ASSUME NEW q, NEW pos,
         q \in Nat /\ q < at' /\ pos \in [1 .. Len(stdout') -> Nat],
         \A i \in 1 .. Len(stdout') : stdout'[i].info # "noise" =>
           q < pos[i] /\ pos[i] < at' /\ Written(saw', stdout'[i], pos[i]),
         \A i, j \in 1 .. Len(stdout') :
           i < j /\ stdout'[i].info # "noise" /\ stdout'[j].info # "noise" => pos[i] < pos[j],
         \A n \in 1 .. N : q < n /\ n < at' /\ Wrote(saw', n) =>
           \/ \E i \in 1 .. Len(stdout') : stdout'[i].info # "noise" /\ pos[i] = n
           \/ cut' /\ \A i \in 1 .. Len(stdout') : stdout'[i].info # "noise" => pos[i] < n,
         cut' => \E n \in 1 .. N :
           q < n /\ \A i \in 1 .. Len(stdout') : stdout'[i].info # "noise" => pos[i] < n
  PROVE  Rest(q, pos)'
  BY DEF Rest

(* One more line on stdout, of the program or of others.                   *)
LEMMA RestAppend ==
  ASSUME Types, NEW q, NEW pos, Rest(q, pos), ~cut, cut' = cut,
         NEW l \in OutLine, stdout' = Append(stdout, l),
         \A s \in Sides : saw[s] \subseteq saw'[s],
         \A n \in 1 .. N : n < at /\ Wrote(saw', n) => Wrote(saw, n),
         \/ l.info = "noise" /\ at' = at
         \/ l.info # "noise" /\ at' = at + 1 /\ at \in 1 .. N /\ Written(saw', l, at)
  PROVE  \E p : Rest(q, p)'
<1> DEFINE L == Len(stdout)
<1>p. PICK p : p = [i \in 1 .. L + 1 |-> IF i = L + 1 THEN at ELSE pos[i]]
  OBVIOUS
<1>1. L \in Nat /\ at \in Nat /\ at' \in Nat /\ at <= at' /\ N \in Nat /\ at <= N + 1
  <2>1. N \in Nat /\ at \in 1 .. N + 1 /\ stdout \in Seq(OutLine)
    BY ProgramIs DEF Types
  <2>2. Len(stdout) \in Nat
    BY <2>1, LenProperties
  <2> QED
    BY <2>1, <2>2
<1>2. /\ Len(stdout') = L + 1
      /\ \A i \in 1 .. L : stdout'[i] = stdout[i]
      /\ stdout'[L + 1] = l
  <2>1. stdout \in Seq(OutLine)
    BY DEF Types
  <2>2. /\ Len(Append(stdout, l)) = Len(stdout) + 1
        /\ \A i \in 1 .. Len(stdout) : Append(stdout, l)[i] = stdout[i]
        /\ Append(stdout, l)[Len(stdout) + 1] = l
    BY <2>1, AppendProperties
  <2> QED
    BY <2>2
<1>3. /\ q \in Nat /\ q < at /\ pos \in [1 .. L -> Nat]
      /\ \A i \in 1 .. L : stdout[i].info # "noise" =>
           q < pos[i] /\ pos[i] < at /\ Written(saw, stdout[i], pos[i])
      /\ \A i, j \in 1 .. L :
           i < j /\ stdout[i].info # "noise" /\ stdout[j].info # "noise" => pos[i] < pos[j]
      /\ \A n \in 1 .. N : q < n /\ n < at /\ Wrote(saw, n) =>
           \E i \in 1 .. L : stdout[i].info # "noise" /\ pos[i] = n
  BY DEF Rest
<1>4. \A i \in 1 .. L : i \in 1 .. L + 1 /\ i # L + 1 /\ p[i] = pos[i]
  BY <1>1, <1>p
<1>5. p[L + 1] = at /\ L + 1 \in 1 .. L + 1 /\ \A i \in 1 .. L + 1 : i = L + 1 \/ i \in 1 .. L
  BY <1>1, <1>p
<1>6. p \in [1 .. L + 1 -> Nat]
  BY <1>1, <1>3, <1>4, <1>5, <1>p
<1> HIDE DEF L
<1>7. ASSUME NEW i \in 1 .. L + 1, stdout'[i].info # "noise"
      PROVE  q < p[i] /\ p[i] < at' /\ Written(saw', stdout'[i], p[i])
  <2>1. CASE i \in 1 .. L
    <3>1. q < pos[i] /\ pos[i] < at /\ Written(saw, stdout[i], pos[i])
      BY <2>1, <1>2, <1>3, <1>7
    <3>2. pos[i] \in 1 .. N
      BY <2>1, <3>1, <1>1, <1>3
    <3>3. Written(saw', stdout[i], pos[i])
      BY <3>1, <3>2, WrittenGrows
    <3> QED
      BY <2>1, <3>1, <3>2, <3>3, <1>1, <1>2, <1>4
  <2>2. CASE i = L + 1
    <3>1. l.info # "noise" /\ at' = at + 1 /\ Written(saw', l, at)
      BY <2>2, <1>2, <1>7
    <3> QED
      BY <2>2, <3>1, <1>1, <1>2, <1>3, <1>5
  <2> QED
    BY <2>1, <2>2, <1>5
<1>8. ASSUME NEW i \in 1 .. L + 1, NEW j \in 1 .. L + 1, i < j,
             stdout'[i].info # "noise", stdout'[j].info # "noise"
      PROVE  p[i] < p[j]
  <2>1. i \in 1 .. L
    BY <1>1, <1>8
  <2>2. CASE j \in 1 .. L
    BY <2>1, <2>2, <1>2, <1>3, <1>4, <1>8
  <2>3. CASE j = L + 1
    BY <2>1, <2>3, <1>2, <1>3, <1>4, <1>5, <1>8
  <2> QED
    BY <2>2, <2>3, <1>5
<1>9. ASSUME NEW n \in 1 .. N, q < n, n < at', Wrote(saw', n)
      PROVE  \E i \in 1 .. L + 1 : stdout'[i].info # "noise" /\ p[i] = n
  <2>1. CASE n < at
    <3>1. PICK i \in 1 .. L : stdout[i].info # "noise" /\ pos[i] = n
      BY <2>1, <1>3, <1>9
    <3> QED
      BY <3>1, <1>2, <1>4
  <2>2. CASE ~(n < at)
    <3>1. n = at /\ l.info # "noise"
      BY <2>2, <1>1, <1>9
    <3> QED
      BY <3>1, <1>2, <1>5
  <2> QED
    BY <2>1, <2>2
<1>10. q < at'
  BY <1>1, <1>3
<1>11. Rest(q, p)'
  <2>1. p \in [1 .. Len(stdout') -> Nat]
    BY <1>2, <1>6
  <2>2. \A i \in 1 .. Len(stdout') : stdout'[i].info # "noise" =>
          q < p[i] /\ p[i] < at' /\ Written(saw', stdout'[i], p[i])
    BY <1>2, <1>7
  <2>3. \A i, j \in 1 .. Len(stdout') :
          i < j /\ stdout'[i].info # "noise" /\ stdout'[j].info # "noise" => p[i] < p[j]
    BY <1>2, <1>8
  <2>4. \A n \in 1 .. N : q < n /\ n < at' /\ Wrote(saw', n) =>
          \/ \E i \in 1 .. Len(stdout') : stdout'[i].info # "noise" /\ p[i] = n
          \/ cut' /\ \A i \in 1 .. Len(stdout') : stdout'[i].info # "noise" => p[i] < n
    BY <1>2, <1>9
  <2>5. q \in Nat /\ q < at' /\ p \in [1 .. Len(stdout') -> Nat]
    BY <1>3, <1>10, <2>1
  <2>6. ~cut'
    OBVIOUS
  <2> QED
    BY <2>2, <2>3, <2>4, <2>5, <2>6, RestNext
<1> QED
  BY <1>11

(* The buffers are not touched, and what is new was not reported by a line *)
(* that is read already.                                                   *)
LEMMA FilledKept ==
  ASSUME NEW q, Filled(q), buf' = buf, clean' = clean,
         \A s \in Sides : saw[s] \subseteq saw'[s],
         \A s \in Sides : \A f, v, x : \A n \in 1 .. N :
           <<f, v, x>> \in saw'[s] /\ n <= q /\ Program[n] = ValLine(s, f, v) => <<f, v, x>> \in saw[s]
  PROVE  Filled(q)'
<1>1. ASSUME NEW s \in Sides
      PROVE  Announced(buf'[s], s, q) /\ Holds(buf'[s], saw', s, q) /\ Sound(buf'[s])
  <2>1. Announced(buf[s], s, q) /\ Holds(buf[s], saw, s, q) /\ Sound(buf[s])
    BY DEF Filled
  <2>2. saw[s] \subseteq saw'[s]
    OBVIOUS
  <2>3. Holds(buf[s], saw', s, q)
    BY <2>1, <2>2 DEF Holds
  <2> QED
    BY <2>1, <2>3
<1>2. clean' => q = N
  BY DEF Filled
<1> QED
  BY <1>1, <1>2 DEF Filled

(* While the process runs, nothing is decided and nothing is lost.         *)
LEMMA StagesChild ==
  ASSUME IInv, status = "running", UNCHANGED <<buf, clean, run, blame, check>>,
         cut' => status' # "running"
  PROVE  Stages'
<1>1. run = "none" /\ run' = "none"
  BY DEF IInv, Stages
<1> QED
  BY <1>1 DEF Stages

LEMMA RunsUncut ==
  ASSUME IInv, status = "running"
  PROVE  ~cut
  BY DEF IInv, Stages, Types

(* A line that is reached is not yet shown.                                *)
LEMMA NotYetShown ==
  ASSUME IInv, at \in 1 .. N, IsVal(Program[at])
  PROVE  ~Shown(saw, at)
<1>1. SUFFICES ASSUME NEW b, <<Program[at].func, Program[at].val, b>> \in saw[Program[at].id] PROVE FALSE
  BY DEF Shown
<1>2. Program[at].id \in Sides /\ Program[at] = ValLine(Program[at].id, Program[at].func, Program[at].val)
  BY LineIs
<1>3. PICK n \in 1 .. N : n < at /\ Program[n] = ValLine(Program[at].id, Program[at].func, Program[at].val)
  BY <1>1, <1>2 DEF IInv, Reported
<1>4. n = at
  BY <1>2, <1>3, OneLine
<1> QED
  BY <1>3, <1>4, ProgramIs

LEMMA ReportHides ==
  ASSUME IInv, status = "running", at \in 1 .. N, IsVal(Program[at]), Hidden(Program[at]),
         UNCHANGED <<saw, stdout, status, cut>>, at' = at + 1,
         UNCHANGED <<buf, clean, run, blame, check>>
  PROVE  IInv'
<1>1. at \in Nat /\ at' \in 1 .. N + 1 /\ at < at' /\ N \in Nat
  BY ProgramIs
<1>2. Types'
  BY <1>1 DEF IInv, Types
<1>3. Reported'
  <2>1. \A n : n \in 1 .. N /\ n < at => n < at'
    BY <1>1
  <2> QED
    BY <2>1 DEF IInv, Reported
<1>4. Unique'
  BY DEF IInv, Unique
<1>5. HiddenOrShown'
  <2> SUFFICES ASSUME NEW n \in 1 .. N, n < at', IsVal(Program[n])
               PROVE  Shown(saw', n) \/ Hidden(Program[n])'
    BY DEF HiddenOrShown
  <2>1. Hidden(Program[n])' = Hidden(Program[n])
    BY DEF Hidden
  <2>2. CASE n < at
    BY <2>1, <2>2 DEF IInv, HiddenOrShown
  <2>3. CASE n = at
    BY <2>1, <2>3
  <2> QED
    BY <2>2, <2>3, <1>1
<1>6. Reading'
  <2>1. PICK q, pos : Rest(q, pos) /\ Filled(q)
    BY DEF IInv, Reading
  <2>2. q \in Nat /\ q < at
    BY <2>1 DEF Rest
  <2>3. Filled(q)'
    BY <2>1, FilledKept
  <2>4. ~Wrote(saw, at)
    BY NotYetShown DEF Wrote
  <2>5. Rest(q, pos)'
    <3>1. q \in Nat /\ q < at' /\ pos \in [1 .. Len(stdout') -> Nat]
      BY <2>1, <2>2, <1>1 DEF Rest
    <3>2. ASSUME NEW i \in 1 .. Len(stdout'), stdout'[i].info # "noise"
          PROVE  q < pos[i] /\ pos[i] < at' /\ Written(saw', stdout'[i], pos[i])
      <4>1. q < pos[i] /\ pos[i] < at /\ Written(saw, stdout[i], pos[i]) /\ pos[i] \in Nat
        BY <3>2, <2>1 DEF Rest
      <4> QED
        BY <4>1, <1>1
    <3>3. \A i, j \in 1 .. Len(stdout') :
            i < j /\ stdout'[i].info # "noise" /\ stdout'[j].info # "noise" => pos[i] < pos[j]
      BY <2>1 DEF Rest
    <3>4. ASSUME NEW n \in 1 .. N, q < n /\ n < at' /\ Wrote(saw', n)
          PROVE  \/ \E i \in 1 .. Len(stdout') : stdout'[i].info # "noise" /\ pos[i] = n
                 \/ cut' /\ \A i \in 1 .. Len(stdout') : stdout'[i].info # "noise" => pos[i] < n
      <4>1. n < at
        BY <3>4, <2>4, <1>1
      <4> QED
        BY <4>1, <3>4, <2>1 DEF Rest
    <3>5. ~cut'
      BY RunsUncut
    <3> QED
      BY <3>1, <3>2, <3>3, <3>4, <3>5, RestNext
  <2> QED
    BY <2>3, <2>5 DEF Reading
<1>7. Stages'
  BY RunsUncut, StagesChild
<1> QED
  BY <1>2, <1>3, <1>4, <1>5, <1>6, <1>7 DEF IInv

LEMMA ReportShows ==
  ASSUME IInv, status = "running", at \in 1 .. N, IsVal(Program[at]), ~Hidden(Program[at]),
         NEW b \in Bytes(Program[at].func, Program[at].val),
         saw' = [saw EXCEPT ![Program[at].id] = @ \cup {<<Program[at].func, Program[at].val, b>>}],
         stdout' = Append(stdout, [info |-> "val", id |-> Program[at].id,
                                   val |-> Program[at].val, bytes |-> b]),
         at' = at + 1, UNCHANGED <<status, cut>>,
         UNCHANGED <<buf, clean, run, blame, check>>
  PROVE  IInv'
<1>p. PICK id, f, v : id = Program[at].id /\ f = Program[at].func /\ v = Program[at].val
  OBVIOUS
<1>0. /\ id \in Sides /\ f \in Funcs /\ v \in Vals(f) /\ v \in Nat /\ b \in Bytes(f, v) /\ b \in AllBytes
      /\ Program[at] = ValLine(id, f, v)
  BY <1>p, LineIs, BytesType
<1>1. at \in Nat /\ at' \in 1 .. N + 1 /\ at < at' /\ N \in Nat
  BY ProgramIs
<1>l. PICK l : l = [info |-> "val", id |-> id, val |-> v, bytes |-> b]
  OBVIOUS
<1>2. saw' = [saw EXCEPT ![id] = @ \cup {<<f, v, b>>}] /\ stdout' = Append(stdout, l)
  BY <1>p, <1>l
<1>t. Types
  BY DEF IInv
<1>u. ~Shown(saw, at)
  BY NotYetShown
<1>3. /\ saw' \in [Sides -> SUBSET (Funcs \X Nat \X AllBytes)]
      /\ \A s \in Sides : saw[s] \subseteq saw'[s]
      /\ \A s \in Sides : \A g, w, x : <<g, w, x>> \in saw'[s] =>
           <<g, w, x>> \in saw[s] \/ (s = id /\ g = f /\ w = v /\ x = b)
      /\ <<f, v, b>> \in saw'[id]
  <2>1. saw \in [Sides -> SUBSET (Funcs \X Nat \X AllBytes)]
    BY <1>t DEF Types
  <2>2. <<f, v, b>> \in Funcs \X Nat \X AllBytes
    BY <1>0
  <2>3. \A s \in Sides : saw'[s] = IF s = id THEN saw[s] \cup {<<f, v, b>>} ELSE saw[s]
    BY <1>2, <2>1
  <2>4. saw' \in [Sides -> SUBSET (Funcs \X Nat \X AllBytes)]
    <3>1. saw' = [s \in Sides |-> IF s = id THEN saw[s] \cup {<<f, v, b>>} ELSE saw[s]]
      BY <1>2, <2>1
    <3>2. ASSUME NEW s \in Sides
          PROVE  (IF s = id THEN saw[s] \cup {<<f, v, b>>} ELSE saw[s]) \in SUBSET (Funcs \X Nat \X AllBytes)
      <4>1. saw[s] \subseteq Funcs \X Nat \X AllBytes
        BY <2>1
      <4> QED
        BY <4>1, <2>2
    <3> QED
      BY <3>1, <3>2
  <2>5. ASSUME NEW s \in Sides, NEW g, NEW w, NEW x, <<g, w, x>> \in saw'[s]
        PROVE  <<g, w, x>> \in saw[s] \/ (s = id /\ g = f /\ w = v /\ x = b)
    <3>1. CASE s = id
      <4>1. <<g, w, x>> \in saw[s] \/ <<g, w, x>> = <<f, v, b>>
        <5>1. saw'[s] = saw[s] \cup {<<f, v, b>>}
          BY <2>3, <3>1
        <5> QED
          BY <5>1, <2>5
      <4> QED
        BY <4>1, <3>1
    <3>2. CASE s # id
      BY <2>3, <2>5, <3>2
    <3> QED
      BY <3>1, <3>2
  <2>6. \A s \in Sides : saw[s] \subseteq saw'[s]
    BY <2>3
  <2>7. <<f, v, b>> \in saw'[id]
    <3>1. id \in Sides
      BY <1>0
    <3>2. saw'[id] = saw[id] \cup {<<f, v, b>>}
      BY <3>1, <2>3
    <3> QED
      BY <3>2
  <2> QED
    BY <2>4, <2>5, <2>6, <2>7
<1>4. l \in OutLine /\ l.info = "val" /\ l.id = id /\ l.val = v /\ l.bytes = b
  BY <1>0, <1>l DEF OutLine
<1>5. Types'
  <2>1. stdout' \in Seq(OutLine)
    <3>1. stdout \in Seq(OutLine)
      BY <1>t DEF Types
    <3> QED
      BY <3>1, <1>2, <1>4, AppendProperties
  <2> QED
    BY <1>1, <1>3, <1>t, <2>1 DEF Types
<1>6. Reported'
  <2> SUFFICES ASSUME NEW s \in Sides, NEW g, NEW w, NEW x, <<g, w, x>> \in saw'[s]
               PROVE  /\ g \in Funcs /\ w \in Vals(g) /\ x \in Bytes(g, w)
                      /\ \E n \in 1 .. N : n < at' /\ Program[n] = ValLine(s, g, w)
    BY DEF Reported
  <2>1. CASE <<g, w, x>> \in saw[s]
    <3>1. /\ g \in Funcs /\ w \in Vals(g) /\ x \in Bytes(g, w)
          /\ \E n \in 1 .. N : n < at /\ Program[n] = ValLine(s, g, w)
      BY <2>1 DEF IInv, Reported
    <3>2. \A n \in 1 .. N : n < at => n < at'
      BY <1>1
    <3> QED
      BY <3>1, <3>2
  <2>2. CASE s = id /\ g = f /\ w = v /\ x = b
    BY <2>2, <1>0, <1>1
  <2> QED
    BY <2>1, <2>2, <1>3
<1>7. Unique'
  <2> SUFFICES ASSUME NEW s \in Sides, NEW g, NEW w, NEW x, NEW y,
                      <<g, w, x>> \in saw'[s], <<g, w, y>> \in saw'[s]
               PROVE  x = y
    BY DEF Unique
  <2>1. \A z : <<f, v, z>> \notin saw[id]
    BY <1>u, <1>p DEF Shown
  <2>2. CASE <<g, w, x>> \in saw[s] /\ <<g, w, y>> \in saw[s]
    BY <2>2 DEF IInv, Unique
  <2>3. CASE <<g, w, x>> \notin saw[s]
    BY <2>1, <2>3, <1>3
  <2>4. CASE <<g, w, y>> \notin saw[s]
    BY <2>1, <2>4, <1>3
  <2> QED
    BY <2>2, <2>3, <2>4
<1>8. HiddenOrShown'
  <2> SUFFICES ASSUME NEW n \in 1 .. N, n < at', IsVal(Program[n])
               PROVE  Shown(saw', n) \/ Hidden(Program[n])'
    BY DEF HiddenOrShown
  <2>i. Program[n].id \in Sides
    BY LineIs
  <2>1. Hidden(Program[n]) => Hidden(Program[n])'
    BY <2>i, <1>3 DEF Hidden
  <2>2. Shown(saw, n) => Shown(saw', n)
    BY <2>i, <1>3 DEF Shown
  <2>3. CASE n < at
    BY <2>1, <2>2, <2>3 DEF IInv, HiddenOrShown
  <2>4. CASE n = at
    BY <2>4, <1>p, <1>3 DEF Shown
  <2> QED
    BY <2>3, <2>4, <1>1
<1>9. Reading'
  <2>1. PICK q, pos : Rest(q, pos) /\ Filled(q)
    BY DEF IInv, Reading
  <2>2. q \in Nat /\ q < at
    BY <2>1 DEF Rest
  <2>3. Filled(q)'
    <3>1. ASSUME NEW s \in Sides, NEW g, NEW w, NEW x, NEW n \in 1 .. N,
                 <<g, w, x>> \in saw'[s], n <= q, Program[n] = ValLine(s, g, w)
          PROVE  <<g, w, x>> \in saw[s]
      <4>1. SUFFICES ASSUME s = id /\ g = f /\ w = v PROVE FALSE
        BY <3>1, <1>3
      <4>2. n = at
        BY <3>1, <4>1, <1>0, OneLine
      <4> QED
        BY <3>1, <4>2, <2>2, <1>1
    <3> QED
      BY <2>1, <3>1, <1>3, FilledKept
  <2>4. ASSUME NEW n \in 1 .. N, n < at, Wrote(saw', n) PROVE Wrote(saw, n)
    <3>1. SUFFICES ASSUME IsVal(Program[n]) PROVE Shown(saw, n)
      BY DEF Wrote
    <3>2. PICK x : <<Program[n].func, Program[n].val, x>> \in saw'[Program[n].id]
      BY <2>4, <3>1 DEF Wrote, Shown
    <3>3. Program[n].id \in Sides /\ Program[n] = ValLine(Program[n].id, Program[n].func, Program[n].val)
      BY <3>1, LineIs
    <3>4. CASE <<Program[n].func, Program[n].val, x>> \in saw[Program[n].id]
      BY <3>4 DEF Shown
    <3>5. CASE Program[n].id = id /\ Program[n].func = f /\ Program[n].val = v
      <4>1. n = at
        BY <3>3, <3>5, <1>0, OneLine
      <4> QED
        BY <4>1, <2>4, <1>1
    <3> QED
      BY <3>2, <3>3, <3>4, <3>5, <1>3
  <2>5. Written(saw', l, at) /\ l.info # "noise"
    BY <1>p, <1>3, <1>4 DEF Written
  <2>6. ~cut /\ cut' = cut
    BY RunsUncut
  <2>7. \E p : Rest(q, p)'
    BY <2>1, <2>4, <2>5, <2>6, <1>2, <1>3, <1>4, <1>t, RestAppend
  <2> QED
    BY <2>3, <2>7 DEF Reading
<1>10. Stages'
  BY RunsUncut, StagesChild
<1> QED
  BY <1>5, <1>6, <1>7, <1>8, <1>9, <1>10 DEF IInv

(* Nothing new is seen. *)
LEMMA SawKept ==
  ASSUME IInv, saw' = saw,
         at' = at \/ (at' = at + 1 /\ at \in 1 .. N /\ ~IsVal(Program[at]))
  PROVE  Reported' /\ Unique' /\ HiddenOrShown'
<1>0. at \in 1 .. N + 1 /\ N \in Nat
  BY ProgramIs DEF IInv, Types
<1>1. at \in Nat /\ at <= at'
  BY <1>0
<1>2. Reported'
  <2>1. \A n : n \in 1 .. N /\ n < at => n < at'
    BY <1>1
  <2> QED
    BY <2>1 DEF IInv, Reported
<1>3. Unique'
  BY DEF IInv, Unique
<1>4. HiddenOrShown'
  <2> SUFFICES ASSUME NEW n \in 1 .. N, n < at', IsVal(Program[n])
               PROVE  Shown(saw', n) \/ Hidden(Program[n])'
    BY DEF HiddenOrShown
  <2>1. Hidden(Program[n])' = Hidden(Program[n])
    BY DEF Hidden
  <2>2. n < at
    BY <1>1
  <2> QED
    BY <2>1, <2>2 DEF IInv, HiddenOrShown
<1> QED
  BY <1>2, <1>3, <1>4

LEMMA SayFuncOrDoneIInv ==
  ASSUME IInv, SayFuncOrDone, UNCHANGED <<buf, clean, run, blame, check>>
  PROVE  IInv'
<1>1. /\ status = "running" /\ at <= Len(Program) /\ Program[at].info # "val"
      /\ stdout' = Append(stdout, Program[at]) /\ at' = at + 1 /\ UNCHANGED <<saw, status, cut>>
  BY DEF SayFuncOrDone
<1>2. at \in 1 .. N /\ at' \in 1 .. N + 1 /\ at < at' /\ N \in Nat /\ ~IsVal(Program[at])
  <2>1. at \in 1 .. N + 1 /\ N \in Nat
    BY ProgramIs DEF IInv, Types
  <2>2. at <= N
    BY <1>1 DEF N
  <2>3. ~IsVal(Program[at])
    BY <1>1 DEF IsVal
  <2> QED
    BY <2>1, <2>2, <2>3, <1>1
<1>t. Types
  BY DEF IInv
<1>3. Program[at] \in OutLine /\ Program[at].info # "noise" /\ Written(saw', Program[at], at)
  <2>1. Program[at] \in Line
    BY <1>2, ProgramIs, ElementOfSeq DEF N
  <2>2. Program[at].info \in {"func", "val", "done"}
    BY <1>2, LineIs
  <2> QED
    BY <2>1, <2>2, <1>2 DEF OutLine, Written
<1>4. Types'
  <2>1. stdout' \in Seq(OutLine)
    <3>1. stdout \in Seq(OutLine)
      BY <1>t DEF Types
    <3> QED
      BY <3>1, <1>1, <1>3, AppendProperties
  <2> QED
    BY <2>1, <1>1, <1>2, <1>t DEF Types
<1>5. Reported' /\ Unique' /\ HiddenOrShown'
  BY <1>1, <1>2, SawKept
<1>6. ~cut /\ cut' = cut
  BY <1>1, RunsUncut
<1>7. Reading'
  <2>1. PICK q, pos : Rest(q, pos) /\ Filled(q)
    BY DEF IInv, Reading
  <2>2. Filled(q)'
    BY <2>1, <1>1, FilledKept
  <2>3. \A s \in Sides : saw[s] \subseteq saw'[s]
    BY <1>1
  <2>4. \A n \in 1 .. N : n < at /\ Wrote(saw', n) => Wrote(saw, n)
    BY <1>1
  <2>5. \E p : Rest(q, p)'
    BY <2>1, <2>3, <2>4, <1>1, <1>2, <1>3, <1>6, <1>t, RestAppend
  <2> QED
    BY <2>2, <2>5 DEF Reading
<1>8. Stages'
  BY <1>1, <1>6, StagesChild
<1> QED
  BY <1>4, <1>5, <1>7, <1>8 DEF IInv

LEMMA InterjectIInv ==
  ASSUME IInv, Interject, UNCHANGED <<buf, clean, run, blame, check>>
  PROVE  IInv'
<1>p. PICK l : l = [info |-> "noise"]
  OBVIOUS
<1>1. /\ status = "running" /\ stdout' = Append(stdout, l) /\ UNCHANGED <<at, saw, status, cut>>
  BY <1>p DEF Interject
<1>t. Types
  BY DEF IInv
<1>2. l \in OutLine /\ l.info = "noise"
  BY <1>p DEF OutLine
<1>3. Types'
  <2>1. stdout' \in Seq(OutLine)
    <3>1. stdout \in Seq(OutLine)
      BY <1>t DEF Types
    <3> QED
      BY <3>1, <1>1, <1>2, AppendProperties
  <2> QED
    BY <2>1, <1>1, <1>t DEF Types
<1>4. Reported' /\ Unique' /\ HiddenOrShown'
  BY <1>1, SawKept
<1>5. ~cut /\ cut' = cut
  BY <1>1, RunsUncut
<1>6. Reading'
  <2>1. PICK q, pos : Rest(q, pos) /\ Filled(q)
    BY DEF IInv, Reading
  <2>2. Filled(q)'
    BY <2>1, <1>1, FilledKept
  <2>3. \A s \in Sides : saw[s] \subseteq saw'[s]
    BY <1>1
  <2>4. \A n \in 1 .. N : n < at /\ Wrote(saw', n) => Wrote(saw, n)
    BY <1>1
  <2>5. \E p : Rest(q, p)'
    BY <2>1, <2>3, <2>4, <1>1, <1>2, <1>5, <1>t, RestAppend
  <2> QED
    BY <2>2, <2>5 DEF Reading
<1>7. Stages'
  BY <1>1, <1>5, StagesChild
<1> QED
  BY <1>3, <1>4, <1>6, <1>7 DEF IInv

(* The process ends and nothing is lost.                                   *)
LEMMA ReturnIInv ==
  ASSUME IInv, status = "running", status' = "success", UNCHANGED <<at, saw, stdout, cut>>,
         UNCHANGED <<buf, clean, run, blame, check>>
  PROVE  IInv'
<1>1. Types'
  BY DEF IInv, Types
<1>2. Reported' /\ Unique' /\ HiddenOrShown'
  BY SawKept
<1>3. Reading'
  <2>1. PICK q, pos : Rest(q, pos) /\ Filled(q)
    BY DEF IInv, Reading
  <2>2. Filled(q)'
    BY <2>1, FilledKept
  <2>3. Rest(q, pos)'
    BY <2>1 DEF Rest
  <2> QED
    BY <2>2, <2>3 DEF Reading
<1>4. Stages'
  BY RunsUncut, StagesChild
<1> QED
  BY <1>1, <1>2, <1>3, <1>4 DEF IInv

(* The process ends, with any status, and lines may be lost.               *)
LEMMA LossIInv ==
  ASSUME IInv, status = "running", status' \in {"success", "failure"}, LoseBuffered,
         UNCHANGED <<at, saw>>, UNCHANGED <<buf, clean, run, blame, check>>
  PROVE  IInv'
<1>1. status = "running" /\ status' \in {"success", "failure"} /\ UNCHANGED <<at, saw>>
  OBVIOUS
<1>2. PICK k \in 0 .. Len(stdout) :
        /\ stdout' = SubSeq(stdout, 1, k)
        /\ cut' = \E i \in k + 1 .. Len(stdout) : stdout[i].info # "noise"
  BY DEF LoseBuffered
<1>t. stdout \in Seq(OutLine) /\ Len(stdout) \in Nat /\ ~cut
  <2>1. stdout \in Seq(OutLine)
    BY DEF IInv, Types
  <2> QED
    BY <2>1, <1>1, RunsUncut, LenProperties
<1>3. /\ stdout' \in Seq(OutLine) /\ Len(stdout') = k
      /\ \A i \in 1 .. k : stdout'[i] = stdout[i]
  <2>1. \A i \in 1 .. k : stdout[i] \in OutLine
    BY <1>t, ElementOfSeq
  <2>2. /\ SubSeq(stdout, 1, k) \in Seq(OutLine)
        /\ Len(SubSeq(stdout, 1, k)) = IF 1 <= k THEN k - 1 + 1 ELSE 0
        /\ \A i \in 1 .. k - 1 + 1 : SubSeq(stdout, 1, k)[i] = stdout[1 + i - 1]
    BY <2>1, SubSeqProperties
  <2>3. k - 1 + 1 = k /\ \A i \in 1 .. k : 1 + i - 1 = i
    OBVIOUS
  <2>4. (IF 1 <= k THEN k - 1 + 1 ELSE 0) = k
    BY <1>t
  <2> QED
    BY <2>2, <2>3, <2>4, <1>2
<1>4. Types'
  <2>1. cut' \in BOOLEAN
    BY <1>2
  <2> QED
    BY <2>1, <1>1, <1>3 DEF IInv, Types
<1>5. Reported' /\ Unique' /\ HiddenOrShown'
  BY <1>1, SawKept
<1>6. Reading'
  <2>1. PICK q, pos : Rest(q, pos) /\ Filled(q)
    BY DEF IInv, Reading
  <2>2. Filled(q)'
    BY <2>1, <1>1, FilledKept
  <2>p. PICK p : p = [i \in 1 .. k |-> pos[i]]
    OBVIOUS
  <2>3. \A i \in 1 .. k : i \in 1 .. Len(stdout) /\ p[i] = pos[i]
    BY <1>t, <2>p
  <2>4. q \in Nat /\ q < at' /\ p \in [1 .. Len(stdout') -> Nat]
    BY <2>1, <2>3, <2>p, <1>1, <1>3 DEF Rest
  <2>5. \A i \in 1 .. Len(stdout') : stdout'[i].info # "noise" =>
          q < p[i] /\ p[i] < at' /\ Written(saw', stdout'[i], p[i])
    BY <2>1, <2>3, <1>1, <1>3 DEF Rest
  <2>6. \A i, j \in 1 .. Len(stdout') :
          i < j /\ stdout'[i].info # "noise" /\ stdout'[j].info # "noise" => p[i] < p[j]
    BY <2>1, <2>3, <1>3 DEF Rest
  <2>7. ASSUME NEW n \in 1 .. N, q < n /\ n < at' /\ Wrote(saw', n)
        PROVE  \/ \E i \in 1 .. Len(stdout') : stdout'[i].info # "noise" /\ p[i] = n
               \/ cut' /\ \A i \in 1 .. Len(stdout') : stdout'[i].info # "noise" => p[i] < n
    <3>1. PICK i \in 1 .. Len(stdout) : stdout[i].info # "noise" /\ pos[i] = n
      BY <2>1, <2>7, <1>1, <1>t DEF Rest
    <3>2. CASE i <= k
      <4>1. i \in 1 .. k
        BY <3>2
      <4> QED
        BY <4>1, <3>1, <2>3, <1>3
    <3>3. CASE k < i
      <4>1. cut'
        <5>1. i \in k + 1 .. Len(stdout)
          BY <3>3, <1>t
        <5> QED
          BY <5>1, <3>1, <1>2
      <4>2. \A j \in 1 .. k : j < i
        BY <3>3
      <4>3. \A j \in 1 .. k : stdout'[j].info # "noise" => p[j] < n
        BY <4>2, <3>1, <2>1, <2>3, <1>3 DEF Rest
      <4> QED
        BY <4>1, <4>3, <1>3
    <3> QED
      BY <3>2, <3>3, <1>t
  <2>8. ASSUME cut'
        PROVE  \E n \in 1 .. N :
                 q < n /\ \A i \in 1 .. Len(stdout') : stdout'[i].info # "noise" => p[i] < n
    <3>1. PICK i \in k + 1 .. Len(stdout) : stdout[i].info # "noise"
      BY <2>8, <1>2
    <3>2. i \in 1 .. Len(stdout) /\ \A j \in 1 .. k : j < i
      BY <3>1, <1>t
    <3>3. q < pos[i] /\ pos[i] < at /\ pos[i] \in Nat
      BY <3>1, <3>2, <2>1 DEF Rest
    <3>4. pos[i] \in 1 .. N
      <4>1. at \in 1 .. N + 1 /\ N \in Nat /\ q \in Nat
        BY <2>4, ProgramIs DEF IInv, Types
      <4> QED
        BY <4>1, <3>3
    <3>5. \A j \in 1 .. k : stdout'[j].info # "noise" => p[j] < pos[i]
      BY <3>1, <3>2, <2>1, <2>3, <1>3 DEF Rest
    <3> QED
      BY <3>3, <3>4, <3>5, <1>3
  <2>9. Rest(q, p)'
    BY <2>4, <2>5, <2>6, <2>7, <2>8, RestNext
  <2> QED
    BY <2>2, <2>9 DEF Reading
<1>7. Stages'
  BY <1>1, StagesChild
<1> QED
  BY <1>4, <1>5, <1>6, <1>7 DEF IInv

LEMMA ChildIInv ==
  ASSUME IInv, Child
  PROVE  IInv'
<1>u. UNCHANGED <<buf, clean, run, blame, check>>
  BY DEF Child
<1>n. Len(Program) = N /\ at \in 1 .. N + 1 /\ N \in Nat
  BY ProgramIs DEF IInv, Types, N
<1>1. CASE Report
  <2>1. status = "running" /\ at \in 1 .. N /\ IsVal(Program[at]) /\ at' = at + 1 /\ UNCHANGED <<status, cut>>
    BY <1>1, <1>n DEF Report, IsVal
  <2>2. CASE Hidden(Program[at])
    <3>1. UNCHANGED <<saw, stdout>>
      BY <1>1, <2>2 DEF Report
    <3> QED
      BY <2>1, <2>2, <3>1, <1>u, ReportHides
  <2>3. CASE ~Hidden(Program[at])
    <3>1. PICK b \in Bytes(Program[at].func, Program[at].val) :
            /\ saw' = [saw EXCEPT ![Program[at].id] = @ \cup {<<Program[at].func, Program[at].val, b>>}]
            /\ stdout' = Append(stdout, [info |-> "val", id |-> Program[at].id,
                                         val |-> Program[at].val, bytes |-> b])
      BY <1>1, <2>3 DEF Report
    <3> QED
      BY <2>1, <2>3, <3>1, <1>u, ReportShows
  <2> QED
    BY <2>2, <2>3
<1>2. CASE SayFuncOrDone
  BY <1>2, <1>u, SayFuncOrDoneIInv
<1>3. CASE Interject
  BY <1>3, <1>u, InterjectIInv
<1>4. CASE Return
  BY <1>4, <1>u, ReturnIInv DEF Return
<1>5. CASE Crash
  BY <1>5, <1>u, LossIInv DEF Crash
<1>6. CASE EndEarly
  BY <1>6, <1>u, LossIInv DEF EndEarly
<1> QED
  BY <1>1, <1>2, <1>3, <1>4, <1>5, <1>6 DEF Child

-----------------------------------------------------------------------------
(* The steps of run_bin_test *)

(* Between the last line read and the next one of the program on stdout    *)
(* the program wrote nothing.                                              *)
Gap(q, n) == \A k \in 1 .. N : q < k /\ k < n => ~Wrote(saw, k)

LEMMA GapBefore ==
  ASSUME at \in Nat, NEW q, NEW pos, Rest(q, pos), Len(stdout) \in Nat, Len(stdout) >= 1, stdout[1].info # "noise"
  PROVE  Gap(q, pos[1])
<1> SUFFICES ASSUME NEW k \in 1 .. N, q < k, k < pos[1], Wrote(saw, k) PROVE FALSE
  BY DEF Gap
<1>1. 1 \in 1 .. Len(stdout) /\ \A i \in 1 .. Len(stdout) : i = 1 \/ 1 < i
  OBVIOUS
<1>2. pos[1] < at /\ pos[1] \in Nat /\ k < at
  <2>1. pos[1] < at /\ pos[1] \in Nat /\ q \in Nat
    BY <1>1 DEF Rest
  <2> QED
    BY <2>1, ProgramIs
<1>3. CASE \E i \in 1 .. Len(stdout) : stdout[i].info # "noise" /\ pos[i] = k
  <2>1. PICK i \in 1 .. Len(stdout) : stdout[i].info # "noise" /\ pos[i] = k
    BY <1>3
  <2>2. i # 1
    BY <2>1, <1>2, ProgramIs
  <2>3. pos[1] < pos[i]
    BY <2>1, <2>2, <1>1 DEF Rest
  <2> QED
    BY <2>1, <2>3, <1>2, ProgramIs
<1>4. CASE \A i \in 1 .. Len(stdout) : stdout[i].info # "noise" => pos[i] < k
  BY <1>1, <1>2, <1>4, ProgramIs
<1> QED
  BY <1>2, <1>3, <1>4 DEF Rest

LEMMA RestTail ==
  ASSUME Types, NEW q, NEW pos, Rest(q, pos), stdout # <<>>, stdout' = Tail(stdout),
         UNCHANGED <<at, saw, cut>>, NEW q2,
         \/ stdout[1].info = "noise" /\ q2 = q
         \/ stdout[1].info # "noise" /\ q2 = pos[1]
  PROVE  \E p : Rest(q2, p)'
<1> DEFINE L == Len(stdout)
<1>1. /\ stdout \in Seq(OutLine) /\ L \in Nat /\ L >= 1 /\ Len(stdout') = L - 1
      /\ \A i \in 1 .. L - 1 : stdout'[i] = stdout[i + 1]
  <2>1. stdout \in Seq(OutLine)
    BY DEF Types
  <2>2. L \in Nat /\ L # 0
    BY <2>1, LenProperties, EmptySeq
  <2>3. Len(Tail(stdout)) = L - 1 /\ \A i \in 1 .. Len(Tail(stdout)) : Tail(stdout)[i] = stdout[i + 1]
    BY <2>1, HeadTailProperties
  <2> QED
    BY <2>1, <2>2, <2>3
<1>2. at \in Nat /\ at' = at /\ saw' = saw /\ cut' = cut /\ N \in Nat
  <2>1. N \in Nat /\ at \in 1 .. N + 1
    BY ProgramIs DEF Types
  <2> QED
    BY <2>1
<1>3. /\ q \in Nat /\ q < at /\ pos \in [1 .. L -> Nat]
      /\ \A i \in 1 .. L : stdout[i].info # "noise" =>
           q < pos[i] /\ pos[i] < at /\ Written(saw, stdout[i], pos[i])
      /\ \A i, j \in 1 .. L :
           i < j /\ stdout[i].info # "noise" /\ stdout[j].info # "noise" => pos[i] < pos[j]
      /\ \A n \in 1 .. N : q < n /\ n < at /\ Wrote(saw, n) =>
           \/ \E i \in 1 .. L : stdout[i].info # "noise" /\ pos[i] = n
           \/ cut /\ \A i \in 1 .. L : stdout[i].info # "noise" => pos[i] < n
      /\ cut => \E n \in 1 .. N : q < n /\ \A i \in 1 .. L : stdout[i].info # "noise" => pos[i] < n
  BY DEF Rest
<1>p. PICK p : p = [i \in 1 .. L - 1 |-> pos[i + 1]]
  OBVIOUS
<1> HIDE DEF L
<1>4. \A i \in 1 .. L - 1 : i + 1 \in 1 .. L /\ p[i] = pos[i + 1] /\ 1 < i + 1
  BY <1>1, <1>p
<1>5. 1 \in 1 .. L /\ \A i \in 1 .. L : i = 1 \/ (i - 1 \in 1 .. L - 1 /\ i - 1 + 1 = i)
  BY <1>1
<1>6. q2 \in Nat /\ q <= q2 /\ q2 < at
  BY <1>2, <1>3, <1>5
<1>7. p \in [1 .. L - 1 -> Nat]
  BY <1>3, <1>4, <1>p
<1>8. ASSUME NEW i \in 1 .. L - 1, stdout'[i].info # "noise"
      PROVE  q2 < p[i] /\ p[i] < at' /\ Written(saw', stdout'[i], p[i])
  <2>1. stdout[i + 1].info # "noise" /\ i + 1 \in 1 .. L
    BY <1>1, <1>4, <1>8
  <2>2. q < pos[i + 1] /\ pos[i + 1] < at /\ Written(saw, stdout[i + 1], pos[i + 1])
    BY <2>1, <1>3
  <2>3. q2 < pos[i + 1]
    <3>1. CASE stdout[1].info = "noise" /\ q2 = q
      BY <3>1, <2>2
    <3>2. CASE stdout[1].info # "noise" /\ q2 = pos[1]
      BY <3>2, <2>1, <1>3, <1>4, <1>5
    <3> QED
      BY <3>1, <3>2
  <2> QED
    BY <2>2, <2>3, <1>1, <1>2, <1>4
<1>9. ASSUME NEW i \in 1 .. L - 1, NEW j \in 1 .. L - 1, i < j,
             stdout'[i].info # "noise", stdout'[j].info # "noise"
      PROVE  p[i] < p[j]
  <2>1. i + 1 < j + 1
    BY <1>1, <1>9
  <2> QED
    BY <2>1, <1>1, <1>3, <1>4, <1>9
<1>10. ASSUME NEW n \in 1 .. N, q2 < n /\ n < at' /\ Wrote(saw', n)
       PROVE  \/ \E i \in 1 .. L - 1 : stdout'[i].info # "noise" /\ p[i] = n
              \/ cut' /\ \A i \in 1 .. L - 1 : stdout'[i].info # "noise" => p[i] < n
  <2>1. q < n /\ n < at /\ Wrote(saw, n)
    BY <1>2, <1>3, <1>6, <1>10
  <2>2. CASE \E i \in 1 .. L : stdout[i].info # "noise" /\ pos[i] = n
    <3>1. PICK i \in 1 .. L : stdout[i].info # "noise" /\ pos[i] = n
      BY <2>2
    <3>2. i # 1
      BY <3>1, <1>6, <1>10
    <3>3. PICK k \in 1 .. L - 1 : k + 1 = i
      BY <3>2, <1>5
    <3>4. stdout'[k].info # "noise" /\ p[k] = n
      BY <3>1, <3>3, <1>1, <1>4
    <3> QED
      BY <3>4
  <2>3. CASE cut /\ \A i \in 1 .. L : stdout[i].info # "noise" => pos[i] < n
    BY <2>3, <1>1, <1>2, <1>4
  <2> QED
    BY <2>1, <2>2, <2>3, <1>3
<1>11. Rest(q2, p)'
  <2>1. q2 \in Nat /\ q2 < at' /\ p \in [1 .. Len(stdout') -> Nat]
    BY <1>1, <1>2, <1>6, <1>7
  <2>2. \A i \in 1 .. Len(stdout') : stdout'[i].info # "noise" =>
          q2 < p[i] /\ p[i] < at' /\ Written(saw', stdout'[i], p[i])
    BY <1>1, <1>8
  <2>3. \A i, j \in 1 .. Len(stdout') :
          i < j /\ stdout'[i].info # "noise" /\ stdout'[j].info # "noise" => p[i] < p[j]
    BY <1>1, <1>9
  <2>4. \A n \in 1 .. N : q2 < n /\ n < at' /\ Wrote(saw', n) =>
          \/ \E i \in 1 .. Len(stdout') : stdout'[i].info # "noise" /\ p[i] = n
          \/ cut' /\ \A i \in 1 .. Len(stdout') : stdout'[i].info # "noise" => p[i] < n
    BY <1>1, <1>10
  <2>5. ASSUME cut'
        PROVE  \E n \in 1 .. N :
                 q2 < n /\ \A i \in 1 .. Len(stdout') : stdout'[i].info # "noise" => p[i] < n
    <3>1. PICK n \in 1 .. N : q < n /\ \A i \in 1 .. L : stdout[i].info # "noise" => pos[i] < n
      BY <2>5, <1>2, <1>3
    <3>2. q2 < n
      BY <3>1, <1>5
    <3>3. \A i \in 1 .. L - 1 : stdout'[i].info # "noise" => p[i] < n
      BY <3>1, <1>1, <1>4
    <3> QED
      BY <3>2, <3>3, <1>1
  <2> QED
    BY <2>1, <2>2, <2>3, <2>4, <2>5, RestNext
<1> QED
  BY <1>11

(* A buffer that the next line of the program does not concern.            *)
LEMMA AnnouncedMoves ==
  ASSUME NEW b, NEW s, NEW q \in Nat, NEW n \in 1 .. N, q < n, Gap(q, n), Announced(b, s, q),
         ~IsFunc(Program[n], s)
  PROVE  Announced(b, s, n)
<1>0. N \in Nat
  BY ProgramIs
<1>1. ASSUME NEW k \in 1 .. N - 1, q < k, k <= n PROVE ~IsFunc(Program[k], s)
  <2>1. CASE k < n
    <3>1. k \in 1 .. N
      BY <1>0
    <3>2. ~Wrote(saw, k)
      BY <2>1, <3>1, <1>1 DEF Gap
    <3>3. Program[k].info = "val"
      BY <3>2 DEF Wrote, IsVal
    <3> QED
      BY <3>3 DEF IsFunc
  <2>2. CASE k = n
    BY <2>2
  <2> QED
    BY <2>1, <2>2, <1>0, <1>1
<1>2. \A k \in 1 .. N - 1 : k <= n => k <= q \/ q < k
  BY <1>0
<1>3. CASE b.cur_func = {} /\ \A k \in 1 .. N - 1 : k <= q => ~IsFunc(Program[k], s)
  BY <1>1, <1>2, <1>3 DEF Announced
<1>4. CASE \E k \in 1 .. N - 1 :
             /\ k <= q /\ IsFunc(Program[k], s) /\ b.cur_func = {Program[k].func}
             /\ \A j \in 1 .. N - 1 : k < j /\ j <= q => ~IsFunc(Program[j], s)
  <2>1. PICK k \in 1 .. N - 1 :
          /\ k <= q /\ IsFunc(Program[k], s) /\ b.cur_func = {Program[k].func}
          /\ \A j \in 1 .. N - 1 : k < j /\ j <= q => ~IsFunc(Program[j], s)
    BY <1>4
  <2>2. k <= n
    BY <2>1, <1>0
  <2>3. \A j \in 1 .. N - 1 : k < j /\ j <= n => ~IsFunc(Program[j], s)
    BY <2>1, <1>1, <1>2
  <2> QED
    BY <2>1, <2>2, <2>3 DEF Announced
<1> QED
  BY <1>3, <1>4 DEF Announced

LEMMA HoldsMoves ==
  ASSUME NEW b, NEW s \in Sides, NEW q \in Nat, NEW n \in 1 .. N, q < n, Gap(q, n), Holds(b, saw, s, q),
         \A f, v : Program[n] # ValLine(s, f, v)
  PROVE  Holds(b, saw, s, n)
<1>0. N \in Nat
  BY ProgramIs
<1>1. ASSUME NEW f, NEW v, NEW x, <<f, v, x>> \in b.vals
      PROVE  /\ <<f, v, x>> \in saw[s]
             /\ \E k \in 1 .. N : k <= n /\ Program[k] = ValLine(s, f, v)
  <2>1. <<f, v, x>> \in saw[s] /\ \E k \in 1 .. N : k <= q /\ Program[k] = ValLine(s, f, v)
    BY <1>1 DEF Holds
  <2>2. \A k \in 1 .. N : k <= q => k <= n
    BY <1>0
  <2> QED
    BY <2>1, <2>2
<1>2. ASSUME NEW f, NEW v, NEW x, NEW k \in 1 .. N,
             <<f, v, x>> \in saw[s], k <= n, Program[k] = ValLine(s, f, v)
      PROVE  <<f, v, x>> \in b.vals
  <2>1. CASE k <= q
    BY <2>1, <1>2 DEF Holds
  <2>2. CASE ~(k <= q)
    <3>1. k # n
      BY <1>2
    <3>2. q < k /\ k < n
      BY <2>2, <3>1, <1>0, <1>2
    <3>3. IsVal(Program[k]) /\ Shown(saw, k)
      <4>1. IsVal(Program[k]) /\ Program[k].id = s /\ Program[k].func = f /\ Program[k].val = v
        BY <1>2, ValLineIs
      <4> QED
        BY <4>1, <1>2 DEF Shown
    <3> QED
      BY <3>2, <3>3 DEF Gap, Wrote
  <2> QED
    BY <2>1, <2>2
<1> QED
  BY <1>1, <1>2 DEF Holds

(* WriteVal, when the side has announced f and not reported v before.      *)
LEMMA WriteValIs ==
  ASSUME NEW b \in Buffer, NEW f \in Funcs, b.cur_func = {f}, NEW v \in Nat, NEW x \in AllBytes,
         BytesOf(b, f, v) = {}, NEW c, c = WriteVal(b, v, x)
  PROVE  /\ c \in Buffer /\ c.cur_func = {f} /\ c.vals = b.vals \cup {<<f, v, x>>}
         /\ c.missing_set_func = b.missing_set_func /\ c.double_writes = b.double_writes
         /\ c.len = [b.len EXCEPT ![f] = IF @ > v THEN @ ELSE v + 1]
<1>1. /\ b.vals \in SUBSET (Funcs \X Nat \X AllBytes) /\ b.len \in [Funcs -> Nat]
      /\ b.missing_set_func \in BOOLEAN /\ b.double_writes \in SUBSET (Funcs \X Nat)
      /\ b = [vals |-> b.vals, len |-> b.len, cur_func |-> b.cur_func,
              missing_set_func |-> b.missing_set_func, double_writes |-> b.double_writes]
  BY DEF Buffer
<1>2. (CHOOSE g \in b.cur_func : TRUE) = f
  OBVIOUS
<1> DEFINE wider == [b EXCEPT !.len[f] = IF @ > v THEN @ ELSE v + 1]
           w == [wider EXCEPT !.vals = @ \cup {<<f, v, x>>}]
<1>3. b.cur_func # {}
  OBVIOUS
<1>4. WriteVal(b, v, x) = w
  BY <1>2, <1>3 DEF WriteVal
<1>5. PICK len : len = [b.len EXCEPT ![f] = IF @ > v THEN @ ELSE v + 1]
  OBVIOUS
<1>6. len \in [Funcs -> Nat]
  <2>1. (IF b.len[f] > v THEN b.len[f] ELSE v + 1) \in Nat
    BY <1>1
  <2> QED
    BY <2>1, <1>1, <1>5
<1>7. w = [vals |-> b.vals \cup {<<f, v, x>>}, len |-> len, cur_func |-> b.cur_func,
           missing_set_func |-> b.missing_set_func, double_writes |-> b.double_writes]
  <2>1. wider = [b EXCEPT !.len = len]
    BY <1>5
  <2>2. wider = [vals |-> b.vals, len |-> len, cur_func |-> b.cur_func,
                 missing_set_func |-> b.missing_set_func, double_writes |-> b.double_writes]
    <3> HIDE DEF wider
    <3> QED BY <2>1, <1>1
  <2> HIDE DEF wider
  <2> QED
    BY <2>2
<1> HIDE DEF w
<1>8. b.vals \cup {<<f, v, x>>} \in SUBSET (Funcs \X Nat \X AllBytes)
  <2>1. <<f, v, x>> \in Funcs \X Nat \X AllBytes
    OBVIOUS
  <2> QED
    BY <2>1, <1>1
<1>9. b.cur_func \in SUBSET Funcs
  OBVIOUS
<1>10. w \in Buffer
  BY <1>1, <1>6, <1>7, <1>8, <1>9 DEF Buffer
<1> QED
  BY <1>4, <1>5, <1>7, <1>10

Stores(b, c, f, v, x) ==
  /\ c.vals = b.vals \cup {<<f, v, x>>}
  /\ c.len = [b.len EXCEPT ![f] = IF @ > v THEN @ ELSE v + 1]
LEMMA WriteValSized ==
  ASSUME NEW b \in Buffer, Sized(b), NEW f \in Funcs, NEW v \in Nat, NEW x, NEW c,
         Stores(b, c, f, v, x)
  PROVE  Sized(c)
<1> USE DEF Stores
<1>1. b.len \in [Funcs -> Nat] /\ b.vals \subseteq Funcs \X Nat \X AllBytes
  BY DEF Buffer
<1>2. ASSUME NEW g \in Funcs
      PROVE  /\ c.len[g] = IF g = f THEN (IF b.len[f] > v THEN b.len[f] ELSE v + 1) ELSE b.len[g]
             /\ b.len[g] \in Nat
  BY <1>1
<1>3. ASSUME NEW g \in Funcs, NEW u, NEW y, <<g, u, y>> \in c.vals PROVE u < c.len[g]
  <2>1. CASE <<g, u, y>> \in b.vals
    <3>1. u < b.len[g] /\ u \in Nat
      BY <2>1, <1>1 DEF Sized
    <3> QED
      BY <3>1, <1>2
  <2>2. CASE g = f /\ u = v
    BY <2>2, <1>2
  <2> QED
    BY <2>1, <2>2, <1>3
<1>4. ASSUME NEW g \in Funcs, c.len[g] # 0 PROVE \E y : <<g, c.len[g] - 1, y>> \in c.vals
  <2>1. CASE g = f /\ ~(b.len[f] > v)
    <3>1. c.len[g] - 1 = v
      BY <2>1, <1>2
    <3> QED
      BY <3>1, <2>1
  <2>2. CASE g # f \/ b.len[f] > v
    <3>1. c.len[g] = b.len[g]
      BY <2>2, <1>2
    <3>2. \E y : <<g, b.len[g] - 1, y>> \in b.vals
      BY <3>1, <1>4 DEF Sized
    <3> QED
      BY <3>1, <3>2
  <2> QED
    BY <2>1, <2>2
<1> QED
  BY <1>3, <1>4 DEF Sized

(* The head of stdout is of others, or is what the next line to be read of *)
(* the program wrote.                                                      *)
LEMMA HeadIs ==
  ASSUME IInv, stdout # <<>>, NEW q, NEW pos, Rest(q, pos)
  PROVE  /\ Head(stdout) = stdout[1] /\ q \in Nat /\ Len(stdout) \in Nat /\ Len(stdout) >= 1
         /\ stdout[1].info # "noise" =>
              /\ pos[1] \in 1 .. N /\ q < pos[1] /\ pos[1] < at /\ Gap(q, pos[1])
              /\ Written(saw, stdout[1], pos[1])
<1>1. stdout \in Seq(OutLine) /\ at \in 1 .. N + 1 /\ N \in Nat
  BY ProgramIs DEF IInv, Types
<1>2. Len(stdout) \in Nat /\ Len(stdout) # 0
  BY <1>1, LenProperties, EmptySeq
<1>3. Head(stdout) = stdout[1] /\ 1 \in 1 .. Len(stdout) /\ Len(stdout) >= 1
  BY <1>1, <1>2
<1>4. q \in Nat /\ (stdout[1].info # "noise" =>
        pos[1] \in Nat /\ q < pos[1] /\ pos[1] < at /\ Written(saw, stdout[1], pos[1]))
  BY <1>3 DEF Rest
<1>5. stdout[1].info # "noise" => Gap(q, pos[1])
  BY <1>1, <1>2, <1>3, GapBefore
<1>6. stdout[1].info # "noise" => pos[1] \in 1 .. N
  BY <1>1, <1>4
<1> QED
  BY <1>2, <1>3, <1>4, <1>5, <1>6

(* The value a side reports next is of the function it announced, and new. *)
LEMMA ValueIsNew ==
  ASSUME IInv, NEW q \in Nat, Filled(q), NEW n \in 1 .. N, q < n, Gap(q, n), IsVal(Program[n])
  PROVE  /\ buf[Program[n].id].cur_func = {Program[n].func}
         /\ BytesOf(buf[Program[n].id], Program[n].func, Program[n].val) = {}
<1> DEFINE s == Program[n].id
           f == Program[n].func
           v == Program[n].val
<1>1. n \in 1 .. N - 1 /\ s \in Sides /\ f \in Funcs /\ Program[n] = ValLine(s, f, v) /\ N \in Nat
  BY LineIs, ProgramIs
<1>2. Announced(buf[s], s, q) /\ Holds(buf[s], saw, s, q)
  BY <1>1 DEF Filled
<1>3. ~IsFunc(Program[n], s)
  BY DEF IsVal, IsFunc
<1>4. Announced(buf[s], s, n)
  BY <1>2, <1>3, AnnouncedMoves
<1>5. PICK m \in 1 .. N - 1 : m < n /\ IsFunc(Program[m], s)
  <2>1. PICK m \in 1 .. N - 1 : m < n /\ Program[m] = FuncLine(s, f)
    BY <1>1, ProgramIs
  <2> QED
    BY <2>1 DEF FuncLine, IsFunc
<1> HIDE DEF s, f, v
<1>6. m <= n
  BY <1>1, <1>5
<1>7. PICK k \in 1 .. N - 1 :
        /\ k <= n /\ IsFunc(Program[k], s) /\ buf[s].cur_func = {Program[k].func}
        /\ \A j \in 1 .. N - 1 : k < j /\ j <= n => ~IsFunc(Program[j], s)
  BY <1>4, <1>5, <1>6 DEF Announced
<1>8. Program[k].func = f
  BY <1>1, <1>7, LastAnnounced DEF s, f
<1>9. BytesOf(buf[s], f, v) = {}
  <2> SUFFICES ASSUME NEW x, <<f, v, x>> \in buf[s].vals PROVE FALSE
    BY DEF BytesOf
  <2>1. PICK k2 \in 1 .. N : k2 <= q /\ Program[k2] = ValLine(s, f, v)
    BY <1>2 DEF Holds
  <2>2. k2 = n
    BY <2>1, <1>1, OneLine
  <2> QED
    BY <2>1, <2>2, <1>1
<1> QED
  BY <1>7, <1>8, <1>9 DEF s, f, v

LEMMA FilledNext ==
  ASSUME NEW n, \A s \in Sides : Announced(buf'[s], s, n) /\ Holds(buf'[s], saw', s, n) /\ Sound(buf'[s]),
         clean' => n = N
  PROVE  Filled(n)'
  BY DEF Filled

LEMMA ReadVal ==
  ASSUME IInv, NEW q \in Nat, Filled(q), NEW n \in 1 .. N, q < n, Gap(q, n), IsVal(Program[n]),
         NEW l, Written(saw, l, n), buf' = [buf EXCEPT ![l.id] = WriteVal(@, l.val, l.bytes)],
         clean' = clean, saw' = saw
  PROVE  buf' \in [Sides -> Buffer] /\ Filled(n)'
<1>p. PICK id, f, v, x : id = l.id /\ f = Program[n].func /\ v = l.val /\ x = l.bytes
  OBVIOUS
<1>1. /\ id = Program[n].id /\ v = Program[n].val /\ <<f, v, x>> \in saw[id]
      /\ id \in Sides /\ f \in Funcs /\ v \in Nat /\ Program[n] = ValLine(id, f, v)
      /\ n \in 1 .. N - 1
  <2>1. id = Program[n].id /\ v = Program[n].val /\ <<f, v, x>> \in saw[id]
    BY <1>p DEF Written
  <2> QED
    BY <2>1, <1>p, LineIs
<1>2. x \in AllBytes
  <2>1. f \in Funcs /\ v \in Vals(f) /\ x \in Bytes(f, v)
    BY <1>1 DEF IInv, Reported
  <2> QED
    BY <2>1, BytesType
<1>3. buf[id].cur_func = {f} /\ BytesOf(buf[id], f, v) = {}
  BY <1>1, <1>p, ValueIsNew
<1>b. buf \in [Sides -> Buffer] /\ buf[id] \in Buffer
  BY <1>1 DEF IInv, Types
<1>w. PICK w : w = WriteVal(buf[id], v, x)
  OBVIOUS
<1>4. /\ w \in Buffer /\ w.cur_func = {f} /\ w.vals = buf[id].vals \cup {<<f, v, x>>}
      /\ w.missing_set_func = buf[id].missing_set_func /\ w.double_writes = buf[id].double_writes
      /\ w.len = [buf[id].len EXCEPT ![f] = IF @ > v THEN @ ELSE v + 1]
  <2>1. /\ buf[id] \in Buffer /\ f \in Funcs /\ buf[id].cur_func = {f} /\ v \in Nat /\ x \in AllBytes
        /\ BytesOf(buf[id], f, v) = {} /\ w = WriteVal(buf[id], v, x)
    BY <1>1, <1>2, <1>3, <1>b, <1>w
  <2> QED
    BY <2>1, WriteValIs
<1>5. buf' = [buf EXCEPT ![id] = w]
  BY <1>p, <1>w
<1>6. buf' \in [Sides -> Buffer] /\ buf'[id] = w /\ \A s \in Sides : s # id => buf'[s] = buf[s]
  <2>1. id \in Sides /\ w \in Buffer
    BY <1>1, <1>4
  <2> QED
    BY <2>1, <1>5, <1>b
<1>7. \A s \in Sides : Announced(buf[s], s, q) /\ Holds(buf[s], saw, s, q) /\ Sound(buf[s])
  BY DEF Filled
<1>8. \A s \in Sides : Announced(buf[s], s, n)
  <2>1. \A s \in Sides : ~IsFunc(Program[n], s)
    BY DEF IsVal, IsFunc
  <2> QED
    BY <2>1, <1>7, AnnouncedMoves
<1>9. ASSUME NEW s \in Sides, s # id
      PROVE  Announced(buf'[s], s, n) /\ Holds(buf'[s], saw', s, n) /\ Sound(buf'[s])
  <2>1. ASSUME NEW g, NEW u, NEW y, NEW k \in 1 .. N,
               <<g, u, y>> \in saw[s], k <= n, Program[k] = ValLine(s, g, u)
        PROVE  <<g, u, y>> \in buf[s].vals
    <3>1. k # n
      <4>1. Program[k].id = s
        BY <2>1, ValLineIs
      <4>2. Program[n].id = id
        BY <1>1
      <4> QED
        BY <4>1, <4>2, <1>9
    <3>2. CASE k <= q
      BY <2>1, <3>2, <1>7 DEF Holds
    <3>3. CASE ~(k <= q)
      <4>1. q < k /\ k < n
        BY <2>1, <3>1, <3>3, ProgramIs
      <4>2. IsVal(Program[k]) /\ Program[k].id = s /\ Program[k].func = g /\ Program[k].val = u
        BY <2>1, ValLineIs
      <4>3. Wrote(saw, k)
        BY <4>2, <2>1 DEF Wrote, Shown
      <4> QED
        BY <4>1, <4>3 DEF Gap
    <3> QED
      BY <3>2, <3>3
  <2>2. ASSUME NEW g, NEW u, NEW y, <<g, u, y>> \in buf[s].vals
        PROVE  <<g, u, y>> \in saw[s] /\ \E k \in 1 .. N : k <= n /\ Program[k] = ValLine(s, g, u)
    <3>1. <<g, u, y>> \in saw[s] /\ \E k \in 1 .. N : k <= q /\ Program[k] = ValLine(s, g, u)
      BY <2>2, <1>7 DEF Holds
    <3>2. \A k \in 1 .. N : k <= q => k <= n
      BY ProgramIs
    <3> QED
      BY <3>1, <3>2
  <2>3. Holds(buf[s], saw, s, n)
    BY <2>1, <2>2 DEF Holds
  <2> QED
    BY <2>3, <1>6, <1>7, <1>8, <1>9
<1>10. Announced(w, id, n) /\ Holds(w, saw, id, n) /\ Sound(w)
  <2>1. Announced(w, id, n)
    <3>1. Announced(buf[id], id, n)
      BY <1>1, <1>8
    <3> QED
      BY <3>1, <1>3, <1>4 DEF Announced
  <2>2. Sound(w)
    <3>1. ~buf[id].missing_set_func /\ buf[id].double_writes = {} /\ Sized(buf[id])
      BY <1>1, <1>7 DEF Sound
    <3>2. Sized(w)
      <4>1. PICK b \in Buffer : b = buf[id]
        BY <1>b
      <4>2. Sized(b) /\ Stores(b, w, f, v, x)
        BY <3>1, <4>1, <1>4 DEF Stores
      <4>3. f \in Funcs /\ v \in Nat
        BY <1>1
      <4> QED
        BY <4>2, <4>3, WriteValSized
    <3> QED
      BY <3>1, <3>2, <1>4 DEF Sound
  <2>3. ASSUME NEW g, NEW u, NEW y, <<g, u, y>> \in w.vals
        PROVE  <<g, u, y>> \in saw[id] /\ \E k \in 1 .. N : k <= n /\ Program[k] = ValLine(id, g, u)
    <3>1. CASE <<g, u, y>> \in buf[id].vals
      <4>1. <<g, u, y>> \in saw[id] /\ \E k \in 1 .. N : k <= q /\ Program[k] = ValLine(id, g, u)
        BY <3>1, <1>1, <1>7 DEF Holds
      <4>2. \A k \in 1 .. N : k <= q => k <= n
        BY ProgramIs
      <4> QED
        BY <4>1, <4>2
    <3>2. CASE g = f /\ u = v /\ y = x
      <4>1. n <= n
        BY ProgramIs
      <4> QED
        BY <4>1, <3>2, <1>1
    <3>3. <<g, u, y>> \in buf[id].vals \/ <<g, u, y>> = <<f, v, x>>
      BY <2>3, <1>4
    <3> QED
      BY <3>1, <3>2, <3>3
  <2>4. ASSUME NEW g, NEW u, NEW y, NEW k \in 1 .. N,
               <<g, u, y>> \in saw[id], k <= n, Program[k] = ValLine(id, g, u)
        PROVE  <<g, u, y>> \in w.vals
    <3>1. CASE k <= q
      <4>1. <<g, u, y>> \in buf[id].vals
        BY <2>4, <3>1, <1>1, <1>7 DEF Holds
      <4> QED
        BY <4>1, <1>4
    <3>2. CASE k = n
      <4>1. g = f /\ u = v
        <5>1. Program[k].func = g /\ Program[k].val = u
          BY <2>4, ValLineIs
        <5>2. Program[n].func = f /\ Program[n].val = v
          BY <1>1, <1>p
        <5> QED
          BY <5>1, <5>2, <3>2
      <4>2. y = x
        BY <4>1, <2>4, <1>1 DEF IInv, Unique
      <4> QED
        BY <4>1, <4>2, <1>4
    <3>3. CASE q < k /\ k < n
      <4>2. IsVal(Program[k]) /\ Program[k].id = id /\ Program[k].func = g /\ Program[k].val = u
        BY <2>4, ValLineIs
      <4>3. Wrote(saw, k)
        BY <4>2, <2>4 DEF Wrote, Shown
      <4> QED
        BY <3>3, <4>3 DEF Gap
    <3> QED
      BY <2>4, <3>1, <3>2, <3>3, ProgramIs
  <2> QED
    BY <2>1, <2>2, <2>3, <2>4 DEF Holds
<1>11. ~clean'
  BY ProgramIs DEF Filled
<1>12. \A s \in Sides : Announced(buf'[s], s, n) /\ Holds(buf'[s], saw', s, n) /\ Sound(buf'[s])
  BY <1>6, <1>9, <1>10
<1> QED
  BY <1>6, <1>11, <1>12, FilledNext

LEMMA ReadFunc ==
  ASSUME IInv, NEW q \in Nat, Filled(q), NEW n \in 1 .. N, q < n, Gap(q, n), ~IsVal(Program[n]), n # N,
         buf' = [buf EXCEPT ![Program[n].id] = SetFunc(@, Program[n].func)],
         clean' = clean, saw' = saw
  PROVE  buf' \in [Sides -> Buffer] /\ Filled(n)'
<1>p. PICK id, f : id = Program[n].id /\ f = Program[n].func
  OBVIOUS
<1>1. id \in Sides /\ f \in Funcs /\ n \in 1 .. N - 1 /\ Program[n].info = "func"
  BY <1>p, LineIs
<1>b. buf \in [Sides -> Buffer] /\ buf[id] \in Buffer
  BY <1>1 DEF IInv, Types
<1>w. PICK w : w = SetFunc(buf[id], f)
  OBVIOUS
<1>2. /\ w \in Buffer /\ w.cur_func = {f} /\ w.vals = buf[id].vals /\ w.len = buf[id].len
      /\ w.missing_set_func = buf[id].missing_set_func /\ w.double_writes = buf[id].double_writes
  <2>1. w = [buf[id] EXCEPT !.cur_func = {f}]
    BY <1>w DEF SetFunc
  <2> QED
    BY <2>1, <1>1, <1>b DEF Buffer
<1>3. buf' = [buf EXCEPT ![id] = w]
  BY <1>p, <1>w
<1>4. buf' \in [Sides -> Buffer] /\ buf'[id] = w /\ \A s \in Sides : s # id => buf'[s] = buf[s]
  BY <1>1, <1>2, <1>3, <1>b
<1>5. \A s \in Sides : Announced(buf[s], s, q) /\ Holds(buf[s], saw, s, q) /\ Sound(buf[s])
  BY DEF Filled
<1>6. \A s \in Sides : Holds(buf[s], saw, s, n)
  <2>1. \A s, g, v : Program[n] # ValLine(s, g, v)
    BY ValLineIs
  <2> QED
    BY <2>1, <1>5, HoldsMoves
<1>7. Announced(w, id, n)
  <2>1. IsFunc(Program[n], id) /\ n <= n
    BY <1>1, <1>p, ProgramIs DEF IsFunc
  <2>2. \A j \in 1 .. N - 1 : ~(n < j /\ j <= n)
    BY ProgramIs
  <2> QED
    BY <2>1, <2>2, <1>1, <1>2, <1>p DEF Announced
<1>8. ASSUME NEW s \in Sides, s # id PROVE Announced(buf[s], s, n)
  <2>1. ~IsFunc(Program[n], s)
    BY <1>8, <1>p DEF IsFunc
  <2> QED
    BY <2>1, <1>5, AnnouncedMoves
<1>9. Holds(w, saw, id, n) /\ Sound(w)
  <2>1. Holds(buf[id], saw, id, n) /\ Sound(buf[id])
    BY <1>1, <1>5, <1>6
  <2>2. Holds(w, saw, id, n)
    BY <2>1, <1>2 DEF Holds
  <2>3. Sized(w)
    BY <2>1, <1>2 DEF Sound, Sized
  <2> QED
    BY <2>1, <2>2, <2>3, <1>2 DEF Sound
<1>10. ~clean'
  BY ProgramIs DEF Filled
<1>11. \A s \in Sides : Announced(buf'[s], s, n) /\ Holds(buf'[s], saw', s, n) /\ Sound(buf'[s])
  BY <1>4, <1>5, <1>6, <1>7, <1>8, <1>9
<1> QED
  BY <1>4, <1>10, <1>11, FilledNext

LEMMA ReadDone ==
  ASSUME IInv, NEW q \in Nat, Filled(q), NEW n \in 1 .. N, q < n, Gap(q, n), n = N,
         buf' = buf, saw' = saw
  PROVE  Filled(n)'
<1>1. Program[n].info = "done"
  BY LineIs
<1>2. \A s : ~IsFunc(Program[n], s)
  BY <1>1 DEF IsFunc
<1>3. \A s, g, v : Program[n] # ValLine(s, g, v)
  BY <1>1, ValLineIs DEF IsVal
<1>4. \A s \in Sides : Announced(buf[s], s, q) /\ Holds(buf[s], saw, s, q) /\ Sound(buf[s])
  BY DEF Filled
<1>5. \A s \in Sides : Announced(buf[s], s, n) /\ Holds(buf[s], saw, s, n)
  BY <1>2, <1>3, <1>4, AnnouncedMoves, HoldsMoves
<1> QED
  BY <1>4, <1>5, FilledNext

(* What reading a line leaves alone.                                       *)
LEMMA ReadKeeps ==
  ASSUME IInv, status # "running", run = "none", stdout # <<>>, stdout' = Tail(stdout),
         UNCHANGED <<at, saw, status, cut, run, blame, check>>,
         buf' \in [Sides -> Buffer], clean' \in BOOLEAN,
         NEW q, \E p : Rest(q, p)', Filled(q)'
  PROVE  IInv'
<1>1. Types'
  <2>1. stdout' \in Seq(OutLine)
    <3>1. stdout \in Seq(OutLine)
      BY DEF IInv, Types
    <3> QED
      BY <3>1, HeadTailProperties
  <2> QED
    BY <2>1 DEF IInv, Types
<1>2. Reported' /\ Unique' /\ HiddenOrShown'
  BY SawKept
<1>3. Reading'
  BY DEF Reading
<1>4. Stages'
  BY DEF IInv, Stages
<1> QED
  BY <1>1, <1>2, <1>3, <1>4 DEF IInv

LEMMA ReadLineIInv ==
  ASSUME IInv, ReadLine
  PROVE  IInv'
<1>1. /\ status # "running" /\ run = "none" /\ stdout # <<>> /\ stdout' = Tail(stdout)
      /\ UNCHANGED <<at, saw, status, cut, run, blame, check>>
  BY DEF ReadLine
<1>2. PICK q, pos : Rest(q, pos) /\ Filled(q)
  BY DEF IInv, Reading
<1> DEFINE l == stdout[1]
           n == pos[1]
<1>3. Head(stdout) = l /\ q \in Nat
  BY <1>1, <1>2, HeadIs
<1>t. Types
  BY DEF IInv
<1>4. CASE l.info = "noise"
  <2>1. clean' = FALSE /\ buf' = buf
    BY <1>3, <1>4 DEF ReadLine
  <2>2. \E p : Rest(q, p)'
    BY <1>1, <1>2, <1>4, <1>t, RestTail
  <2>3. Filled(q)'
    BY <2>1, <1>1, <1>2 DEF Filled
  <2>4. buf' \in [Sides -> Buffer] /\ clean' \in BOOLEAN
    BY <2>1, <1>t DEF Types
  <2> QED
    BY <2>2, <2>3, <2>4, <1>1, ReadKeeps
<1>5. CASE l.info # "noise"
  <2>1. n \in 1 .. N /\ q < n /\ n < at /\ Gap(q, n) /\ Written(saw, l, n)
    BY <1>1, <1>2, <1>5, HeadIs
  <2>2. \E p : Rest(n, p)'
    BY <1>1, <1>2, <1>5, <1>t, RestTail
  <2> HIDE DEF n
  <2>3. buf' \in [Sides -> Buffer] /\ clean' \in BOOLEAN /\ Filled(n)'
    <3>1. CASE IsVal(Program[n])
      <4>1. l.info = "val"
        BY <3>1, <2>1 DEF Written
      <4>2. buf' = [buf EXCEPT ![l.id] = WriteVal(@, l.val, l.bytes)] /\ clean' = clean
        BY <4>1, <1>3 DEF ReadLine
      <4> QED
        BY <3>1, <4>2, <2>1, <1>1, <1>2, <1>3, <1>t, ReadVal DEF Types
    <3>2. CASE ~IsVal(Program[n]) /\ n # N
      <4>1. l = Program[n] /\ l.info = "func"
        BY <3>2, <2>1, LineIs DEF Written
      <4>2. buf' = [buf EXCEPT ![Program[n].id] = SetFunc(@, Program[n].func)] /\ clean' = clean
        BY <4>1, <1>3 DEF ReadLine
      <4> QED
        BY <3>2, <4>2, <2>1, <1>1, <1>2, <1>3, <1>t, ReadFunc DEF Types
    <3>3. CASE n = N
      <4>1. l = Program[n] /\ l.info = "done"
        BY <3>3, <2>1, LineIs DEF Written, IsVal
      <4>2. buf' = buf /\ clean' = TRUE
        BY <4>1, <1>3 DEF ReadLine
      <4> QED
        BY <3>3, <4>2, <2>1, <1>1, <1>2, <1>3, <1>t, ReadDone DEF Types
    <3> QED
      BY <3>1, <3>2, <3>3, <2>1, LineIs
  <2> QED
    BY <2>2, <2>3, <1>1, ReadKeeps
<1> QED
  BY <1>4, <1>5

LEMMA CheckFuncType ==
  ASSUME NEW f \in Funcs
  PROVE  Mismatches(f) \subseteq Vals(f) /\ CheckFunc(f) \subseteq Mismatches(f) /\ CheckFunc(f) \subseteq Nat
<1>1. Mismatches(f) \subseteq Vals(f)
  BY DEF Mismatches
<1>2. CheckFunc(f) \subseteq Mismatches(f)
  BY DEF CheckFunc
<1> QED
  BY <1>1, <1>2, ValsType

LEMMA CheckFuncKept ==
  ASSUME buf' = buf
  PROVE  [f \in Funcs |-> CheckFunc(f)]' = [f \in Funcs |-> CheckFunc(f)]
  BY DEF CheckFunc, Mismatches

LEMMA ConcludeIInv ==
  ASSUME IInv, Conclude
  PROVE  IInv'
<1>1. /\ status # "running" /\ run = "none" /\ stdout = <<>> /\ run' = Decided
      /\ UNCHANGED <<at, saw, status, stdout, cut, buf, clean>>
  BY DEF Conclude, childVars
<1>2. /\ Decided = "bad exit" => status = "failure" /\ blame' = [s \in Sides |-> BestVals(buf[s])]
      /\ Decided = "ok" => status # "failure" /\ clean /\ check' = [f \in Funcs |-> CheckFunc(f)]
      /\ Decided # "ok" => check' = check
      /\ Decided \in {"ok", "bad exit", "invalid messages", "missing set_func", "double write"}
  <2>1. Decided \in {"ok", "bad exit", "invalid messages", "missing set_func", "double write"}
    BY DEF Decided
  <2>2. Decided = "bad exit" => status = "failure"
    BY DEF Decided
  <2>3. Decided = "ok" => status # "failure" /\ clean
    BY DEF Decided
  <2> QED
    BY <2>1, <2>2, <2>3 DEF Conclude
<1>3. Types'
  <2>1. check' \in [Funcs -> SUBSET Nat]
    <3>1. CASE Decided = "ok"
      BY <3>1, <1>2, CheckFuncType
    <3>2. CASE Decided # "ok"
      BY <3>2, <1>2 DEF IInv, Types
    <3> QED
      BY <3>1, <3>2
  <2>2. run' \in {"none", "ok", "bad exit", "invalid messages", "missing set_func", "double write"}
    BY <1>1, <1>2
  <2> QED
    BY <2>1, <2>2, <1>1 DEF IInv, Types
<1>4. Reported' /\ Unique' /\ HiddenOrShown'
  BY <1>1, SawKept
<1>5. Reading'
  <2>1. PICK q, pos : Rest(q, pos) /\ Filled(q)
    BY DEF IInv, Reading
  <2>2. Filled(q)'
    BY <2>1, <1>1, FilledKept
  <2>3. Rest(q, pos)'
    BY <2>1, <1>1 DEF Rest
  <2> QED
    BY <2>2, <2>3 DEF Reading
<1>6. Stages'
  <2>1. status \in {"running", "success", "failure"}
    BY DEF IInv, Types
  <2>2. cut' => status' # "running"
    BY <1>1 DEF IInv, Stages
  <2>3. run' = "ok" => clean' /\ status' = "success" /\ check' = [f \in Funcs |-> CheckFunc(f)]'
    BY <2>1, <1>1, <1>2, CheckFuncKept
  <2>4. run' = "bad exit" => status' = "failure" /\ blame' = [s \in Sides |-> BestVals(buf'[s])]
    BY <1>1, <1>2
  <2> QED
    BY <2>2, <2>3, <2>4, <1>1 DEF Stages
<1> QED
  BY <1>3, <1>4, <1>5, <1>6 DEF IInv

LEMMA OverIInv ==
  ASSUME IInv, UNCHANGED vars
  PROVE  IInv'
<1>1. UNCHANGED <<at, saw, status, stdout, cut, buf, clean, run, blame, check>>
  BY DEF vars, childVars
<1>2. Types'
  BY <1>1 DEF IInv, Types
<1>3. Reported' /\ Unique' /\ HiddenOrShown'
  BY <1>1, SawKept
<1>4. Reading'
  <2>1. PICK q, pos : Rest(q, pos) /\ Filled(q)
    BY DEF IInv, Reading
  <2>2. Filled(q)'
    BY <2>1, <1>1, FilledKept
  <2>3. Rest(q, pos)'
    BY <2>1, <1>1 DEF Rest
  <2> QED
    BY <2>2, <2>3 DEF Reading
<1>5. Stages'
  BY <1>1, CheckFuncKept DEF IInv, Stages
<1> QED
  BY <1>2, <1>3, <1>4, <1>5 DEF IInv

(* The invariant is one of every run of a test binary, whatever the lines, *)
(* the functions and the values, and wherever it ends.                     *)
THEOREM Invariance == Spec => []IInv
<1>1. Init => IInv
  BY InitIInv
<1>2. IInv /\ [Next]_vars => IInv'
  <2> SUFFICES ASSUME IInv, [Next]_vars PROVE IInv'
    OBVIOUS
  <2>1. CASE Child
    BY <2>1, ChildIInv
  <2>2. CASE ReadLine
    BY <2>2, ReadLineIInv
  <2>3. CASE Conclude
    BY <2>3, ConcludeIInv
  <2>4. CASE Over \/ UNCHANGED vars
    BY <2>4, OverIInv DEF Over
  <2> QED
    BY <2>1, <2>2, <2>3, <2>4 DEF Next
<1> QED
  BY <1>1, <1>2, PTL DEF Spec

-----------------------------------------------------------------------------
(* What follows from it *)

LEMMA GradedComplete ==
  ASSUME IInv, run = "ok"
  PROVE  at > Len(Program) /\ status = "success" /\ ~cut
<1>1. clean /\ status = "success"
  BY DEF IInv, Stages
<1>3. PICK q, pos : Rest(q, pos) /\ Filled(q)
  BY DEF IInv, Reading
<1>4. q = N /\ q < at
  BY <1>1, <1>3 DEF Rest, Filled
(* what is lost comes after what is read, and nothing comes after "done" *)
<1>2. ~cut
  <2>1. \A n \in 1 .. N : ~(q < n)
    BY <1>4, ProgramIs
  <2> QED
    BY <2>1, <1>3 DEF Rest
<1> QED
  BY <1>1, <1>2, <1>4, ProgramIs DEF IInv, Types, N

(* A run is graded only if the program ran to its end: a crash, an early   *)
(* end with success and a lost line never pass for a run with a result.    *)
THEOREM GradedRunsAreCompleteHolds == Spec => []GradedRunsAreComplete
<1>1. IInv => GradedRunsAreComplete
  BY GradedComplete DEF GradedRunsAreComplete
<1> QED
  BY <1>1, Invariance, PTL

(* The generated code is never accused of a mistake it cannot make.        *)
THEOREM ProtocolKeptHolds == Spec => []ProtocolKept
<1>1. IInv => ProtocolKept
  BY DEF IInv, Reading, Filled, Sound, ProtocolKept
<1> QED
  BY <1>1, Invariance, PTL

(* When everything is read, the buffers are what the sides saw.            *)
LEMMA GradedBuffers ==
  ASSUME IInv, run = "ok", NEW s \in Sides
  PROVE  buf[s].vals = saw[s]
<1>1. PICK q, pos : Rest(q, pos) /\ Filled(q)
  BY DEF IInv, Reading
<1>2. q = N
  BY <1>1 DEF IInv, Stages, Filled
<1>3. Holds(buf[s], saw, s, N)
  BY <1>1, <1>2 DEF Filled
<1>4. saw[s] \subseteq Funcs \X Nat \X AllBytes /\ buf[s].vals \subseteq Funcs \X Nat \X AllBytes
  <2>1. buf[s] \in Buffer
    BY DEF IInv, Types
  <2> QED
    BY <2>1 DEF IInv, Types, Buffer
<1>5. ASSUME NEW f, NEW v, NEW x PROVE <<f, v, x>> \in buf[s].vals <=> <<f, v, x>> \in saw[s]
  <2>1. <<f, v, x>> \in buf[s].vals => <<f, v, x>> \in saw[s]
    BY <1>3 DEF Holds
  <2>2. ASSUME <<f, v, x>> \in saw[s] PROVE <<f, v, x>> \in buf[s].vals
    <3>1. PICK n \in 1 .. N : Program[n] = ValLine(s, f, v)
      BY <2>2 DEF IInv, Reported
    <3>2. n <= N
      BY ProgramIs
    <3> QED
      BY <3>1, <3>2, <2>2, <1>3 DEF Holds
  <2> QED
    BY <2>1, <2>2
<1> QED
  <2>1. \A t \in Funcs \X Nat \X AllBytes : t \in buf[s].vals <=> t \in saw[s]
    BY <1>5
  <2> QED
    BY <2>1, <1>4

(* The buffers hold what each side saw, value by value, whatever was mixed *)
(* into the one stdout.                                                    *)
THEOREM BuffersFaithfulHolds == Spec => []BuffersFaithful
<1>1. IInv => BuffersFaithful
  BY GradedBuffers DEF BuffersFaithful
<1> QED
  BY <1>1, Invariance, PTL

-----------------------------------------------------------------------------
(* check_test *)

LEMMA BytesIs ==
  ASSUME NEW f \in Funcs, NEW v \in Vals(f)
  PROVE  \/ Type(f, v) = "tag" /\ Bytes(f, v) = {"expected", "poison"}
         \/ Type(f, v) = "long double" /\ Bytes(f, v) = {"expected", "other padding", "other"}
         \/ Type(f, v) = "plain" /\ Bytes(f, v) = {"expected", "other"}
  BY TypeAssumption DEF Bytes

LEMMA GradedSeen ==
  ASSUME IInv, run = "ok", NEW f \in Funcs, NEW v \in Vals(f), NEW s \in Sides
  PROVE  /\ BytesOf(buf[s], f, v) = Seen(s, f, v)
         /\ Seen(s, f, v) = {} \/ \E b \in Bytes(f, v) : Seen(s, f, v) = {b}
<1>1. buf[s].vals = saw[s]
  BY GradedBuffers
<1>2. \A x : <<f, v, x>> \in saw[s] => x \in Bytes(f, v)
  BY DEF IInv, Reported
<1>3. Bytes(f, v) \subseteq AllBytes
  BY BytesType
<1>4. \A x : x \in BytesOf(buf[s], f, v) <=> <<f, v, x>> \in saw[s]
  BY <1>1, <1>2, <1>3 DEF BytesOf, AllBytes
<1>5. \A x : x \in Seen(s, f, v) <=> <<f, v, x>> \in saw[s]
  BY <1>2 DEF Seen
<1>6. BytesOf(buf[s], f, v) = Seen(s, f, v)
  BY <1>4, <1>5
<1>7. ASSUME Seen(s, f, v) # {} PROVE \E b \in Bytes(f, v) : Seen(s, f, v) = {b}
  <2>1. PICK b : b \in Seen(s, f, v)
    BY <1>7
  <2>2. \A x : x \in Seen(s, f, v) => x = b
    BY <2>1, <1>5 DEF IInv, Unique
  <2>3. b \in Bytes(f, v)
    BY <2>1, <1>2, <1>5
  <2> QED
    BY <2>1, <2>2, <2>3
<1> QED
  BY <1>6, <1>7

(* A value that is missing is in a variant whose tag the side read wrong.  *)
LEMMA MissingIsHidden ==
  ASSUME IInv, run = "ok", NEW f \in Funcs, NEW v \in Vals(f), NEW s \in Sides, Seen(s, f, v) = {}
  PROVE  \E t \in Vals(f) : t < v /\ Type(f, t) = "tag" /\ Seen(s, f, t) = {"poison"}
<1>1. PICK n \in 1 .. N - 1 : Program[n] = ValLine(s, f, v)
  BY ProgramIs
<1>n. n \in 1 .. N /\ n < at
  <2>1. at > Len(Program)
    BY GradedComplete
  <2> QED
    BY <2>1, ProgramIs DEF IInv, Types, N
<1>2. IsVal(Program[n]) /\ Program[n].id = s /\ Program[n].func = f /\ Program[n].val = v
  BY <1>1, <1>n, ValLineIs
<1>3. ~Shown(saw, n)
  <2>1. SUFFICES ASSUME NEW b, <<f, v, b>> \in saw[s] PROVE FALSE
    BY <1>2 DEF Shown
  <2>2. b \in Bytes(f, v)
    BY <2>1 DEF IInv, Reported
  <2> QED
    BY <2>1, <2>2 DEF Seen
<1>4. Hidden(Program[n])
  BY <1>n, <1>2, <1>3 DEF IInv, HiddenOrShown
<1>5. PICK t \in Vals(f) : v \in Inside(f, t) /\ <<f, t, "poison">> \in saw[s]
  BY <1>2, <1>4 DEF Hidden
<1>6. t < v
  BY <1>5, TypeAssumption
<1>7. "poison" \in Bytes(f, t)
  BY <1>5 DEF IInv, Reported
<1>8. Type(f, t) = "tag"
  <2>1. \/ Type(f, t) = "tag"
        \/ Bytes(f, t) = {"expected", "other padding", "other"}
        \/ Bytes(f, t) = {"expected", "other"}
    BY BytesIs
  <2>2. "poison" \notin {"expected", "other padding", "other"} /\ "poison" \notin {"expected", "other"}
    OBVIOUS
  <2> QED
    BY <2>1, <2>2, <1>7, Zenon
<1>9. Seen(s, f, t) = {"poison"}
  <2>1. "poison" \in Seen(s, f, t)
    BY <1>5, <1>7 DEF Seen
  <2> QED
    BY <2>1, GradedSeen
<1> QED
  BY <1>6, <1>8, <1>9

(* What check_val accepts is alike; what it refuses is alike only when     *)
(* both sides miss a tag.                                                  *)
LEMMA AgreesIsAlike ==
  ASSUME IInv, run = "ok", NEW f \in Funcs, NEW v \in Vals(f)
  PROVE  /\ v \notin Mismatches(f) => Alike(f, v)
         /\ v \in Mismatches(f) /\ Alike(f, v) => Seen("caller", f, v) = {} /\ Seen("callee", f, v) = {}
<1>p. PICK C, E : C = Seen("caller", f, v) /\ E = Seen("callee", f, v)
  OBVIOUS
<1>1. "caller" \in Sides /\ "callee" \in Sides
  BY DEF Sides
<1>2. /\ C = {} \/ \E b \in Bytes(f, v) : C = {b}
      /\ E = {} \/ \E b \in Bytes(f, v) : E = {b}
      /\ BytesOf(buf["caller"], f, v) = C /\ BytesOf(buf["callee"], f, v) = E
  BY <1>1, <1>p, GradedSeen
<1>3. v \in Mismatches(f) <=> ~ValAgrees(f, v, C, E)
  BY <1>2 DEF Mismatches
<1>4. Alike(f, v) <=> \/ C = E /\ C # {"poison"}
                      \/ /\ X87 /\ Type(f, v) = "long double"
                         /\ C \in {{"expected"}, {"other padding"}} /\ E \in {{"expected"}, {"other padding"}}
  BY <1>p DEF Alike
<1>5. CASE Type(f, v) = "tag" /\ Bytes(f, v) = {"expected", "poison"}
  <2>1. ValAgrees(f, v, C, E) <=> C = {"expected"} /\ E = {"expected"}
    BY <1>5 DEF ValAgrees
  <2>2. {"expected"} # {"poison"}
    OBVIOUS
  <2>3. Alike(f, v) <=> C = E /\ C # {"poison"}
    BY <1>4, <1>5
  <2> QED
    BY <2>1, <2>2, <2>3, <1>2, <1>3, <1>5, <1>p
<1>6. CASE Type(f, v) = "plain" /\ Bytes(f, v) = {"expected", "other"}
  <2>1. ValAgrees(f, v, C, E) <=> C = E
    BY <1>6 DEF ValAgrees
  <2>2. C # {"poison"}
    BY <1>2, <1>6
  <2>3. Alike(f, v) <=> C = E /\ C # {"poison"}
    BY <1>4, <1>6
  <2> QED
    BY <2>1, <2>2, <2>3, <1>3
<1>7. CASE Type(f, v) = "long double" /\ Bytes(f, v) = {"expected", "other padding", "other"}
  <2>2. C # {"poison"}
    BY <1>2, <1>7
  <2>3. CASE ~X87
    <3>1. ValAgrees(f, v, C, E) <=> C = E
      BY <1>7, <2>3 DEF ValAgrees
    <3> QED
      BY <3>1, <2>2, <2>3, <1>3, <1>4
  <2>4. CASE X87
    <3> DEFINE Value(bs) == {IF b = "other padding" THEN "expected" ELSE b : b \in bs}
    <3>1. ValAgrees(f, v, C, E) <=> Value(C) = Value(E)
      BY <1>7, <2>4 DEF ValAgrees
    <3>2. /\ Value({}) = {} /\ Value({"expected"}) = {"expected"}
          /\ Value({"other padding"}) = {"expected"} /\ Value({"other"}) = {"other"}
      OBVIOUS
    <3>3. /\ C = {} \/ C = {"expected"} \/ C = {"other padding"} \/ C = {"other"}
          /\ E = {} \/ E = {"expected"} \/ E = {"other padding"} \/ E = {"other"}
      BY <1>2, <1>7
    <3>4. {"expected"} # {"other"} /\ {} # {"expected"} /\ {} # {"other"}
      OBVIOUS
    <3> HIDE DEF Value
    <3>5. Value(C) = Value(E) <=>
            C = E \/ (C \in {{"expected"}, {"other padding"}} /\ E \in {{"expected"}, {"other padding"}})
      BY <3>2, <3>3, <3>4
    <3> QED
      BY <3>1, <3>5, <2>2, <2>4, <1>3, <1>4, <1>7
  <2> QED
    BY <2>3, <2>4, X87Assumption
<1> QED
  BY <1>5, <1>6, <1>7, BytesIs

LEMMA GradedCheck ==
  ASSUME IInv, run = "ok", NEW f \in Funcs
  PROVE  /\ check[f] = CheckFunc(f)
         /\ check[f] = {} => Mismatches(f) = {}
         /\ \A v \in check[f] : v \in Mismatches(f) /\ v \in Nat /\ \A w \in Mismatches(f) : w \in Nat /\ v <= w
<1>1. check[f] = CheckFunc(f)
  BY DEF IInv, Stages
<1>2. Mismatches(f) \subseteq Nat
  BY CheckFuncType, ValsType
<1>3. check[f] = {} => Mismatches(f) = {}
  <2>1. SUFFICES ASSUME Mismatches(f) # {} PROVE CheckFunc(f) # {}
    BY <1>1
  <2>2. PICK m \in Mismatches(f) : \A k \in Mismatches(f) : m <= k
    BY <2>1, <1>2, LeastExists
  <2> QED
    BY <2>2 DEF CheckFunc
<1>4. \A v \in CheckFunc(f) : v \in Mismatches(f) /\ \A w \in Mismatches(f) : v <= w
  BY DEF CheckFunc
<1> QED
  BY <1>1, <1>2, <1>3, <1>4

(* A function passes exactly if both sides saw all of its values alike and *)
(* took the expected variants.                                             *)
THEOREM VerdictsExactHolds == Spec => []VerdictsExact
<1>1. IInv => VerdictsExact
  <2> SUFFICES ASSUME IInv, run = "ok", NEW f \in Funcs
               PROVE  (check[f] = {}) = (\A v \in Vals(f) : Alike(f, v))
    BY DEF VerdictsExact
  <2>1. ASSUME check[f] = {}, NEW v \in Vals(f) PROVE Alike(f, v)
    BY <2>1, GradedCheck, AgreesIsAlike
  <2>2. ASSUME \A v \in Vals(f) : Alike(f, v), NEW v \in check[f] PROVE FALSE
    <3>1. v \in Mismatches(f) /\ v \in Vals(f)
      BY <2>2, GradedCheck, CheckFuncType
    <3>2. Seen("caller", f, v) = {}
      BY <3>1, <2>2, AgreesIsAlike
    <3>3. "caller" \in Sides
      BY DEF Sides
    <3>4. PICK t \in Vals(f) : Type(f, t) = "tag" /\ Seen("caller", f, t) = {"poison"}
      BY <3>1, <3>2, <3>3, MissingIsHidden
    <3>5. ~Alike(f, t)
      BY <3>4 DEF Alike
    <3> QED
      BY <3>5, <2>2
  <2>3. check[f] = {} <=> \A v \in Vals(f) : Alike(f, v)
    BY <2>1, <2>2
  <2> QED
    BY <2>3
<1> QED
  BY <1>1, Invariance, PTL

(* The value a failure is blamed on is where it starts: both sides have    *)
(* reported it, and what comes before it they saw alike.                   *)
THEOREM BlamesRootCauseHolds == Spec => []BlamesRootCause
<1>1. IInv => BlamesRootCause
  <2> SUFFICES ASSUME IInv, run = "ok", NEW f \in Funcs, NEW v \in check[f]
               PROVE  /\ Seen("caller", f, v) # {} /\ Seen("callee", f, v) # {}
                      /\ \A w \in Vals(f) : w < v => Alike(f, w)
    BY DEF BlamesRootCause
  <2>1. /\ v \in Mismatches(f) /\ v \in Vals(f) /\ v \in Nat
        /\ \A w \in Mismatches(f) : w \in Nat /\ v <= w
    BY GradedCheck, CheckFuncType
  <2>2. ASSUME NEW w \in Vals(f), w < v PROVE w \notin Mismatches(f)
    BY <2>1, <2>2, ValsType
  <2>3. ASSUME NEW s \in Sides, Seen(s, f, v) = {} PROVE FALSE
    <3>1. PICK t \in Vals(f) : t < v /\ Type(f, t) = "tag" /\ Seen(s, f, t) = {"poison"}
      BY <2>1, <2>3, MissingIsHidden
    <3>2. BytesOf(buf[s], f, t) = {"poison"}
      BY <3>1, GradedSeen
    <3>3. {"poison"} # {"expected"}
      OBVIOUS
    <3>4. t \in Mismatches(f)
      BY <3>1, <3>2, <3>3 DEF Mismatches, ValAgrees, Sides
    <3> QED
      BY <3>1, <3>4, <2>2
  <2>4. "caller" \in Sides /\ "callee" \in Sides
    BY DEF Sides
  <2> QED
    BY <2>2, <2>3, <2>4, AgreesIsAlike
<1> QED
  BY <1>1, Invariance, PTL

-----------------------------------------------------------------------------
(* The blame for a bad exit *)

LEMMA PlaceGrows ==
  ASSUME NEW f \in Funcs, NEW g \in Funcs, f <= g
  PROVE  Place(f) <= Place(g)
<1>1. \A h \in Funcs : Place(h) \in 1 .. Len(Desired) /\ Desired[Place(h)] = h
  <2> TAKE h \in Funcs
  <2>1. \E i \in DOMAIN Desired : Desired[i] = h
    BY DesiredType
  <2>2. Place(h) \in DOMAIN Desired /\ Desired[Place(h)] = h
    BY <2>1 DEF Place
  <2> QED
    BY <2>2, DesiredType
<1>2. PICK i \in 1 .. Len(Desired) : i = Place(f) /\ Desired[i] = f
  BY <1>1
<1>3. PICK k \in 1 .. Len(Desired) : k = Place(g) /\ Desired[k] = g
  BY <1>1
<1>4. SUFFICES ASSUME k < i PROVE FALSE
  BY <1>2, <1>3
<1>5. k <= i
  BY <1>4
<1>6. Desired[k] <= Desired[i]
  BY <1>5, DesiredType
<1>7. f = g
  BY <1>2, <1>3, <1>6, DesiredType
<1>8. i = k
  BY <1>2, <1>3, <1>7, DesiredType
<1> QED
  BY <1>4, <1>8

(* The last line of side s that was executed.                              *)
LEMMA RunningIs ==
  ASSUME IInv, NEW s \in Sides, Executed(s, at - 1) # {}
  PROVE  \E n \in 1 .. N - 1 :
           /\ n < at /\ Program[n].id = s /\ RunningFunc(s) = Program[n].func
           /\ \A k \in 1 .. N - 1 : k < at /\ Program[k].id = s => k <= n
<1> DEFINE X == Executed(s, at - 1)
<1>1. at \in 1 .. N + 1 /\ N \in Nat
  BY ProgramIs DEF IInv, Types
<1>2. X \subseteq 0 .. at - 1 /\ \A n \in X : n \in 1 .. at - 1 /\ Program[n].info # "done" /\ Program[n].id = s
  BY DEF Executed
<1>e. X # {}
  OBVIOUS
<1>3. PICK m \in X : \A k \in X : k <= m
  <2> HIDE DEF X
  <2>1. at - 1 \in Nat
    BY <1>1
  <2> QED BY <2>1, <1>2, <1>e, GreatestExists
<1>4. PICK n : n = CHOOSE x \in X : \A y \in X : y <= x
  OBVIOUS
<1>5. n \in X /\ \A y \in X : y <= n
  <2> HIDE DEF X
  <2> QED BY <1>3, <1>4
<1>6. RunningFunc(s) = Program[n].func
  BY <1>4 DEF RunningFunc
<1>7. n \in 1 .. N /\ n < at /\ Program[n].info # "done" /\ Program[n].id = s
  BY <1>1, <1>2, <1>5
<1>8. n \in 1 .. N - 1
  BY <1>1, <1>7, LineIs
<1>9. ASSUME NEW k \in 1 .. N - 1, k < at, Program[k].id = s PROVE k <= n
  <2>1. k \in 1 .. N /\ k # N
    BY <1>1
  <2>2. Program[k].info # "done"
    BY <2>1, LineIs DEF IsVal
  <2>3. k \in X
    BY <1>1, <1>9, <2>2 DEF Executed
  <2> QED
    BY <2>3, <1>5
<1> QED
  BY <1>6, <1>7, <1>8, <1>9

BadRun == run = "bad exit"

(* What a bad exit is blamed on, when f is the function of the last line   *)
(* of the side.                                                            *)
LEMMA BadExit ==
  ASSUME IInv, BadRun, NEW s \in Sides, NEW n \in 1 .. N - 1, n < at, Program[n].id = s,
         NEW f, f = Program[n].func,
         \A k \in 1 .. N - 1 : k < at /\ Program[k].id = s => k <= n
  PROVE  /\ ~cut => blame[s][1] = f
         /\ cut /\ blame[s][1] \in Funcs => Place(blame[s][1]) <= Place(f)
<1>1. blame[s] = BestVals(buf[s]) /\ stdout = <<>>
  <2>1. blame = [x \in Sides |-> BestVals(buf[x])] /\ stdout = <<>>
    BY DEF BadRun, IInv, Stages
  <2> QED
    BY <2>1
<1>2. PICK q, pos : Rest(q, pos) /\ Filled(q)
  BY DEF IInv, Reading
<1>3. q \in Nat /\ q < at /\ at \in Nat /\ N \in Nat
  <2>1. at \in 1 .. N + 1 /\ N \in Nat
    BY ProgramIs DEF IInv, Types
  <2>2. q \in Nat /\ q < at
    BY <1>2 DEF Rest
  <2> QED
    BY <2>1, <2>2
<1>4. n < at /\ Program[n].id = s /\ f = Program[n].func
      /\ \A k \in 1 .. N - 1 : k < at /\ Program[k].id = s => k <= n
  OBVIOUS
<1>5. f \in Funcs
  BY <1>4, ProgramIs
<1>6. Announced(buf[s], s, q)
  BY <1>2 DEF Filled
<1>7. blame[s][1] = IF buf[s].cur_func = {} THEN 0 ELSE CHOOSE x \in buf[s].cur_func : TRUE
  BY <1>1 DEF BestVals
(* without a loss every announcement is read *)
<1>8. ASSUME ~cut, NEW k \in 1 .. N - 1, k < at, IsFunc(Program[k], s) PROVE k <= q
  <2>1. SUFFICES ASSUME q < k PROVE FALSE
    BY <1>3
  <2>2. k \in 1 .. N /\ Wrote(saw, k)
    BY <1>3, <1>8 DEF Wrote, IsFunc, IsVal
  <2>3. Len(stdout) = 0
    BY <1>1
  <2>4. \E i \in 1 .. Len(stdout) : stdout[i].info # "noise" /\ pos[i] = k
    BY <2>1, <2>2, <1>2, <1>8 DEF Rest
  <2> QED
    BY <2>3, <2>4
<1>9. CASE buf[s].cur_func = {} /\ \A k \in 1 .. N - 1 : k <= q => ~IsFunc(Program[k], s)
  <2>1. blame[s][1] = 0
    BY <1>7, <1>9
  <2>2. cut
    <3>1. SUFFICES ASSUME ~cut PROVE FALSE
      OBVIOUS
    <3>2. PICK m \in 1 .. N - 1 : m <= n /\ IsFunc(Program[m], s)
      <4>1. CASE IsVal(Program[n])
        <5>1. PICK m \in 1 .. N - 1 : m < n /\ Program[m] = FuncLine(s, Program[n].func)
          BY <4>1, <1>4, ProgramIs
        <5>2. IsFunc(Program[m], s) /\ m <= n
          BY <5>1, <1>3 DEF FuncLine, IsFunc
        <5> QED
          BY <5>2
      <4>2. CASE ~IsVal(Program[n])
        <5>1. n \in 1 .. N /\ n # N /\ n <= n
          BY <1>3
        <5>2. Program[n].info = "func"
          BY <4>2, <5>1, LineIs
        <5> QED
          BY <5>1, <5>2, <1>4 DEF IsFunc
      <4> QED
        BY <4>1, <4>2
    <3>3. m < at
      BY <3>2, <1>3, <1>4
    <3>4. m <= q
      BY <3>1, <3>2, <3>3, <1>8
    <3> QED
      BY <3>2, <3>4, <1>9
  <2>3. ASSUME 0 \in Funcs PROVE Place(0) <= Place(f)
    <3>1. 0 <= f
      BY <1>5, DesiredType
    <3> QED
      BY <2>3, <3>1, <1>5, PlaceGrows
  <2> QED
    BY <2>1, <2>2, <2>3
<1>10. CASE \E k \in 1 .. N - 1 :
              /\ k <= q /\ IsFunc(Program[k], s) /\ buf[s].cur_func = {Program[k].func}
              /\ \A j \in 1 .. N - 1 : k < j /\ j <= q => ~IsFunc(Program[j], s)
  <2>1. PICK k \in 1 .. N - 1 :
          /\ k <= q /\ IsFunc(Program[k], s) /\ buf[s].cur_func = {Program[k].func}
          /\ \A j \in 1 .. N - 1 : k < j /\ j <= q => ~IsFunc(Program[j], s)
    BY <1>10
  <2>2. blame[s][1] = Program[k].func
    <3>1. buf[s].cur_func # {} /\ (CHOOSE x \in buf[s].cur_func : TRUE) = Program[k].func
      BY <2>1
    <3> QED
      BY <3>1, <1>7
  <2>3. k <= n
    <3>1. k < at /\ Program[k].id = s
      BY <2>1, <1>3 DEF IsFunc
    <3> QED
      BY <3>1, <1>4
  <2>4. ASSUME ~cut PROVE blame[s][1] = f
    <3>1. \A j \in 1 .. N - 1 : k < j /\ j <= n => ~IsFunc(Program[j], s)
      <4> SUFFICES ASSUME NEW j \in 1 .. N - 1, k < j, j <= n, IsFunc(Program[j], s) PROVE FALSE
        OBVIOUS
      <4>1. j < at
        BY <1>3, <1>4
      <4>2. j <= q
        BY <4>1, <2>4, <1>8
      <4> QED
        BY <4>2, <2>1
    <3> QED
      BY <3>1, <2>1, <2>2, <2>3, <1>4, LastAnnounced
  <2>5. Program[k].func \in Funcs /\ Program[k].func <= f
    BY <2>3, <1>4, ProgramIs
  <2> QED
    BY <2>2, <2>4, <2>5, <1>5, PlaceGrows
<1> QED
  BY <1>6, <1>9, <1>10 DEF Announced

(* Without a loss, what a side saw is read and is in its buffer.           *)
LEMMA SeenIsRead ==
  ASSUME IInv, ~cut, stdout = <<>>, NEW q, NEW pos, Rest(q, pos), NEW s \in Sides,
         NEW f, NEW v, NEW b, <<f, v, b>> \in saw[s]
  PROVE  \E n \in 1 .. N : n < at /\ n <= q /\ Program[n] = ValLine(s, f, v)
<1>1. PICK n \in 1 .. N : n < at /\ Program[n] = ValLine(s, f, v)
  BY DEF IInv, Reported
<1>2. Program[n].id = s /\ Program[n].func = f /\ Program[n].val = v
  BY <1>1, ValLineIs
<1>3. Wrote(saw, n)
  BY <1>2 DEF Wrote, Shown
<1>4. n <= q
  <2>1. SUFFICES ASSUME q < n PROVE FALSE
    BY ProgramIs DEF Rest
  <2>2. Len(stdout) = 0
    OBVIOUS
  <2>3. \E i \in 1 .. Len(stdout) : stdout[i].info # "noise" /\ pos[i] = n
    BY <2>1, <1>1, <1>3 DEF Rest
  <2> QED
    BY <2>2, <2>3
<1> QED
  BY <1>1, <1>4

LEMMA SeenIsHeld ==
  ASSUME IInv, ~cut, stdout = <<>>, NEW q, NEW pos, Rest(q, pos), NEW s \in Sides,
         Holds(buf[s], saw, s, q), NEW f, NEW v, v \in SeenVals(s, f)
  PROVE  \E b : <<f, v, b>> \in saw[s] /\ <<f, v, b>> \in buf[s].vals
<1>1. PICK b : <<f, v, b>> \in saw[s]
  BY DEF SeenVals, Seen
<1>2. PICK n \in 1 .. N : n < at /\ n <= q /\ Program[n] = ValLine(s, f, v)
  BY <1>1, SeenIsRead
<1>3. <<f, v, b>> \in buf[s].vals
  BY <1>1, <1>2 DEF Holds
<1> QED
  BY <1>1, <1>3

(* The value a bad exit is blamed on is one the side reported of the       *)
(* function, the last one if nothing is lost; or 0.                        *)
LEMMA BlamedValue ==
  ASSUME IInv, BadRun, NEW s \in Sides, NEW f, NEW v, f = blame[s][1], v = blame[s][2]
  PROVE  /\ v = 0 \/ v \in SeenVals(s, f)
         /\ ~cut => \A w \in SeenVals(s, f) : w <= v
<1>1. blame[s] = BestVals(buf[s]) /\ stdout = <<>>
  <2>1. blame = [x \in Sides |-> BestVals(buf[x])] /\ stdout = <<>>
    BY DEF BadRun, IInv, Stages
  <2> QED
    BY <2>1
<1>2. PICK q, pos : Rest(q, pos) /\ Filled(q)
  BY DEF IInv, Reading
<1>3. Announced(buf[s], s, q) /\ Holds(buf[s], saw, s, q) /\ Sized(buf[s])
  BY <1>2 DEF Filled, Sound
<1>4. q \in Nat /\ at \in 1 .. N + 1 /\ N \in Nat
  BY <1>2, ProgramIs DEF Rest, IInv, Types
<1>b. buf[s] \in Buffer
  BY DEF IInv, Types
<1>5. CASE buf[s].cur_func = {}
  <2>1. v = 0
    BY <1>1, <1>5 DEF BestVals
  <2>2. ASSUME ~cut, NEW w \in SeenVals(s, f) PROVE FALSE
    <3>1. PICK b : <<f, w, b>> \in saw[s]
      BY <2>2 DEF SeenVals, Seen
    <3>2. PICK n \in 1 .. N : n < at /\ n <= q /\ Program[n] = ValLine(s, f, w)
      BY <3>1, <2>2, <1>1, <1>2, SeenIsRead
    <3>3. IsVal(Program[n]) /\ Program[n].id = s
      BY <3>2, ValLineIs
    <3>4. n \in 1 .. N - 1
      BY <3>3, LineIs
    <3>5. PICK m \in 1 .. N - 1 : m < n /\ Program[m] = FuncLine(s, Program[n].func)
      BY <3>3, <3>4, ProgramIs
    <3>6. IsFunc(Program[m], s)
      BY <3>5 DEF FuncLine, IsFunc
    <3>7. m <= q
      BY <3>2, <3>5, <1>4
    <3> QED
      BY <3>5, <3>6, <3>7, <1>3, <1>5 DEF Announced
  <2> QED
    BY <2>1, <2>2
<1>6. CASE buf[s].cur_func # {}
  <2>1. PICK g \in Funcs : buf[s].cur_func = {g}
    <3>1. PICK k \in 1 .. N - 1 : buf[s].cur_func = {Program[k].func}
      BY <1>3, <1>6 DEF Announced
    <3> QED
      BY <3>1, ProgramIs
  <2>2. (CHOOSE x \in buf[s].cur_func : TRUE) = g
    BY <2>1
  <2>3. PICK len \in Nat : len = buf[s].len[g]
    BY <1>b DEF Buffer
  <2>4. f = g /\ v = IF len = 0 THEN 0 ELSE len - 1
    <3>1. PICK b : b = buf[s]
      OBVIOUS
    <3>2. blame[s] = <<g, IF len = 0 THEN 0 ELSE len - 1>>
      <4>1. b.cur_func # {} /\ (CHOOSE x \in b.cur_func : TRUE) = g /\ b.len[g] = len
        BY <3>1, <1>6, <2>2, <2>3
      <4> QED
        BY <3>1, <4>1, <1>1 DEF BestVals
    <3> QED
      BY <3>2
  <2>5. CASE len = 0
    <3>1. ASSUME ~cut, NEW w \in SeenVals(s, f) PROVE FALSE
      <4>1. PICK b : <<f, w, b>> \in saw[s] /\ <<f, w, b>> \in buf[s].vals
        BY <3>1, <1>1, <1>2, <1>3, SeenIsHeld
      <4>2. w < len
        BY <4>1, <2>3, <2>4, <1>3 DEF Sized
      <4>3. w \in Nat
        BY <4>1, <1>b DEF Buffer
      <4> QED
        BY <4>2, <4>3, <2>5
    <3> QED
      BY <3>1, <2>4, <2>5
  <2>6. CASE len # 0
    <3>1. v \in SeenVals(s, f)
      <4>1. PICK x : <<g, len - 1, x>> \in buf[s].vals
        BY <2>3, <2>6, <1>3 DEF Sized
      <4>2. <<f, v, x>> \in saw[s]
        BY <4>1, <2>4, <2>6, <1>3 DEF Holds
      <4>3. v \in Vals(f) /\ x \in Bytes(f, v)
        BY <4>2 DEF IInv, Reported
      <4> QED
        BY <4>2, <4>3 DEF SeenVals, Seen
    <3>2. ASSUME ~cut, NEW w \in SeenVals(s, f) PROVE w <= v
      <4>1. PICK b : <<f, w, b>> \in saw[s] /\ <<f, w, b>> \in buf[s].vals
        BY <3>2, <1>1, <1>2, <1>3, SeenIsHeld
      <4>2. w < len
        BY <4>1, <2>3, <2>4, <1>3 DEF Sized
      <4>3. w \in Nat
        BY <4>1, <1>b DEF Buffer
      <4> QED
        BY <4>2, <4>3, <2>4, <2>6
    <3> QED
      BY <3>1, <3>2
  <2> QED
    BY <2>5, <2>6
<1> QED
  BY <1>5, <1>6

(* The function a crash is blamed on is the one that was running, and the  *)
(* value the last one the side reported of it; when lines were lost it is  *)
(* that function or an earlier one, never a later one, and still a value   *)
(* the side reported.                                                      *)
THEOREM CrashBlamedHolds == Spec => []CrashBlamed
<1>1. IInv => CrashBlamed
  <2> SUFFICES ASSUME IInv, BadRun, NEW s \in Sides, Executed(s, at - 1) # {}
               PROVE  /\ blame[s][2] = 0 \/ blame[s][2] \in SeenVals(s, blame[s][1])
                      /\ ~cut => /\ blame[s][1] = RunningFunc(s)
                                 /\ \A w \in SeenVals(s, blame[s][1]) : w <= blame[s][2]
                      /\ cut /\ blame[s][1] \in Funcs => Place(blame[s][1]) <= Place(RunningFunc(s))
    BY DEF CrashBlamed, BadRun
  <2>1. PICK n \in 1 .. N - 1 :
          /\ n < at /\ Program[n].id = s /\ RunningFunc(s) = Program[n].func
          /\ \A k \in 1 .. N - 1 : k < at /\ Program[k].id = s => k <= n
    BY RunningIs
  <2>2. /\ ~cut => blame[s][1] = RunningFunc(s)
        /\ cut /\ blame[s][1] \in Funcs => Place(blame[s][1]) <= Place(RunningFunc(s))
    BY <2>1, BadExit
  <2>3. PICK f, v : f = blame[s][1] /\ v = blame[s][2]
    OBVIOUS
  <2>4. /\ v = 0 \/ v \in SeenVals(s, f)
        /\ ~cut => \A w \in SeenVals(s, f) : w <= v
    BY <2>3, BlamedValue
  <2> QED
    BY <2>2, <2>3, <2>4
<1> QED
  BY <1>1, Invariance, PTL
=============================================================================
