---------------------------- MODULE TriageProofs ----------------------------
(***************************************************************************)
(* Proofs about Triage: what the grades and the suggested rules of one run *)
(* of the suite mean for the next, for any tests, rules and fates.         *)
(***************************************************************************)
EXTENDS Triage, DataLemmas

-----------------------------------------------------------------------------
(* Only, by its recursion *)

(* The function that Only computes, from prefix to prefix.                 *)
OnlyUpTo(seq, S) ==
  CHOOSE F : F = [i \in 0 .. Len(seq) |->
                    IF i = 0 THEN <<>>
                    ELSE IF seq[i] \in S THEN Append(F[i - 1], seq[i]) ELSE F[i - 1]]

LEMMA OnlyIsLastPrefix ==
  ASSUME NEW seq, NEW S
  PROVE  Only(seq, S) = OnlyUpTo(seq, S)[Len(seq)]
  BY DEF Only, OnlyUpTo

LEMMA PrefixesRec ==
  ASSUME NEW T, NEW seq \in Seq(T), NEW S
  PROVE  OnlyUpTo(seq, S) =
           [i \in 0 .. Len(seq) |->
              IF i = 0 THEN <<>>
              ELSE IF seq[i] \in S THEN Append(OnlyUpTo(seq, S)[i - 1], seq[i])
                   ELSE OnlyUpTo(seq, S)[i - 1]]
<1> DEFINE Step(i, before) == IF seq[i] \in S THEN Append(before, seq[i]) ELSE before
           Eq(F, n) == F = [i \in 0 .. n |-> IF i = 0 THEN <<>> ELSE Step(i, F[i - 1])]
           I == {n \in Nat : n <= Len(seq) => \E F : Eq(F, n)}
<1> HIDE DEF Step
<1>1. 0 \in I
  <2>1. Eq([i \in 0 .. 0 |-> <<>>], 0)
    OBVIOUS
  <2> QED
    BY <2>1
<1>2. ASSUME NEW n \in Nat, n \in I PROVE n + 1 \in I
  <2>1. CASE ~(n + 1 <= Len(seq))
    BY <2>1
  <2>2. CASE n + 1 <= Len(seq)
    <3>1. n <= Len(seq)
      BY <2>2, LenProperties
    <3>2. PICK F : Eq(F, n)
      <4> HIDE DEF Eq
      <4> QED BY <1>2, <3>1
    <3> DEFINE G == [i \in 0 .. n + 1 |-> IF i = n + 1 THEN Step(i, F[n]) ELSE F[i]]
    <3>3. ASSUME NEW i \in 0 .. n + 1
          PROVE  G[i] = IF i = 0 THEN <<>> ELSE Step(i, G[i - 1])
      <4>1. CASE i = n + 1
        BY <4>1
      <4>2. CASE i = 0
        BY <4>2, <3>2
      <4>3. CASE i \in 1 .. n
        <5>1. i \in 0 .. n /\ i - 1 \in 0 .. n /\ i # 0 /\ i # n + 1 /\ i - 1 # n + 1
          BY <4>3
        <5>2. G[i] = F[i] /\ G[i - 1] = F[i - 1]
          BY <5>1
        <5>3. F[i] = Step(i, F[i - 1])
          BY <5>1, <3>2
        <5> QED
          BY <5>1, <5>2, <5>3
      <4> QED
        BY <4>1, <4>2, <4>3
    <3>4. Eq(G, n + 1)
      <4> HIDE DEF G
      <4>1. G = [i \in 0 .. n + 1 |-> G[i]]
        BY DEF G
      <4> QED
        BY <3>3, <4>1
    <3> QED
      <4> HIDE DEF Eq, G
      <4> QED BY <3>4
  <2> QED
    BY <2>1, <2>2
<1>3. \E F : Eq(F, Len(seq))
  <2>1. Len(seq) \in I
    <3> HIDE DEF I
    <3> QED BY <1>1, <1>2, SetInduction, LenProperties
  <2> QED
    <3> HIDE DEF Eq
    <3> QED BY <2>1
<1>4. Eq(OnlyUpTo(seq, S), Len(seq))
  BY <1>3 DEF OnlyUpTo, Step
<1> QED
  BY <1>4 DEF Step

(* e says where in seq the elements of r come from: r is what seq has of S *)
(* among its first n elements, in the same order.                          *)
Picks(e, r, seq, n, S) ==
  /\ e \in [1 .. Len(r) -> 1 .. n]
  /\ \A j, k \in 1 .. Len(r) : j < k => e[j] < e[k]
  /\ \A j \in 1 .. Len(r) : r[j] = seq[e[j]]
  /\ \A i \in 1 .. n : seq[i] \in S <=> \E j \in 1 .. Len(r) : e[j] = i

LEMMA PicksMore ==
  ASSUME NEW T, NEW seq \in Seq(T), NEW S, NEW n \in Nat, n + 1 <= Len(seq),
         NEW r \in Seq(T), NEW e, Picks(e, r, seq, n, S), seq[n + 1] \in S
  PROVE  \E d : Picks(d, Append(r, seq[n + 1]), seq, n + 1, S)
<1> DEFINE m == Len(r)
           q == Append(r, seq[n + 1])
           d == [j \in 1 .. m + 1 |-> IF j = m + 1 THEN n + 1 ELSE e[j]]
<1>1. m \in Nat /\ Len(q) = m + 1 /\ \A j \in 1 .. m + 1 : q[j] = IF j = m + 1 THEN seq[n + 1] ELSE r[j]
  <2>1. seq[n + 1] \in T
    BY LenProperties
  <2> QED
    BY <2>1, LenProperties, AppendProperties
<1>2. \A j \in 1 .. m : j \in 1 .. m + 1 /\ j # m + 1 /\ e[j] \in 1 .. n /\ d[j] = e[j]
  BY <1>1 DEF Picks
<1>3. m + 1 \in 1 .. m + 1 /\ d[m + 1] = n + 1
  BY <1>1
<1>4. \A j \in 1 .. m + 1 : j = m + 1 \/ j \in 1 .. m
  BY <1>1
<1> HIDE DEF d, q
<1>5. d \in [1 .. m + 1 -> 1 .. n + 1]
  <2>1. d = [j \in 1 .. m + 1 |-> d[j]]
    BY DEF d
  <2>2. \A j \in 1 .. m + 1 : d[j] \in 1 .. n + 1
    BY <1>2, <1>3, <1>4
  <2> QED
    BY <2>1, <2>2
<1>6. ASSUME NEW j \in 1 .. m + 1, NEW k \in 1 .. m + 1, j < k PROVE d[j] < d[k]
  <2>1. j \in 1 .. m
    BY <1>6, <1>1
  <2>2. CASE k = m + 1
    BY <2>1, <2>2, <1>2, <1>3
  <2>3. CASE k \in 1 .. m
    BY <2>1, <2>3, <1>2, <1>6 DEF Picks
  <2> QED
    BY <2>2, <2>3, <1>4
<1>7. ASSUME NEW j \in 1 .. m + 1 PROVE q[j] = seq[d[j]]
  BY <1>1, <1>2, <1>3, <1>4 DEF Picks
<1>8. ASSUME NEW i \in 1 .. n + 1 PROVE seq[i] \in S <=> \E j \in 1 .. m + 1 : d[j] = i
  <2>1. CASE i = n + 1
    BY <2>1, <1>3
  <2>2. CASE i \in 1 .. n
    <3>1. seq[i] \in S <=> \E j \in 1 .. m : e[j] = i
      BY <2>2 DEF Picks
    <3>2. (\E j \in 1 .. m : e[j] = i) <=> \E j \in 1 .. m + 1 : d[j] = i
      <4>1. d[m + 1] # i
        BY <2>2, <1>3
      <4> QED
        BY <4>1, <1>2, <1>4
    <3> QED
      BY <3>1, <3>2
  <2> QED
    BY <2>1, <2>2
<1>9. Picks(d, q, seq, n + 1, S)
  <2> HIDE DEF m
  <2> QED BY <1>1, <1>5, <1>6, <1>7, <1>8 DEF Picks
<1> QED
  BY <1>9 DEF q

(* Only(seq, S) picks from all of seq.                                     *)
LEMMA OnlyPicks ==
  ASSUME NEW T, NEW seq \in Seq(T), NEW S
  PROVE  /\ Only(seq, S) \in Seq(T)
         /\ \E e : Picks(e, Only(seq, S), seq, Len(seq), S)
<1> DEFINE P == OnlyUpTo(seq, S)
           Good(n) == P[n] \in Seq(T) /\ \E e : Picks(e, P[n], seq, n, S)
           I == {n \in Nat : n <= Len(seq) => Good(n)}
<1>l. Len(seq) \in Nat
  BY LenProperties
<1>r. \A n \in 0 .. Len(seq) :
        P[n] = IF n = 0 THEN <<>>
               ELSE IF seq[n] \in S THEN Append(P[n - 1], seq[n]) ELSE P[n - 1]
  <2> HIDE DEF P
  <2>1. P = [n \in 0 .. Len(seq) |->
              IF n = 0 THEN <<>>
              ELSE IF seq[n] \in S THEN Append(P[n - 1], seq[n]) ELSE P[n - 1]]
    BY PrefixesRec DEF P
  <2> QED
    BY <2>1
<1>1. 0 \in I
  <2>1. P[0] = <<>>
    BY <1>r, <1>l
  <2>2. Picks(<<>>, <<>>, seq, 0, S)
    BY DEF Picks
  <2>3. Good(0)
    <3> HIDE DEF P
    <3> QED BY <2>1, <2>2
  <2> QED
    BY <2>3
<1>2. ASSUME NEW n \in Nat, n \in I PROVE n + 1 \in I
  <2>1. SUFFICES ASSUME n + 1 <= Len(seq) PROVE Good(n + 1)
    <3> HIDE DEF Good
    <3> QED OBVIOUS
  <2>2. Good(n)
    <3>1. n <= Len(seq)
      BY <2>1, <1>l
    <3> HIDE DEF Good
    <3> QED BY <1>2, <3>1
  <2>3. P[n + 1] = IF seq[n + 1] \in S THEN Append(P[n], seq[n + 1]) ELSE P[n]
    <3>1. n + 1 \in 0 .. Len(seq) /\ n + 1 # 0 /\ n + 1 - 1 = n
      BY <2>1, <1>l
    <3> HIDE DEF P
    <3> QED
      BY <3>1, <1>r
  <2>4. seq[n + 1] \in T
    BY <2>1, <1>l, LenProperties
  <2>5. PICK e : Picks(e, P[n], seq, n, S)
    BY <2>2
  <2>6. P[n] \in Seq(T)
    BY <2>2
  <2> HIDE DEF P
  <2>7. CASE seq[n + 1] \in S
    <3>1. \E d : Picks(d, Append(P[n], seq[n + 1]), seq, n + 1, S)
      BY <2>1, <2>5, <2>6, <2>7, PicksMore
    <3>2. Append(P[n], seq[n + 1]) \in Seq(T)
      BY <2>4, <2>6
    <3> QED
      BY <3>1, <3>2, <2>3, <2>7
  <2>8. CASE seq[n + 1] \notin S
    <3>1. Len(P[n]) \in Nat
      BY <2>6, LenProperties
    <3>2. Picks(e, P[n], seq, n + 1, S)
      <4>1. e \in [1 .. Len(P[n]) -> 1 .. n + 1]
        BY <2>5, <3>1 DEF Picks
      <4>2. ASSUME NEW i \in 1 .. n + 1
            PROVE  seq[i] \in S <=> \E j \in 1 .. Len(P[n]) : e[j] = i
        <5>1. CASE i = n + 1
          BY <5>1, <2>8, <2>5, <3>1 DEF Picks
        <5>2. CASE i \in 1 .. n
          BY <5>2, <2>5 DEF Picks
        <5> QED
          BY <5>1, <5>2
      <4> QED
        BY <4>1, <4>2, <2>5 DEF Picks
    <3> QED
      BY <3>2, <2>3, <2>6, <2>8
  <2> QED
    BY <2>7, <2>8
<1>3. Good(Len(seq))
  <2> HIDE DEF Good
  <2>1. Len(seq) \in I
    <3> HIDE DEF I
    <3> QED BY <1>1, <1>2, <1>l, SetInduction
  <2> QED
    BY <2>1, <1>l
<1> QED
  BY <1>3, OnlyIsLastPrefix

-----------------------------------------------------------------------------
(* Resolve, field by field *)

SetBy(k, rules, f) == {i \in DOMAIN rules : Matches(rules[i].pattern, k) /\ rules[i].rules[f] # {}}
LastOf(S) == CHOOSE i \in S : \A j \in S : j <= i
Field(k, rules, f) ==
  IF SetBy(k, rules, f) = {} THEN DefaultRules[f]
  ELSE CHOOSE x \in rules[LastOf(SetBy(k, rules, f))].rules[f] : TRUE

LEMMA ResolveIs ==
  \A k, rules : Resolve(k, rules) = [run |-> Field(k, rules, "run"), check |-> Field(k, rules, "check")]
  BY DEF Resolve, Field, LastOf, SetBy

(* Rules are a sequence, and what they set is of its kind.                 *)
RulesOK(rules) ==
  /\ Len(rules) \in Nat /\ DOMAIN rules = 1 .. Len(rules)
  /\ \A i \in DOMAIN rules : /\ rules[i].rules.run \subseteq RunMode
                             /\ rules[i].rules.check \subseteq CheckMode

LEMMA LastOfIs ==
  ASSUME NEW n \in Nat, NEW S, S \subseteq 1 .. n, S # {}
  PROVE  LastOf(S) \in S /\ \A j \in S : j <= LastOf(S)
<1>1. S \subseteq 0 .. n
  OBVIOUS
<1>2. \E i \in S : \A j \in S : j <= i
  BY <1>1, GreatestExists
<1> QED
  BY <1>2 DEF LastOf

(* The last rule that sets f.                                              *)
LEMMA LastSetBy ==
  ASSUME NEW rules, RulesOK(rules), NEW k, NEW f, SetBy(k, rules, f) # {}
  PROVE  LET i == LastOf(SetBy(k, rules, f)) IN
         /\ i \in DOMAIN rules /\ Matches(rules[i].pattern, k) /\ rules[i].rules[f] # {}
         /\ \A j \in SetBy(k, rules, f) : j <= i
         /\ Field(k, rules, f) \in rules[i].rules[f]
<1> DEFINE S == SetBy(k, rules, f)
<1>1. S \subseteq 1 .. Len(rules)
  BY DEF RulesOK, SetBy
<1>2. LastOf(S) \in S /\ \A j \in S : j <= LastOf(S)
  <2> HIDE DEF S
  <2> QED BY <1>1, LastOfIs DEF RulesOK, S
<1> QED
  BY <1>2 DEF SetBy, Field

LEMMA ResolveType ==
  ASSUME NEW rules, RulesOK(rules), NEW k
  PROVE  Resolve(k, rules) \in TestRules
<1>1. Field(k, rules, "run") \in RunMode
  <2>1. CASE SetBy(k, rules, "run") = {}
    BY <2>1 DEF Field, DefaultRules, RunMode, Check, Skip
  <2>2. CASE SetBy(k, rules, "run") # {}
    BY <2>2, LastSetBy DEF RulesOK
  <2> QED
    BY <2>1, <2>2
<1>2. Field(k, rules, "check") \in CheckMode
  <2>1. CASE SetBy(k, rules, "check") = {}
    BY <2>1 DEF Field, DefaultRules, CheckMode, RunMode, Check, Skip
  <2>2. CASE SetBy(k, rules, "check") # {}
    BY <2>2, LastSetBy DEF RulesOK
  <2> QED
    BY <2>1, <2>2
<1> QED
  BY <1>1, <1>2, ResolveIs DEF TestRules

(* If the rules that match k are the same in A and B, in the same order,   *)
(* they mean the same for k.  g maps the indices of A to those of B.       *)
MatchAlike(k, A, B, g) ==
  /\ \A i \in DOMAIN A : Matches(A[i].pattern, k) =>
        g[i] \in DOMAIN B /\ B[g[i]] = A[i]
  /\ \A i, j \in DOMAIN A :
        Matches(A[i].pattern, k) /\ Matches(A[j].pattern, k) /\ i < j => g[i] < g[j]
  /\ \A l \in DOMAIN B : Matches(B[l].pattern, k) =>
        \E i \in DOMAIN A : Matches(A[i].pattern, k) /\ g[i] = l

LEMMA FieldAlike ==
  ASSUME NEW k, NEW A, NEW B, NEW g, RulesOK(A), RulesOK(B), MatchAlike(k, A, B, g), NEW f
  PROVE  Field(k, A, f) = Field(k, B, f)
<1>1. \A i \in SetBy(k, A, f) : g[i] \in SetBy(k, B, f) /\ B[g[i]] = A[i]
  BY DEF SetBy, MatchAlike
<1>2. \A l \in SetBy(k, B, f) : \E i \in SetBy(k, A, f) : g[i] = l
  BY DEF SetBy, MatchAlike
<1>3. CASE SetBy(k, A, f) = {}
  <2>1. SetBy(k, B, f) = {}
    BY <1>2, <1>3
  <2> QED
    BY <1>3, <2>1 DEF Field
<1>4. CASE SetBy(k, A, f) # {}
  <2> DEFINE a == LastOf(SetBy(k, A, f))
             b == LastOf(SetBy(k, B, f))
  <2>1. SetBy(k, B, f) # {}
    BY <1>1, <1>4
  <2>2. a \in SetBy(k, A, f) /\ \A i \in SetBy(k, A, f) : i <= a
    BY <1>4, LastSetBy DEF SetBy
  <2>3. b \in SetBy(k, B, f) /\ \A l \in SetBy(k, B, f) : l <= b
    BY <2>1, LastSetBy DEF SetBy
  <2>4. \A i \in SetBy(k, A, f) : i \in Int /\ i \in DOMAIN A /\ Matches(A[i].pattern, k)
    BY DEF SetBy, RulesOK
  <2>5. \A l \in SetBy(k, B, f) : l \in Int
    BY DEF SetBy, RulesOK
  <2> HIDE DEF a, b
  <2>6. PICK i \in SetBy(k, A, f) : g[i] = b
    BY <1>2, <2>3
  <2>7. g[a] \in SetBy(k, B, f) /\ g[a] <= b
    BY <1>1, <2>2, <2>3
  <2>8. i <= a
    BY <2>2, <2>6
  <2>9. ~(i < a)
    BY <2>2, <2>4, <2>5, <2>6, <2>7, <2>3 DEF MatchAlike
  <2>10. i = a
    BY <2>2, <2>4, <2>6, <2>8, <2>9
  <2>11. B[b] = A[a]
    BY <1>1, <2>6, <2>10
  <2> QED
    BY <1>4, <2>1, <2>11 DEF Field, a, b
<1> QED
  BY <1>3, <1>4

LEMMA ResolveAlike ==
  ASSUME NEW k, NEW A, NEW B, NEW g, RulesOK(A), RulesOK(B), MatchAlike(k, A, B, g)
  PROVE  Resolve(k, A) = Resolve(k, B)
  BY FieldAlike, ResolveIs

-----------------------------------------------------------------------------
(* RunTest *)

Fate == {f \in [Phase -> Outcome \ {"none"}] : \A p \in Phase \ {Generate} : f[p] \in {"ok", "err"}}

LEMMA RunTestIs ==
  ASSUME NEW rules \in TestRules, NEW f \in Fate
  PROVE  LET r == RunTest(rules, f) IN
         /\ r.run \in RunMode /\ r.out \in [Phase -> Outcome]
         /\ rules.run = Skip => r = NewResults(rules)
         /\ rules.run # Skip =>
              /\ r.ran_to \in Phase /\ r.ran_to <= rules.run
              /\ \A p \in Phase : p < r.ran_to => f[p] = "ok"
              /\ r.ran_to # rules.run => f[r.ran_to] # "ok"
              /\ r.out = [p \in Phase |-> IF p <= r.ran_to THEN f[p] ELSE "none"]
              /\ r.run = IF f[r.ran_to] = "unsupported" THEN Skip ELSE rules.run
<1>r. rules.run \in 0 .. 5 /\ Skip = 0 /\ Phase = 1 .. 5 /\ RunMode = 0 .. 5
  BY DEF TestRules, RunMode, Phase, Skip, Check, Generate
<1>1. CASE rules.run = Skip
  <2>1. RunTest(rules, f) = NewResults(rules)
    BY <1>1 DEF RunTest
  <2>2. NewResults(rules).run = Skip /\ NewResults(rules).out = [p \in Phase |-> "none"]
    BY <1>1 DEF NewResults
  <2> QED
    BY <1>r, <1>1, <2>1, <2>2 DEF Outcome
<1>2. CASE rules.run # Skip
  <2> DEFINE stops  == {p \in Phase : p <= rules.run /\ f[p] # "ok"}
             ran_to == IF stops = {} THEN rules.run
                       ELSE CHOOSE p \in stops : \A q \in stops : p <= q
  <2>1. RunTest(rules, f) =
          [run    |-> IF f[ran_to] = "unsupported" THEN Skip ELSE rules.run,
           ran_to |-> ran_to,
           out    |-> [p \in Phase |-> IF p <= ran_to THEN f[p] ELSE "none"]]
    BY <1>2 DEF RunTest
  <2>2. stops # {} => ran_to \in stops /\ \A q \in stops : ran_to <= q
    <3>1. stops \subseteq Nat
      BY <1>r
    <3>2. stops # {} => \E p \in stops : \A q \in stops : p <= q
      <4> HIDE DEF stops
      <4> QED BY <3>1, LeastExists
    <3> HIDE DEF stops
    <3> QED
      BY <3>2
  <2>3. /\ ran_to \in Phase /\ ran_to <= rules.run
        /\ \A p \in Phase : p < ran_to => f[p] = "ok"
        /\ ran_to # rules.run => f[ran_to] # "ok"
    <3>1. CASE stops = {}
      <4>1. ran_to = rules.run
        BY <3>1
      <4>2. \A p \in Phase : p <= rules.run => f[p] = "ok"
        BY <3>1
      <4> HIDE DEF ran_to
      <4> QED
        BY <4>1, <4>2, <1>r, <1>2
    <3>2. CASE stops # {}
      <4>1. ran_to \in stops /\ \A q \in stops : ran_to <= q
        BY <2>2, <3>2
      <4> HIDE DEF ran_to
      <4> QED
        BY <4>1, <1>r
    <3> QED
      BY <3>1, <3>2
  <2> HIDE DEF stops, ran_to
  <2>4. [p \in Phase |-> IF p <= ran_to THEN f[p] ELSE "none"] \in [Phase -> Outcome]
    BY DEF Fate, Outcome
  <2> QED
    BY <1>r, <1>2, <2>1, <2>3, <2>4
<1> QED
  BY <1>1, <1>2

-----------------------------------------------------------------------------
(* PossibleRules *)

Turn(rs) == Only([i \in DOMAIN Plan |-> i], Suggested(rs))

LEMMA PlanDomain == Len(Plan) \in Nat /\ DOMAIN Plan = 1 .. Len(Plan)
  BY PlanAssumption, LenProperties

(* A rule for every suggested test, and for no other.                      *)
LEMMA PossibleRulesIs ==
  ASSUME NEW rs
  PROVE  /\ Turn(rs) \in Seq(DOMAIN Plan)
         /\ PossibleRules(rs) =
              [n \in DOMAIN Turn(rs) |->
                 [pattern |-> PatternOf(Plan[Turn(rs)[n]]),
                  rules   |-> CouldBe(rs[Turn(rs)[n]].results)]]
         /\ \A i : i \in Suggested(rs) <=> \E n \in DOMAIN Turn(rs) : Turn(rs)[n] = i
<1> DEFINE s == [i \in DOMAIN Plan |-> i]
<1>1. s \in Seq(DOMAIN Plan) /\ Len(s) = Len(Plan)
  <2>1. s \in [1 .. Len(Plan) -> DOMAIN Plan]
    BY PlanDomain
  <2> HIDE DEF s
  <2> QED
    BY <2>1, PlanDomain, SeqDef, LenProperties
<1>2. Turn(rs) \in Seq(DOMAIN Plan) /\ \E e : Picks(e, Turn(rs), s, Len(s), Suggested(rs))
  BY <1>1, OnlyPicks DEF Turn
<1>3. PICK e : Picks(e, Turn(rs), s, Len(s), Suggested(rs))
  BY <1>2
<1>4. DOMAIN Turn(rs) = 1 .. Len(Turn(rs))
  BY <1>2, LenProperties
<1>5. Suggested(rs) \subseteq DOMAIN Plan
  BY DEF Suggested, Failing
<1>6. \A i \in DOMAIN Plan : s[i] = i
  OBVIOUS
<1> HIDE DEF s
<1>7. \A i \in DOMAIN Plan : i \in Suggested(rs) <=> \E n \in DOMAIN Turn(rs) : e[n] = i
  BY <1>1, <1>3, <1>4, <1>6, PlanDomain, ZenonT(30) DEF Picks
<1>8. \A n \in DOMAIN Turn(rs) : e[n] \in DOMAIN Plan /\ Turn(rs)[n] = e[n]
  BY <1>1, <1>3, <1>4, <1>6, PlanDomain DEF Picks
<1>9. PossibleRules(rs) =
        [n \in DOMAIN Turn(rs) |->
           [pattern |-> PatternOf(Plan[Turn(rs)[n]]), rules |-> CouldBe(rs[Turn(rs)[n]].results)]]
  BY DEF PossibleRules, Turn
<1> QED
  BY <1>2, <1>5, <1>7, <1>8, <1>9

(* What a report suggests never sets run to Check.                         *)
AddedRule == [pattern : {PatternOf(Plan[i]) : i \in DOMAIN Plan},
              rules   : [run : SUBSET (RunMode \ {Check}), check : SUBSET CheckMode]]

LEMMA PossibleRulesType ==
  ASSUME NEW rs, \A i \in DOMAIN Plan : rs[i].results.run \in RunMode
  PROVE  PossibleRules(rs) \in Seq(AddedRule)
<1>1. ASSUME NEW r, r.run \in RunMode
      PROVE  CouldBe(r) \in [run : SUBSET (RunMode \ {Check}), check : SUBSET CheckMode]
  <2> DEFINE kind == IF TRUE \in SuccessAtStep(r, r.ran_to, TRUE) THEN "pass" ELSE "busted"
  <2>1. kind \in {"pass", "fail", "busted"}
    OBVIOUS
  <2>2. CouldBe(r) = [run |-> IF r.run # Check THEN {r.run} ELSE {},
                      check |-> {[kind |-> kind, phase |-> r.run]}]
    BY DEF CouldBe
  <2> HIDE DEF kind
  <2>3. [kind |-> kind, phase |-> r.run] \in CheckMode
    BY <1>1, <2>1 DEF CheckMode
  <2>4. {[kind |-> kind, phase |-> r.run]} \in SUBSET CheckMode
    BY <2>3
  <2> QED
    BY <1>1, <2>2, <2>4
<1>2. ASSUME NEW n \in DOMAIN Turn(rs)
      PROVE  [pattern |-> PatternOf(Plan[Turn(rs)[n]]), rules |-> CouldBe(rs[Turn(rs)[n]].results)]
               \in AddedRule
  <2>1. Turn(rs)[n] \in DOMAIN Plan
    BY PossibleRulesIs, LenProperties
  <2>2. CouldBe(rs[Turn(rs)[n]].results)
          \in [run : SUBSET (RunMode \ {Check}), check : SUBSET CheckMode]
    BY <1>1, <2>1
  <2> QED
    BY <2>1, <2>2 DEF AddedRule
<1>3. Len(Turn(rs)) \in Nat /\ DOMAIN Turn(rs) = 1 .. Len(Turn(rs))
  BY PossibleRulesIs, LenProperties
<1>4. PossibleRules(rs) \in [1 .. Len(Turn(rs)) -> AddedRule]
  BY <1>2, <1>3, PossibleRulesIs
<1> QED
  BY <1>3, <1>4, SeqDef

-----------------------------------------------------------------------------
(* The invariant: the reports are what the rules and the fates of their    *)
(* run make of the tests, and the rules are those of the run before, or    *)
(* what adopting its suggestions made of them.                             *)

Graded(i, fs, rs) ==
  LET rules   == Resolve(Plan[i], Builtin \o rs)
      results == RunTest(rules, fs[i])
  IN  [results |-> results, check |-> rules.check, conclusion |-> Conclude(results, rules.check)]
GradedAll(fs, rs) == [i \in DOMAIN Plan |-> Graded(i, fs, rs)]

Kept(rs, new) == {r \in ToSet(rs) : \A n \in DOMAIN new : new[n].pattern # r.pattern}
Adoption(rs, reps) == Only(rs, Kept(rs, PossibleRules(reps))) \o PossibleRules(reps)

FatesOK(fs) == DOMAIN fs = DOMAIN Plan /\ \A i \in DOMAIN Plan : fs[i] \in Fates(i)

IInv ==
  /\ stage \in {"idle", "reported"}
  /\ FatesOK(fate) /\ FatesOK(last.fate)
  /\ added \in Seq(AddedRule) /\ last.added \in Seq(AddedRule)
  /\ stage = "reported" => reports = GradedAll(fate, added)
  /\ last.ran => /\ last.reports = GradedAll(last.fate, last.added)
                 /\ \/ added = last.added
                    \/ fate = last.fate /\ added = Adoption(last.added, last.reports)

(* The rules of a run: the built-in ones, then those that were added.      *)
LEMMA AllRules ==
  ASSUME NEW rs \in Seq(AddedRule)
  PROVE  LET n == Len(Builtin) IN
         /\ n \in Nat /\ DOMAIN Builtin = 1 .. n
         /\ Len(rs) \in Nat /\ DOMAIN rs = 1 .. Len(rs)
         /\ Len(Builtin \o rs) = n + Len(rs)
         /\ RulesOK(Builtin \o rs)
         /\ \A i \in 1 .. n : (Builtin \o rs)[i] = Builtin[i]
         /\ \A i \in 1 .. Len(rs) : (Builtin \o rs)[n + i] = rs[i]
<1> DEFINE B == {Builtin[i] : i \in DOMAIN Builtin}
           T == B \cup AddedRule
<1>1. Builtin \in Seq(B) /\ Builtin \in Seq(T) /\ rs \in Seq(T)
  BY BuiltinAssumption, SeqMonotonic
<1> HIDE DEF B, T
<1>2. /\ Len(Builtin) \in Nat /\ DOMAIN Builtin = 1 .. Len(Builtin)
      /\ Len(rs) \in Nat /\ DOMAIN rs = 1 .. Len(rs)
      /\ \A i \in 1 .. Len(rs) : rs[i] \in AddedRule
  BY <1>1, LenProperties
<1>3. /\ Builtin \o rs \in Seq(T)
      /\ Len(Builtin \o rs) = Len(Builtin) + Len(rs)
      /\ \A i \in 1 .. Len(Builtin) + Len(rs) :
           (Builtin \o rs)[i] = IF i <= Len(Builtin) THEN Builtin[i] ELSE rs[i - Len(Builtin)]
  BY <1>1, ConcatProperties
<1>4. DOMAIN (Builtin \o rs) = 1 .. Len(Builtin \o rs)
  BY <1>3, LenProperties
<1>5. \A i \in 1 .. Len(Builtin) : (Builtin \o rs)[i] = Builtin[i]
  BY <1>2, <1>3
<1>6. \A i \in 1 .. Len(rs) : (Builtin \o rs)[Len(Builtin) + i] = rs[i]
  BY <1>2, <1>3
<1>7. ASSUME NEW i \in 1 .. Len(Builtin) + Len(rs)
      PROVE  /\ (Builtin \o rs)[i].rules.run \subseteq RunMode
             /\ (Builtin \o rs)[i].rules.check \subseteq CheckMode
  <2>1. CASE i <= Len(Builtin)
    BY <2>1, <1>2, <1>5, BuiltinAssumption
  <2>2. CASE ~(i <= Len(Builtin))
    <3>1. (Builtin \o rs)[i] \in AddedRule
      BY <2>2, <1>2, <1>3
    <3> QED
      BY <3>1 DEF AddedRule
  <2> QED
    BY <2>1, <2>2
<1>8. RulesOK(Builtin \o rs)
  BY <1>2, <1>3, <1>4, <1>7 DEF RulesOK
<1> QED
  BY <1>2, <1>3, <1>5, <1>6, <1>8

LEMMA FateType ==
  ASSUME NEW fs, FatesOK(fs), NEW i \in DOMAIN Plan
  PROVE  fs[i] \in Fate
  BY FatesAssumption DEF FatesOK, Fate

LEMMA GradedResults ==
  ASSUME NEW fs, FatesOK(fs), NEW rs \in Seq(AddedRule), NEW i \in DOMAIN Plan
  PROVE  /\ Resolve(Plan[i], Builtin \o rs) \in TestRules
         /\ Graded(i, fs, rs).results.run \in RunMode
<1>1. Resolve(Plan[i], Builtin \o rs) \in TestRules
  BY AllRules, ResolveType
<1>2. fs[i] \in Fate
  BY FateType
<1> QED
  BY <1>1, <1>2, RunTestIs DEF Graded

LEMMA AdoptionType ==
  ASSUME NEW fs, FatesOK(fs), NEW rs \in Seq(AddedRule)
  PROVE  Adoption(rs, GradedAll(fs, rs)) \in Seq(AddedRule)
<1>1. PossibleRules(GradedAll(fs, rs)) \in Seq(AddedRule)
  <2>1. \A i \in DOMAIN Plan : GradedAll(fs, rs)[i].results.run \in RunMode
    BY GradedResults DEF GradedAll
  <2> QED
    BY <2>1, PossibleRulesType
<1>2. Only(rs, Kept(rs, PossibleRules(GradedAll(fs, rs)))) \in Seq(AddedRule)
  BY OnlyPicks
<1> QED
  BY <1>1, <1>2, ConcatProperties DEF Adoption

LEMMA InitInv == Init => IInv
<1> SUFFICES ASSUME Init PROVE IInv
  OBVIOUS
<1>1. FatesOK(fate)
  BY DEF Init, FatesOK
<1>2. <<>> \in Seq(AddedRule)
  OBVIOUS
<1> QED
  BY <1>1, <1>2 DEF Init, IInv

LEMMA NextInv == IInv /\ [Next]_vars => IInv'
<1> SUFFICES ASSUME IInv, [Next]_vars PROVE IInv'
  OBVIOUS
<1>1. CASE RunSuite
  <2>1. reports' = GradedAll(fate, added)
    BY <1>1 DEF RunSuite, Report, GradedAll, Graded
  <2> QED
    BY <1>1, <2>1 DEF RunSuite, IInv, FatesOK, GradedAll, Graded
<1>2. CASE Adopt
  <2>1. reports = GradedAll(fate, added)
    BY <1>2 DEF Adopt, IInv
  <2>2. added' = Adoption(added, reports)
    BY <1>2 DEF Adopt, Adoption, Kept
  <2>3. added' \in Seq(AddedRule)
    BY <2>1, <2>2, AdoptionType DEF IInv
  <2>4. /\ stage' = "idle" /\ fate' = fate
        /\ last' = [ran |-> TRUE, fate |-> fate, added |-> added, reports |-> reports]
    BY <1>2 DEF Adopt, Remember
  <2> QED
    BY <2>1, <2>2, <2>3, <2>4 DEF IInv
<1>3. ASSUME NEW i \in DOMAIN Plan, Upgrade(i) PROVE IInv'
  <2>1. FatesOK(fate')
    BY <1>3 DEF Upgrade, IInv, FatesOK
  <2>2. /\ stage = "reported" /\ stage' = "idle" /\ added' = added
        /\ last' = [ran |-> TRUE, fate |-> fate, added |-> added, reports |-> reports]
    BY <1>3 DEF Upgrade, Remember
  <2> QED
    BY <2>1, <2>2 DEF IInv
<1>4. CASE UNCHANGED vars
  BY <1>4 DEF IInv, vars
<1> QED
  BY <1>1, <1>2, <1>3, <1>4 DEF Next

(* Of report_test and the rules between two runs: what main remembers of   *)
(* the last run are the reports of that run, each graded by the rules it   *)
(* was made with, and nothing but suggested rules was added since.         *)
THEOREM Invariance == Spec => []IInv
  BY InitInv, NextInv, PTL DEF Spec

-----------------------------------------------------------------------------
(* Conclude, without the sets that stand for options *)

LEMMA MeetsIs ==
  ASSUME NEW r, NEW c \in CheckMode
  PROVE  /\ c.kind = "pass" =>
              (Meets(r, c) <=> c.phase = Skip \/ r.out[c.phase] = "ok")
         /\ c.kind \in {"fail", "busted"} =>
              (Meets(r, c) <=> c.phase = Skip \/ r.out[c.phase] \notin {"none", "ok"})
         /\ c.kind = "random" => Meets(r, c)
         /\ c.kind \in {"pass", "fail", "busted", "random"}
<1>1. c.kind \in {"pass", "fail", "busted", "random"}
  BY DEF CheckMode
<1>2. CASE c.kind = "pass"
  <2>1. Meets(r, c) <=> TRUE \in SuccessAtStep(r, c.phase, TRUE)
    BY <1>2 DEF Meets
  <2>2. TRUE \in SuccessAtStep(r, c.phase, TRUE) <=> c.phase = Skip \/ r.out[c.phase] = "ok"
    BY DEF SuccessAtStep
  <2> QED
    BY <1>2, <2>1, <2>2
<1>3. CASE c.kind \in {"fail", "busted"}
  <2>1. Meets(r, c) <=> TRUE \in SuccessAtStep(r, c.phase, FALSE)
    BY <1>3 DEF Meets
  <2>2. TRUE \in SuccessAtStep(r, c.phase, FALSE)
          <=> c.phase = Skip \/ r.out[c.phase] \notin {"none", "ok"}
    BY DEF SuccessAtStep
  <2> QED
    BY <1>3, <2>1, <2>2
<1>4. CASE c.kind = "random"
  BY <1>4 DEF Meets
<1> QED
  BY <1>1, <1>2, <1>3, <1>4

-----------------------------------------------------------------------------
(* The properties follow *)

LEMMA UnsupportedFollows == IInv => UnsupportedNeverFails
<1> SUFFICES ASSUME IInv, stage = "reported", NEW i \in DOMAIN Plan,
                    fate[i][Generate] \in {"unsupported", "skipped"}
             PROVE  reports[i].conclusion = "Skipped"
  BY DEF UnsupportedNeverFails
<1> DEFINE rules == Resolve(Plan[i], Builtin \o added)
           r == RunTest(rules, fate[i])
<1>1. rules \in TestRules /\ fate[i] \in Fate
  BY GradedResults, FateType DEF IInv
<1>2. reports[i].conclusion = Conclude(r, rules.check)
  BY DEF IInv, GradedAll, Graded
<1> HIDE DEF rules
<1>3. CASE rules.run = Skip
  <2>1. r = NewResults(rules)
    BY <1>1, <1>3, RunTestIs
  <2> HIDE DEF r
  <2>2. r.run = Skip
    BY <1>3, <2>1 DEF NewResults
  <2> QED
    BY <1>2, <2>2 DEF Conclude
<1>4. CASE rules.run # Skip
  <2>0. rules.run \in 0 .. 5 /\ Skip = 0 /\ Generate = 1 /\ Phase = 1 .. 5
    BY <1>1 DEF TestRules, RunMode, Phase, Skip, Generate, Check
  <2>1. /\ r.ran_to \in Phase
        /\ \A p \in Phase : p < r.ran_to => fate[i][p] = "ok"
        /\ r.out = [p \in Phase |-> IF p <= r.ran_to THEN fate[i][p] ELSE "none"]
        /\ r.run = IF fate[i][r.ran_to] = "unsupported" THEN Skip ELSE rules.run
    BY <1>1, <1>4, RunTestIs
  <2> HIDE DEF r
  <2>2. r.ran_to = Generate
    BY <2>0, <2>1
  <2>3. r.out[Generate] = fate[i][Generate]
    BY <2>0, <2>1, <2>2
  <2>4. r.run = Skip \/ r.out[Generate] = "skipped"
    BY <2>1, <2>2, <2>3
  <2> QED
    BY <1>2, <2>4 DEF Conclude
<1> QED
  BY <1>3, <1>4

LEMMA ChangeFollows == IInv => ChangeIsNoticed
<1> SUFFICES ASSUME IInv, Rerun, last.added = added, NEW i \in DOMAIN Plan,
                    last.reports[i].conclusion \in {"Passed", "Busted"},
                    reports[i].check.kind # "random", reports[i].check.phase # Skip,
                    reports[i].results.out[reports[i].check.phase]
                      # last.reports[i].results.out[reports[i].check.phase]
             PROVE  reports[i].conclusion \in {"Failed", "Skipped"}
  BY DEF ChangeIsNoticed
<1> DEFINE rules == Resolve(Plan[i], Builtin \o added)
           c == rules.check
           r == RunTest(rules, fate[i])
           q == RunTest(rules, last.fate[i])
<1>1. rules \in TestRules /\ fate[i] \in Fate /\ last.fate[i] \in Fate
  BY GradedResults, FateType DEF IInv
<1>2. /\ reports[i].conclusion = Conclude(r, c) /\ reports[i].check = c
      /\ reports[i].results = r
      /\ last.reports[i].conclusion = Conclude(q, c)
      /\ last.reports[i].results = q
  BY DEF IInv, GradedAll, Graded, Rerun
<1> HIDE DEF rules
<1>3. c \in CheckMode
  BY <1>1 DEF TestRules
<1>4. r.out \in [Phase -> Outcome] /\ q.out \in [Phase -> Outcome]
  BY <1>1, RunTestIs
<1>5. q.run # Skip /\ q.out[Generate] # "skipped" /\ Meets(q, c)
  BY <1>2 DEF Conclude
<1>6. c.kind # "random" /\ c.phase # Skip /\ r.out[c.phase] # q.out[c.phase]
  BY <1>2
<1>7. c.phase \in Phase
  <2>1. c.phase \in RunMode
    BY <1>3 DEF CheckMode, RunMode, Skip, Check
  <2> QED
    BY <2>1, <1>6 DEF RunMode, Phase, Skip, Check, Generate
<1>8. rules.run # Skip
  <2>1. rules.run = Skip => q = NewResults(rules)
    BY <1>1, RunTestIs
  <2> HIDE DEF q
  <2>2. NewResults(rules).run = rules.run
    BY DEF NewResults
  <2> QED
    BY <1>5, <2>1, <2>2
<1>9. c.kind = "pass" => ~Meets(r, c)
  BY <1>3, <1>5, <1>6, MeetsIs
<1>10. c.kind \in {"fail", "busted"} => ~Meets(r, c) \/ r.run = Skip \/ r.out[Generate] = "skipped"
  <2> SUFFICES ASSUME c.kind \in {"fail", "busted"}, Meets(r, c)
               PROVE  r.run = Skip \/ r.out[Generate] = "skipped"
    OBVIOUS
  <2>1. q.out[c.phase] \notin {"none", "ok"} /\ r.out[c.phase] \notin {"none", "ok"}
    BY <1>3, <1>5, <1>6, MeetsIs
  <2>2. /\ r.ran_to \in Phase /\ q.ran_to \in Phase
        /\ \A p \in Phase : p < r.ran_to => fate[i][p] = "ok"
        /\ \A p \in Phase : p < q.ran_to => last.fate[i][p] = "ok"
        /\ r.out = [p \in Phase |-> IF p <= r.ran_to THEN fate[i][p] ELSE "none"]
        /\ q.out = [p \in Phase |-> IF p <= q.ran_to THEN last.fate[i][p] ELSE "none"]
        /\ r.run = IF fate[i][r.ran_to] = "unsupported" THEN Skip ELSE rules.run
        /\ q.run = IF last.fate[i][q.ran_to] = "unsupported" THEN Skip ELSE rules.run
    <3>1. /\ r.ran_to \in Phase /\ \A p \in Phase : p < r.ran_to => fate[i][p] = "ok"
          /\ r.out = [p \in Phase |-> IF p <= r.ran_to THEN fate[i][p] ELSE "none"]
          /\ r.run = IF fate[i][r.ran_to] = "unsupported" THEN Skip ELSE rules.run
      BY <1>1, <1>8, RunTestIs
    <3>2. /\ q.ran_to \in Phase /\ \A p \in Phase : p < q.ran_to => last.fate[i][p] = "ok"
          /\ q.out = [p \in Phase |-> IF p <= q.ran_to THEN last.fate[i][p] ELSE "none"]
          /\ q.run = IF last.fate[i][q.ran_to] = "unsupported" THEN Skip ELSE rules.run
      <4>1. rules \in TestRules /\ last.fate[i] \in Fate /\ rules.run # Skip
        BY <1>1, <1>8
      <4>2. PICK f \in Fate : f = last.fate[i]
        BY <4>1
      <4>3. PICK w \in TestRules : w = rules
        BY <4>1
      <4> HIDE DEF rules
      <4>4. /\ RunTest(w, f).ran_to \in Phase
            /\ \A p \in Phase : p < RunTest(w, f).ran_to => f[p] = "ok"
            /\ RunTest(w, f).out = [p \in Phase |-> IF p <= RunTest(w, f).ran_to
                                                    THEN f[p] ELSE "none"]
            /\ RunTest(w, f).run = IF f[RunTest(w, f).ran_to] = "unsupported"
                                   THEN Skip ELSE w.run
        <5>1. w.run # Skip
          BY <4>1, <4>3
        <5> QED
          BY <5>1, RunTestIs
      <4> QED
        BY <4>2, <4>3, <4>4, Zenon
    <3> HIDE DEF r, q
    <3> QED
      BY <3>1, <3>2
  <2> HIDE DEF r, q
  <2>3. c.phase = r.ran_to /\ c.phase = q.ran_to
    <3>1. \A x, y \in Phase : x < y \/ x = y \/ ~(x <= y)
      BY DEF Phase, Generate, Check
    <3>2. c.phase = r.ran_to
      <4>1. r.out[c.phase] = IF c.phase <= r.ran_to THEN fate[i][c.phase] ELSE "none"
        BY <1>7, <2>2
      <4>2. c.phase < r.ran_to => fate[i][c.phase] = "ok"
        BY <1>7, <2>2
      <4> QED
        BY <3>1, <4>1, <4>2, <1>7, <2>1, <2>2
    <3>3. c.phase = q.ran_to
      <4>1. q.out[c.phase] = IF c.phase <= q.ran_to THEN last.fate[i][c.phase] ELSE "none"
        BY <1>7, <2>2
      <4>2. c.phase < q.ran_to => last.fate[i][c.phase] = "ok"
        BY <1>7, <2>2
      <4> QED
        BY <3>1, <4>1, <4>2, <1>7, <2>1, <2>2
    <3> QED
      BY <3>2, <3>3
  <2>4. r.out[c.phase] = fate[i][c.phase] /\ q.out[c.phase] = last.fate[i][c.phase]
    BY <2>2, <2>3, <1>7 DEF Phase, Generate, Check
  <2>5. c.phase = Generate
    <3>1. c.phase # Generate => fate[i][c.phase] = "err" /\ last.fate[i][c.phase] = "err"
      BY <1>1, <1>7, <2>1, <2>4 DEF Fate
    <3> QED
      BY <3>1, <1>6, <2>4
  <2>6. q.out[Generate] = "err"
    <3>1. q.out[Generate] # "unsupported"
      BY <1>5, <2>2, <2>3, <2>4, <2>5
    <3> QED
      BY <3>1, <1>4, <1>5, <1>7, <2>1, <2>5 DEF Outcome
  <2>7. r.out[Generate] \in {"skipped", "unsupported"}
    BY <1>4, <1>6, <1>7, <2>1, <2>5, <2>6 DEF Outcome
  <2> QED
    BY <2>2, <2>3, <2>4, <2>5, <2>7
<1>11. ~Meets(r, c) \/ r.run = Skip \/ r.out[Generate] = "skipped"
  BY <1>3, <1>6, <1>9, <1>10, MeetsIs
<1> QED
  BY <1>2, <1>11 DEF Conclude

-----------------------------------------------------------------------------
(* What adopting rules means for a key that none of them matches           *)

LEMMA AdoptionParts ==
  ASSUME NEW rs \in Seq(AddedRule), NEW new \in Seq(AddedRule)
  PROVE  LET old == Only(rs, Kept(rs, new)) IN
         /\ old \in Seq(AddedRule) /\ old \o new \in Seq(AddedRule)
         /\ Len(old) \in Nat /\ Len(new) \in Nat /\ Len(rs) \in Nat
         /\ DOMAIN old = 1 .. Len(old) /\ DOMAIN new = 1 .. Len(new) /\ DOMAIN rs = 1 .. Len(rs)
         /\ Len(old \o new) = Len(old) + Len(new)
         /\ \A j \in 1 .. Len(old) : (old \o new)[j] = old[j]
         /\ \A j \in 1 .. Len(new) : (old \o new)[Len(old) + j] = new[j]
         /\ \E e : Picks(e, old, rs, Len(rs), Kept(rs, new))
<1> DEFINE old == Only(rs, Kept(rs, new))
<1>1. old \in Seq(AddedRule) /\ \E e : Picks(e, old, rs, Len(rs), Kept(rs, new))
  BY OnlyPicks
<1> HIDE DEF old
<1>2. /\ Len(old) \in Nat /\ Len(new) \in Nat /\ Len(rs) \in Nat
      /\ DOMAIN old = 1 .. Len(old) /\ DOMAIN new = 1 .. Len(new) /\ DOMAIN rs = 1 .. Len(rs)
  BY <1>1, LenProperties
<1>3. /\ old \o new \in Seq(AddedRule) /\ Len(old \o new) = Len(old) + Len(new)
      /\ \A j \in 1 .. Len(old) + Len(new) :
           (old \o new)[j] = IF j <= Len(old) THEN old[j] ELSE new[j - Len(old)]
  BY <1>1, ConcatProperties
<1>4. \A j \in 1 .. Len(old) : (old \o new)[j] = old[j]
  BY <1>2, <1>3
<1>5. \A j \in 1 .. Len(new) : (old \o new)[Len(old) + j] = new[j]
  BY <1>2, <1>3
<1> QED
  BY <1>1, <1>2, <1>3, <1>4, <1>5 DEF old

LEMMA UnmatchedKey ==
  ASSUME NEW rs \in Seq(AddedRule), NEW new \in Seq(AddedRule), NEW k,
         \A n \in DOMAIN new : ~Matches(new[n].pattern, k)
  PROVE  Resolve(k, Builtin \o (Only(rs, Kept(rs, new)) \o new)) = Resolve(k, Builtin \o rs)
<1> DEFINE old == Only(rs, Kept(rs, new))
           as == old \o new
           A == Builtin \o as
           B == Builtin \o rs
           n == Len(Builtin)
<1>1. /\ old \in Seq(AddedRule) /\ as \in Seq(AddedRule)
      /\ Len(old) \in Nat /\ Len(new) \in Nat /\ Len(rs) \in Nat
      /\ DOMAIN old = 1 .. Len(old) /\ DOMAIN new = 1 .. Len(new) /\ DOMAIN rs = 1 .. Len(rs)
      /\ Len(as) = Len(old) + Len(new)
      /\ \A j \in 1 .. Len(old) : as[j] = old[j]
      /\ \A j \in 1 .. Len(new) : as[Len(old) + j] = new[j]
  BY AdoptionParts
<1>2. PICK e : Picks(e, old, rs, Len(rs), Kept(rs, new))
  BY AdoptionParts
<1> HIDE DEF old, as
<1>3. /\ n \in Nat /\ RulesOK(A) /\ Len(A) = n + Len(as)
      /\ \A i \in 1 .. n : A[i] = Builtin[i]
      /\ \A i \in 1 .. Len(as) : A[n + i] = as[i]
  BY <1>1, AllRules
<1>4. /\ RulesOK(B) /\ Len(B) = n + Len(rs)
      /\ \A i \in 1 .. n : B[i] = Builtin[i]
      /\ \A i \in 1 .. Len(rs) : B[n + i] = rs[i]
  BY AllRules
<1>5. DOMAIN A = 1 .. n + Len(as) /\ DOMAIN B = 1 .. n + Len(rs)
  BY <1>3, <1>4 DEF RulesOK
<1> HIDE DEF A, B, n
<1>6. \A j \in 1 .. Len(old) : e[j] \in 1 .. Len(rs) /\ old[j] = rs[e[j]]
  BY <1>2 DEF Picks
<1> DEFINE g == [i \in 1 .. n + Len(old) |-> IF i <= n THEN i ELSE n + e[i - n]]
<1>7. ASSUME NEW i \in DOMAIN A, Matches(A[i].pattern, k)
      PROVE  /\ i \in 1 .. n + Len(old)
             /\ g[i] \in DOMAIN B /\ B[g[i]] = A[i]
             /\ i <= n => g[i] = i
             /\ i > n => i - n \in 1 .. Len(old) /\ g[i] = n + e[i - n] /\ g[i] > n
  <2>1. CASE i <= n
    <3>1. i \in 1 .. n /\ i \in 1 .. n + Len(old) /\ g[i] = i /\ i \in DOMAIN B
      BY <2>1, <1>1, <1>3, <1>4, <1>5
    <3>2. B[g[i]] = A[i]
      BY <3>1, <1>3, <1>4
    <3>3. ~(i > n)
      BY <3>1, <1>3
    <3> HIDE DEF g
    <3> QED
      BY <3>1, <3>2, <3>3
  <2>2. CASE i > n
    <3>1. i - n \in 1 .. Len(as) /\ n + (i - n) = i
      BY <2>2, <1>1, <1>3, <1>5
    <3>2. A[i] = as[i - n]
      BY <3>1, <1>3
    <3>3. i - n \in 1 .. Len(old)
      <4>1. SUFFICES ASSUME ~(i - n <= Len(old)) PROVE FALSE
        BY <3>1, <1>1
      <4>2. i - n - Len(old) \in DOMAIN new /\ Len(old) + (i - n - Len(old)) = i - n
        BY <4>1, <3>1, <1>1, <1>3
      <4>3. as[i - n] = new[i - n - Len(old)]
        BY <4>2, <1>1
      <4> QED
        BY <4>2, <4>3, <3>2, <1>7
    <3>4. i \in 1 .. n + Len(old) /\ g[i] = n + e[i - n]
      BY <3>3, <2>2, <1>1, <1>3
    <3>5. e[i - n] \in 1 .. Len(rs) /\ old[i - n] = rs[e[i - n]]
      BY <3>3, <1>6
    <3>6. g[i] \in DOMAIN B /\ g[i] > n
      BY <3>4, <3>5, <1>1, <1>3, <1>5, SMTT(30)
    <3>7. B[g[i]] = rs[e[i - n]] /\ A[i] = old[i - n]
      BY <3>2, <3>3, <3>4, <3>5, <1>1, <1>4
    <3> QED
      BY <2>2, <3>3, <3>4, <3>5, <3>6, <3>7
  <2>3. i \in Int /\ n \in Int
    BY <1>3, <1>5
  <2> HIDE DEF g
  <2> QED
    BY <2>1, <2>2, <2>3
<1> HIDE DEF g
<1>8. ASSUME NEW i \in DOMAIN A, NEW j \in DOMAIN A,
             Matches(A[i].pattern, k), Matches(A[j].pattern, k), i < j
      PROVE  g[i] < g[j]
  <2>1. i \in Int /\ j \in Int /\ n \in Int
    BY <1>3, <1>5
  <2>2. CASE j <= n
    BY <1>7, <1>8, <2>1, <2>2
  <2>3. CASE i <= n /\ j > n
    <3>1. g[j] \in Int
      <4>1. g[j] \in DOMAIN B
        BY <1>7, <1>8
      <4> QED
        BY <4>1, <1>1, <1>3, <1>5
    <3> QED
      BY <1>7, <1>8, <2>1, <2>3, <3>1
  <2>4. CASE i > n /\ j > n
    <3>1. i - n \in 1 .. Len(old) /\ j - n \in 1 .. Len(old) /\ i - n < j - n
      BY <1>7, <1>8, <2>1, <2>4
    <3>2. e[i - n] < e[j - n] /\ e[i - n] \in Int /\ e[j - n] \in Int
      BY <3>1, <1>2, <1>6 DEF Picks
    <3>3. g[i] = n + e[i - n] /\ g[j] = n + e[j - n]
      BY <1>7, <1>8, <2>4
    <3> QED
      BY <3>2, <3>3, <2>1
  <2> QED
    BY <2>1, <2>2, <2>3, <2>4, <1>8
<1>9. ASSUME NEW l \in DOMAIN B, Matches(B[l].pattern, k)
      PROVE  \E i \in DOMAIN A : Matches(A[i].pattern, k) /\ g[i] = l
  <2>1. CASE l <= n
    <3>1. l \in 1 .. n /\ l \in DOMAIN A
      BY <2>1, <1>1, <1>3, <1>5
    <3>2. A[l] = B[l]
      BY <3>1, <1>3, <1>4
    <3> QED
      BY <3>1, <3>2, <2>1, <1>7, <1>9
  <2>2. CASE ~(l <= n)
    <3>1. l - n \in 1 .. Len(rs) /\ n + (l - n) = l
      BY <2>2, <1>1, <1>3, <1>5
    <3>2. B[l] = rs[l - n]
      BY <3>1, <1>4
    <3>3. rs[l - n] \in Kept(rs, new)
      <4>1. rs[l - n] \in ToSet(rs)
        BY <3>1, <1>1 DEF ToSet
      <4>2. \A m \in DOMAIN new : new[m].pattern # rs[l - n].pattern
        BY <3>2, <1>9
      <4> QED
        BY <4>1, <4>2 DEF Kept
    <3>4. PICK j \in 1 .. Len(old) : e[j] = l - n
      BY <3>1, <3>3, <1>2 DEF Picks
    <3>5. n + j \in DOMAIN A /\ n + j - n = j /\ n + j > n
      BY <1>1, <1>3, <1>5
    <3>6. A[n + j] = B[l]
      <4>1. j \in 1 .. Len(as)
        BY <1>1
      <4>2. A[n + j] = as[j] /\ as[j] = old[j]
        BY <4>1, <1>1, <1>3
      <4>3. old[j] = rs[l - n]
        BY <3>4, <1>6
      <4> QED
        BY <4>2, <4>3, <3>2
    <3>7. g[n + j] = n + e[j]
      <4>1. Matches(A[n + j].pattern, k)
        BY <3>6, <1>9
      <4>2. PICK i \in DOMAIN A : i = n + j /\ i - n = j /\ i > n
        BY <3>5, <1>1, <1>3
      <4>3. g[i] = n + e[i - n]
        BY <4>1, <4>2, <1>7
      <4> QED
        BY <4>2, <4>3
    <3> QED
      BY <3>1, <3>4, <3>5, <3>6, <3>7, <1>9
  <2> QED
    BY <2>1, <2>2
<1>10. MatchAlike(k, A, B, g)
  BY <1>7, <1>8, <1>9 DEF MatchAlike
<1>11. Resolve(k, A) = Resolve(k, B)
  BY <1>3, <1>4, <1>10, ResolveAlike
<1> QED
  BY <1>11 DEF A, B, as, old

(* The rule that was suggested for i settles what it sets, as no other new *)
(* rule matches the key: new[m] is the last rule of all.                   *)
Asks(new, k, f, x) ==
  /\ \A n \in DOMAIN new : Matches(new[n].pattern, k) => new[n].rules[f] = {x}
  /\ \E n \in DOMAIN new : Matches(new[n].pattern, k)

LEMMA MatchedField ==
  ASSUME NEW rs \in Seq(AddedRule), NEW new \in Seq(AddedRule), NEW k, NEW f, NEW x,
         Asks(new, k, f, x)
  PROVE  Field(k, Builtin \o (Only(rs, Kept(rs, new)) \o new), f) = x
<1> USE DEF Asks
<1> DEFINE old == Only(rs, Kept(rs, new))
           as == old \o new
           A == Builtin \o as
           n == Len(Builtin)
<1>1. /\ as \in Seq(AddedRule)
      /\ Len(old) \in Nat /\ Len(new) \in Nat /\ DOMAIN new = 1 .. Len(new)
      /\ Len(as) = Len(old) + Len(new)
      /\ \A j \in 1 .. Len(new) : as[Len(old) + j] = new[j]
  BY AdoptionParts
<1> HIDE DEF old, as
<1>2. /\ n \in Nat /\ RulesOK(A) /\ Len(A) = n + Len(as)
      /\ \A i \in 1 .. Len(as) : A[n + i] = as[i]
  BY <1>1, AllRules
<1>3. DOMAIN A = 1 .. n + Len(old) + Len(new)
  BY <1>1, <1>2 DEF RulesOK
<1> HIDE DEF A, n
<1> DEFINE p == n + Len(old)
<1>4. p \in Nat /\ \A j \in 1 .. Len(new) : p + j \in DOMAIN A /\ A[p + j] = new[j]
  <2>1. p \in Nat
    BY <1>1, <1>2
  <2>2. ASSUME NEW j \in 1 .. Len(new) PROVE p + j \in DOMAIN A /\ A[p + j] = new[j]
    <3>1. Len(old) + j \in 1 .. Len(as) /\ p + j = n + (Len(old) + j) /\ p + j \in DOMAIN A
      BY <1>1, <1>2, <1>3
    <3> HIDE DEF p
    <3>2. A[p + j] = as[Len(old) + j]
      BY <3>1, <1>2
    <3> QED
      BY <3>1, <3>2, <1>1
  <2> QED
    BY <2>1, <2>2
<1>5. DOMAIN A = 1 .. p + Len(new)
  BY <1>3
<1> HIDE DEF p
<1>6. PICK m \in 1 .. Len(new) : Matches(new[m].pattern, k)
  BY <1>1
<1>7. p + m \in SetBy(k, A, f)
  <2>1. new[m].rules[f] = {x}
    BY <1>1, <1>6
  <2> QED
    BY <2>1, <1>4, <1>6 DEF SetBy
<1>8. PICK i \in DOMAIN A : /\ i = LastOf(SetBy(k, A, f)) /\ Matches(A[i].pattern, k)
                           /\ p + m <= i /\ Field(k, A, f) \in A[i].rules[f]
  BY <1>2, <1>7, LastSetBy
<1>9. i - p \in 1 .. Len(new) /\ p + (i - p) = i
  BY <1>1, <1>4, <1>5, <1>6, <1>8
<1>10. A[i] = new[i - p]
  BY <1>4, <1>9
<1>11. A[i].rules[f] = {x}
  BY <1>1, <1>8, <1>9, <1>10
<1>12. Field(k, A, f) = x
  BY <1>8, <1>11
<1> QED
  BY <1>12 DEF A, as, old

(* Rules that were added never set run to Check.  If a test runs to Check  *)
(* all the same, none of them set its run, and new ones that do not either *)
(* leave it so.                                                            *)
LEMMA StaysCheck ==
  ASSUME NEW rs \in Seq(AddedRule), NEW new \in Seq(AddedRule), NEW k,
         \A n \in DOMAIN new : Matches(new[n].pattern, k) => new[n].rules["run"] = {},
         Field(k, Builtin \o rs, "run") = Check
  PROVE  Field(k, Builtin \o (Only(rs, Kept(rs, new)) \o new), "run") = Check
<1> DEFINE old == Only(rs, Kept(rs, new))
           as == old \o new
           A == Builtin \o as
           B == Builtin \o rs
           n == Len(Builtin)
<1>1. /\ old \in Seq(AddedRule) /\ as \in Seq(AddedRule)
      /\ Len(old) \in Nat /\ Len(new) \in Nat /\ Len(rs) \in Nat
      /\ DOMAIN old = 1 .. Len(old) /\ DOMAIN new = 1 .. Len(new) /\ DOMAIN rs = 1 .. Len(rs)
      /\ Len(as) = Len(old) + Len(new)
      /\ \A j \in 1 .. Len(old) : as[j] = old[j]
      /\ \A j \in 1 .. Len(new) : as[Len(old) + j] = new[j]
  BY AdoptionParts
<1>2. PICK e : Picks(e, old, rs, Len(rs), Kept(rs, new))
  BY AdoptionParts
<1> HIDE DEF old, as
<1>3. /\ n \in Nat /\ RulesOK(A) /\ Len(A) = n + Len(as)
      /\ \A i \in 1 .. n : A[i] = Builtin[i]
      /\ \A i \in 1 .. Len(as) : A[n + i] = as[i]
  BY <1>1, AllRules
<1>4. /\ RulesOK(B) /\ Len(B) = n + Len(rs)
      /\ \A i \in 1 .. n : B[i] = Builtin[i]
      /\ \A i \in 1 .. Len(rs) : B[n + i] = rs[i]
  BY AllRules
<1>5. DOMAIN A = 1 .. n + Len(as) /\ DOMAIN B = 1 .. n + Len(rs)
  BY <1>3, <1>4 DEF RulesOK
<1>6. Field(k, B, "run") = Check
  OBVIOUS
<1> HIDE DEF A, B, n
<1>7. \A j \in 1 .. Len(rs) : Check \notin rs[j].rules["run"]
  <2>1. \A j \in 1 .. Len(rs) : rs[j] \in AddedRule
    BY <1>1
  <2> QED
    BY <2>1 DEF AddedRule
<1>8. \A l \in SetBy(k, B, "run") : l \in 1 .. n
  <2>1. SUFFICES ASSUME SetBy(k, B, "run") # {} PROVE \A l \in SetBy(k, B, "run") : l \in 1 .. n
    OBVIOUS
  <2>2. PICK l \in DOMAIN B : /\ Field(k, B, "run") \in B[l].rules["run"]
                             /\ \A j \in SetBy(k, B, "run") : j <= l
    BY <1>4, <2>1, LastSetBy
  <2>3. l <= n
    <3>1. SUFFICES ASSUME ~(l <= n) PROVE FALSE
      OBVIOUS
    <3>2. l - n \in 1 .. Len(rs) /\ n + (l - n) = l
      BY <3>1, <1>1, <1>3, <1>5
    <3>3. B[l] = rs[l - n]
      BY <3>2, <1>4
    <3> QED
      BY <3>2, <3>3, <2>2, <1>6, <1>7
  <2>4. SetBy(k, B, "run") \subseteq DOMAIN B
    BY DEF SetBy
  <2> QED
    BY <2>2, <2>3, <2>4, <1>1, <1>3, <1>5
<1>9. \A i \in SetBy(k, A, "run") : i \in 1 .. n
  <2> SUFFICES ASSUME NEW i \in SetBy(k, A, "run"), ~(i <= n) PROVE FALSE
    <3>1. SetBy(k, A, "run") \subseteq DOMAIN A
      BY DEF SetBy
    <3> QED
      BY <3>1, <1>1, <1>3, <1>5
  <2>1. i \in DOMAIN A /\ Matches(A[i].pattern, k) /\ A[i].rules["run"] # {}
    BY DEF SetBy
  <2>2. i - n \in 1 .. Len(as) /\ n + (i - n) = i
    BY <2>1, <1>1, <1>3, <1>5
  <2>3. A[i] = as[i - n]
    BY <2>2, <1>3
  <2>4. CASE i - n <= Len(old)
    <3>1. i - n \in 1 .. Len(old)
      BY <2>2, <2>4, <1>1
    <3>2. e[i - n] \in 1 .. Len(rs) /\ A[i] = rs[e[i - n]]
      BY <3>1, <2>3, <1>1, <1>2 DEF Picks
    <3>3. n + e[i - n] \in DOMAIN B /\ ~(n + e[i - n] \in 1 .. n)
      BY <3>2, <1>1, <1>3, <1>5
    <3>4. B[n + e[i - n]] = A[i]
      BY <3>2, <1>4
    <3>5. n + e[i - n] \in SetBy(k, B, "run")
      BY <3>3, <3>4, <2>1 DEF SetBy
    <3> QED
      BY <3>3, <3>5, <1>8
  <2>5. CASE ~(i - n <= Len(old))
    <3>1. i - n - Len(old) \in 1 .. Len(new) /\ Len(old) + (i - n - Len(old)) = i - n
      BY <2>2, <2>5, <1>1
    <3>2. A[i] = new[i - n - Len(old)]
      BY <3>1, <2>3, <1>1
    <3> QED
      BY <3>1, <3>2, <2>1, <1>1
  <2> QED
    BY <2>4, <2>5
<1>10. \A i \in 1 .. n : i \in DOMAIN A /\ i \in DOMAIN B /\ A[i] = B[i]
  BY <1>1, <1>3, <1>4, <1>5
<1>11. SetBy(k, A, "run") = SetBy(k, B, "run")
  BY <1>8, <1>9, <1>10 DEF SetBy
<1>12. SetBy(k, A, "run") # {} =>
         A[LastOf(SetBy(k, A, "run"))] = B[LastOf(SetBy(k, B, "run"))]
  <2> SUFFICES ASSUME SetBy(k, A, "run") # {}
               PROVE  A[LastOf(SetBy(k, A, "run"))] = B[LastOf(SetBy(k, B, "run"))]
    OBVIOUS
  <2>1. LastOf(SetBy(k, A, "run")) \in 1 .. n
    BY <1>3, <1>9, LastOfIs
  <2> QED
    BY <2>1, <1>10, <1>11
<1>13. Field(k, A, "run") = Field(k, B, "run")
  <2>1. CASE SetBy(k, A, "run") = {}
    BY <2>1, <1>11 DEF Field
  <2>2. CASE SetBy(k, A, "run") # {}
    <3> DEFINE a == A[LastOf(SetBy(k, A, "run"))]
               b == B[LastOf(SetBy(k, B, "run"))]
    <3>1. Field(k, A, "run") = CHOOSE x \in a.rules["run"] : TRUE
      BY <2>2 DEF Field
    <3>2. Field(k, B, "run") = CHOOSE x \in b.rules["run"] : TRUE
      BY <2>2, <1>11 DEF Field
    <3>3. a = b
      BY <2>2, <1>12
    <3> HIDE DEF a, b
    <3> QED
      BY <3>1, <3>2, <3>3
  <2> QED
    BY <2>1, <2>2
<1> QED
  BY <1>6, <1>13 DEF A, as, old

-----------------------------------------------------------------------------
(* What consecutive runs have to do with each other                        *)

LEMMA AfterAdoption ==
  ASSUME IInv, Adopted
  PROVE  LET new == PossibleRules(last.reports) IN
         /\ last.reports = GradedAll(fate, last.added) /\ reports = GradedAll(fate, added)
         /\ new \in Seq(AddedRule)
         /\ added = Only(last.added, Kept(last.added, new)) \o new
<1>1. last.reports = GradedAll(fate, last.added) /\ reports = GradedAll(fate, added)
  BY DEF IInv, Adopted, Rerun
<1>2. added = Adoption(last.added, last.reports)
  BY DEF IInv, Adopted, Rerun
<1>3. \A i \in DOMAIN Plan : last.reports[i].results.run \in RunMode
  BY <1>1, GradedResults DEF IInv, GradedAll
<1> QED
  BY <1>1, <1>2, <1>3, PossibleRulesType DEF Adoption

LEMMA OnlyMatchedFollows == IInv => OnlyMatchedMove
<1> SUFFICES ASSUME IInv, Adopted, NEW i \in DOMAIN Plan, AdoptedFor(Plan[i]) = {}
             PROVE  reports[i].conclusion = last.reports[i].conclusion
  BY DEF OnlyMatchedMove
<1> DEFINE new == PossibleRules(last.reports)
           turn == Turn(last.reports)
<1>1. \A n \in DOMAIN new : ~Matches(new[n].pattern, Plan[i])
  <2> SUFFICES ASSUME NEW n \in DOMAIN new, Matches(new[n].pattern, Plan[i]) PROVE FALSE
    OBVIOUS
  <2>1. n \in DOMAIN turn /\ new[n].pattern = PatternOf(Plan[turn[n]])
    BY PossibleRulesIs
  <2>2. turn[n] \in Suggested(last.reports)
    BY <2>1, PossibleRulesIs
  <2> QED
    BY <2>1, <2>2 DEF AdoptedFor
<1>2. Resolve(Plan[i], Builtin \o added) = Resolve(Plan[i], Builtin \o last.added)
  <2>1. /\ new \in Seq(AddedRule) /\ last.added \in Seq(AddedRule)
        /\ added = Only(last.added, Kept(last.added, new)) \o new
    BY AfterAdoption DEF IInv
  <2> HIDE DEF new
  <2> QED
    BY <1>1, <2>1, UnmatchedKey
<1>3. Graded(i, fate, added) = Graded(i, fate, last.added)
  BY <1>2 DEF Graded
<1> QED
  BY <1>3, AfterAdoption DEF GradedAll

LEMMA OwnPattern == \A k : Matches(PatternOf(k), k)
  BY DEF Matches, PatternOf, Parts

LEMMA SettlesFollows == IInv => LastPhaseSettles
<1> SUFFICES ASSUME IInv, Adopted, NEW i \in Suggested(last.reports),
                    last.reports[i].results.ran_to = last.reports[i].results.run,
                    AdoptedFor(Plan[i]) \subseteq {i}
             PROVE  reports[i].conclusion \in {"Passed", "Busted"}
  BY DEF LastPhaseSettles
<1> DEFINE new == PossibleRules(last.reports)
           turn == Turn(last.reports)
           k == Plan[i]
           before == Resolve(k, Builtin \o last.added)
           after == Resolve(k, Builtin \o added)
           q == RunTest(before, fate[i])
           r == RunTest(after, fate[i])
           could == CouldBe(q)
<1>1. /\ i \in DOMAIN Plan /\ last.reports[i].conclusion = "Failed"
      /\ last.reports[i] = Graded(i, fate, last.added) /\ reports[i] = Graded(i, fate, added)
      /\ fate[i] \in Fate /\ before \in TestRules /\ after \in TestRules
  <2>1. i \in DOMAIN Plan /\ last.reports[i].conclusion = "Failed"
    BY DEF Suggested, Failing
  <2> QED
    BY <2>1, AfterAdoption, FateType, GradedResults DEF IInv, GradedAll
<1>2. /\ last.reports[i].results = q /\ Conclude(q, before.check) = "Failed"
      /\ reports[i].conclusion = Conclude(r, after.check)
  BY <1>1 DEF Graded
<1>3. q.run # Skip /\ q.out[Generate] # "skipped"
  BY <1>2 DEF Conclude
<1>4. before.run # Skip /\ q.run = before.run
  <2>1. before.run = Skip => q = NewResults(before)
    BY <1>1, RunTestIs
  <2>2. before.run # Skip => q.run \in {Skip, before.run}
    BY <1>1, RunTestIs, ZenonT(30)
  <2> HIDE DEF q, before
  <2>3. NewResults(before).run = before.run
    BY DEF NewResults
  <2> QED
    BY <1>3, <2>1, <2>2, <2>3
(* The new rules for k are those for i, and there is one. *)
<1>5. \A n \in DOMAIN new : Matches(new[n].pattern, k) => new[n].rules = could
  <2> SUFFICES ASSUME NEW n \in DOMAIN new, Matches(new[n].pattern, k) PROVE new[n].rules = could
    OBVIOUS
  <2>1. /\ n \in DOMAIN turn /\ new[n].pattern = PatternOf(Plan[turn[n]])
        /\ new[n].rules = CouldBe(last.reports[turn[n]].results)
    BY PossibleRulesIs
  <2>2. turn[n] \in Suggested(last.reports)
    BY <2>1, PossibleRulesIs
  <2>3. turn[n] = i
    BY <2>1, <2>2 DEF AdoptedFor
  <2> QED
    BY <2>1, <2>3, <1>2
<1>6. \E n \in DOMAIN new : Matches(new[n].pattern, k)
  <2>1. PICK n \in DOMAIN turn : turn[n] = i
    BY PossibleRulesIs
  <2>2. n \in DOMAIN new /\ new[n].pattern = PatternOf(k)
    BY <2>1, PossibleRulesIs
  <2> QED
    BY <2>2, OwnPattern
<1>7. /\ new \in Seq(AddedRule) /\ last.added \in Seq(AddedRule)
      /\ added = Only(last.added, Kept(last.added, new)) \o new
  BY AfterAdoption DEF IInv
<1>8. /\ before.run = Field(k, Builtin \o last.added, "run")
      /\ after.run = Field(k, Builtin \o added, "run")
      /\ after.check = Field(k, Builtin \o added, "check")
  BY ResolveIs
<1> HIDE DEF new, turn, k, before, after
<1> DEFINE kind == IF TRUE \in SuccessAtStep(q, q.ran_to, TRUE) THEN "pass" ELSE "busted"
<1>9. /\ could.check = {[kind |-> kind, phase |-> q.run]}
      /\ could.run = IF q.run # Check THEN {q.run} ELSE {}
  BY DEF CouldBe
<1>10. after.check = [kind |-> kind, phase |-> q.run]
  <2>1. PICK x : x = [kind |-> kind, phase |-> q.run]
    OBVIOUS
  <2>2. \A n \in DOMAIN new : Matches(new[n].pattern, k) => new[n].rules["check"] = {x}
    BY <1>5, <1>9, <2>1
  <2> HIDE DEF q, could, kind
  <2>3. after.check = x
    <3>1. Field(k, Builtin \o (Only(last.added, Kept(last.added, new)) \o new), "check") = x
      <4>1. new \in Seq(AddedRule) /\ last.added \in Seq(AddedRule)
        BY <1>7
      <4>2. Asks(new, k, "check", x)
        BY <2>2, <1>6 DEF Asks
      <4> QED
        BY <4>1, <4>2, MatchedField
    <3>2. after.check = Field(k, Builtin \o added, "check")
      BY <1>8
    <3>3. added = Only(last.added, Kept(last.added, new)) \o new
      BY <1>7
    <3> QED
      BY <3>1, <3>2, <3>3, Zenon
  <2> QED
    BY <2>1, <2>3
<1>11. after.run = q.run
  <2> HIDE DEF q, could
  <2>1. CASE q.run # Check
    <3>1. \A n \in DOMAIN new : Matches(new[n].pattern, k) => new[n].rules["run"] = {q.run}
      BY <1>5, <1>9, <2>1
    <3> QED
      <4>1. Asks(new, k, "run", q.run)
        BY <3>1, <1>6 DEF Asks
      <4>2. Field(k, Builtin \o (Only(last.added, Kept(last.added, new)) \o new), "run") = q.run
        BY <4>1, <1>7, MatchedField
      <4> QED
        BY <4>2, <1>7, <1>8, Zenon
  <2>2. CASE q.run = Check
    <3>1. \A n \in DOMAIN new : Matches(new[n].pattern, k) => new[n].rules["run"] = {}
      BY <1>5, <1>9, <2>2
    <3> QED
      BY <3>1, <2>2, <1>4, <1>7, <1>8, StaysCheck
  <2> QED
    BY <2>1, <2>2
(* So the test goes exactly the same way again. *)
<1>12. r = q
  <2>1. after.run = before.run
    BY <1>4, <1>11
  <2> QED
    BY <2>1, <1>4 DEF RunTest
<1>13. /\ q.run \in Phase /\ q.ran_to = q.run
       /\ q.out[q.run] = fate[i][q.run] /\ q.out[q.run] # "none"
  <2>1. /\ q.ran_to \in Phase
        /\ q.out = [p \in Phase |-> IF p <= q.ran_to THEN fate[i][p] ELSE "none"]
    BY <1>1, <1>4, RunTestIs
  <2>2. q.ran_to = q.run
    BY <1>2
  <2> HIDE DEF q
  <2>3. q.ran_to <= q.ran_to
    BY <2>1 DEF Phase, Generate, Check
  <2>4. q.out[q.run] = fate[i][q.run]
    BY <2>1, <2>2, <2>3
  <2> QED
    BY <2>1, <2>2, <2>4, <1>1 DEF Fate
<1>14. after.check \in CheckMode
  BY <1>1 DEF TestRules
<1> HIDE DEF q, r
<1>15. kind = IF q.out[q.run] = "ok" THEN "pass" ELSE "busted"
  <2>1. q.run # Skip
    BY <1>13 DEF Phase, Skip, Generate, Check
  <2>2. TRUE \in SuccessAtStep(q, q.ran_to, TRUE) <=> q.out[q.run] = "ok"
    BY <2>1, <1>13 DEF SuccessAtStep
  <2> QED
    BY <2>2
<1> HIDE DEF kind
<1>16. after.check.kind = kind /\ after.check.phase = q.run
  BY <1>10
<1>17. Meets(q, after.check)
  BY <1>13, <1>14, <1>15, <1>16, MeetsIs
<1> QED
  BY <1>2, <1>3, <1>12, <1>15, <1>16, <1>17 DEF Conclude

(* What the tools do not support is skipped, never a failure, whatever     *)
(* rules were added (report_test).                                         *)
THEOREM UnsupportedNeverFailsHolds == Spec => []UnsupportedNeverFails
  BY Invariance, UnsupportedFollows, PTL

(* A test that was as expected and whose graded phase now ends in another  *)
(* way is not reported as expected again (report_test).                    *)
THEOREM ChangeIsNoticedHolds == Spec => []ChangeIsNoticed
  BY Invariance, ChangeFollows, PTL

(* Adding the suggested rules moves the verdict of no test that they do    *)
(* not match (possible_rules, get_test_rules).                             *)
THEOREM OnlyMatchedMoveHolds == Spec => []OnlyMatchedMove
  BY Invariance, OnlyMatchedFollows, PTL

(* A failure in the last phase of its rules is settled by the rule that    *)
(* was suggested for it, unless the rule of another test speaks for it     *)
(* too (could_be, get_test_rules).                                         *)
THEOREM LastPhaseSettlesHolds == Spec => []LastPhaseSettles
  BY Invariance, SettlesFollows, PTL
=============================================================================
