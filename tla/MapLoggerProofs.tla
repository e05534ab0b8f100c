-------------------------- MODULE MapLoggerProofs --------------------------
(***************************************************************************)
(* The logger, for every set of spans, ids and bounds: its lookups never   *)
(* fail, what is said in a span is kept with that span, and what is printed*)
(* of a test is what it would have logged alone, once.  Inv is inductive   *)
(* and is about the maps; Text adds to it what the entries of the maps say,*)
(* and Output what print_span_if_test makes of them and sends to stderr.   *)
(***************************************************************************)
EXTENDS MapLogger, DataLemmas, FiniteSetTheorems, TLAPS

Begun == {s \in Spans : phase[s] # "new"}

(* The entries fill the ids below next_span_id, one for each span begun.   *)
Listed ==
  /\ next_span_id = Cardinality(Begun)
  /\ \A k \in SpanIds : k >= next_span_id => sub_spans[k].name = None
  /\ \A k \in SpanIds : k < next_span_id => sub_spans[k].name \in Begun
  /\ \A k, l \in SpanIds : sub_spans[k].name = sub_spans[l].name /\ k < next_span_id => k = l
  /\ \A s \in Spans \ Begun : said[s] = <<>>

Inv == TypeOK /\ LookupsSucceed /\ Listed /\ EntriesFaithful

USE SpansAssumption, ParentAssumption, NamesAssumption, IdsAssumption, EventsAssumption

-----------------------------------------------------------------------------
(* Facts used by several actions *)

(* As long as a span is yet to begin, the next id is one of SpanIds.       *)
LEMMA FreshId ==
  ASSUME Inv, NEW s \in Spans, phase[s] = "new"
  PROVE  /\ next_span_id \in SpanIds
         /\ Cardinality(Begun \cup {s}) = next_span_id + 1
<1>1. IsFiniteSet(Begun) /\ s \notin Begun /\ Begun \cup {s} \subseteq Spans
  BY FS_Subset DEF Begun
<1>2. Cardinality(Begun \cup {s}) = Cardinality(Begun) + 1
  BY <1>1, FS_AddElement
<1>3. Cardinality(Begun \cup {s}) <= Cardinality(Spans)
  BY <1>1, FS_Subset
<1>4. Cardinality(Spans) \in Nat
  BY FS_CardinalityType
<1> QED
  BY <1>2, <1>3, <1>4 DEF Inv, TypeOK, Listed, SpanIds

(* The id of an open span leads to its entry, which is listed.             *)
LEMMA OpenEntry ==
  ASSUME Inv, NEW s \in Spans, phase[s] \in Open
  PROVE  /\ id[s] \in Ids
         /\ live_spans[id[s]] \in SpanIds
         /\ live_spans[id[s]] < next_span_id
         /\ sub_spans[live_spans[id[s]]].name = s
<1>1. id[s] \in Ids /\ live_spans[id[s]] \in SpanIds
  BY DEF Inv, TypeOK, LookupsSucceed
<1>2. sub_spans[live_spans[id[s]]].name = s /\ s # None
  BY DEF Inv, LookupsSucceed
<1>3. ~(live_spans[id[s]] >= next_span_id)
  BY <1>1, <1>2 DEF Inv, Listed
<1> QED
  BY <1>1, <1>2, <1>3 DEF Inv, TypeOK, SpanIds

(* Appending an item to the events of one entry.                           *)
LEMMA AppendItem ==
  ASSUME TypeOK, NEW k \in SpanIds, NEW x \in Items,
         sub_spans' = [sub_spans EXCEPT ![k].events = Append(@, x)]
  PROVE  /\ sub_spans' \in [SpanIds -> Entries]
         /\ \A l \in SpanIds : /\ sub_spans'[l].name = sub_spans[l].name
                                /\ sub_spans'[l].fields = sub_spans[l].fields
         /\ sub_spans'[k].events = Append(sub_spans[k].events, x)
         /\ \A l \in SpanIds \ {k} : sub_spans'[l].events = sub_spans[l].events
<1> DEFINE e == sub_spans[k]
           e2 == [e EXCEPT !.events = Append(@, x)]
<1>1. sub_spans \in [SpanIds -> Entries] /\ e \in Entries
  BY DEF TypeOK
<1>2. /\ e2 \in Entries /\ e2.name = e.name /\ e2.fields = e.fields
      /\ e2.events = Append(e.events, x)
  <2> HIDE DEF e
  <2>1. e.events \in Seq(Items)
    BY <1>1 DEF Entries
  <2>2. Append(e.events, x) \in Seq(Items)
    BY <2>1
  <2> HIDE DEF Items
  <2> QED
    BY <1>1, <2>2 DEF Entries
<1>3. sub_spans' = [sub_spans EXCEPT ![k] = e2]
  OBVIOUS
<1> HIDE DEF e, e2
<1>4. /\ sub_spans' \in [SpanIds -> Entries]
      /\ sub_spans'[k] = e2
      /\ \A l \in SpanIds \ {k} : sub_spans'[l] = sub_spans[l]
  <2>1. PICK v \in Entries : v = e2
    BY <1>2
  <2>2. PICK E : E = Entries
    OBVIOUS
  <2>3. sub_spans \in [SpanIds -> E] /\ v \in E
    BY <1>1, <2>1, <2>2
  <2>4. sub_spans' = [sub_spans EXCEPT ![k] = v]
    BY <1>3, <2>1
  <2>5. /\ sub_spans' \in [SpanIds -> E]
        /\ sub_spans'[k] = v
        /\ \A l \in SpanIds \ {k} : sub_spans'[l] = sub_spans[l]
    BY <2>3, <2>4
  <2> QED
    BY <2>1, <2>2, <2>5
<1> QED
  BY <1>2, <1>4 DEF e

-----------------------------------------------------------------------------
LEMMA InitInv == Init => Inv
<1> SUFFICES ASSUME Init PROVE Inv
  OBVIOUS
<1>1. TypeOK
  BY DEF Init, TypeOK, Open, Closed, Entries, NoEntry, SpanIds, Origins
<1>2. LookupsSucceed
  BY DEF Init, LookupsSucceed, Open
<1>3. Begun = {}
  BY DEF Init, Begun
<1>4. Listed
  BY <1>3, FS_EmptySet DEF Init, Listed, NoEntry, SpanIds, Origins
<1>5. EntriesFaithful
  BY DEF Init, EntriesFaithful, SpanIds
<1> QED
  BY <1>1, <1>2, <1>4, <1>5 DEF Inv

-----------------------------------------------------------------------------
(* Named entries keep their name, so what matched still does.              *)
LEMMA MatchesKept ==
  ASSUME NEW e \in Items, NEW h \in Said, Matches(e, h),
         \A k \in SpanIds : sub_spans[k].name # None
                             => sub_spans'[k].name = sub_spans[k].name
  PROVE  Matches(e, h)'
<1>1. CASE e.kind = "message"
  BY <1>1 DEF Matches
<1>2. CASE e.kind = "span"
  <2>1. e.id \in SpanIds
    BY <1>2 DEF Items
  <2>2. h.kind = "span" /\ sub_spans[e.id].name = h.span
    BY <1>2 DEF Matches
  <2>3. h.span \in Spans
    BY <2>2 DEF Said
  <2> QED
    BY <1>2, <2>1, <2>2, <2>3 DEF Matches
<1> QED
  BY <1>1, <1>2 DEF Items

(* An entry and a history that both stay.                                  *)
LEMMA EntryKept ==
  ASSUME Inv, NEW k \in SpanIds, k < next_span_id,
         sub_spans'[k].name = sub_spans[k].name,
         sub_spans'[k].events = sub_spans[k].events,
         said'[sub_spans[k].name] = said[sub_spans[k].name],
         \A l \in SpanIds : sub_spans[l].name # None
                             => sub_spans'[l].name = sub_spans[l].name
  PROVE  Faithful(sub_spans[k].events, said[sub_spans[k].name])'
<1> DEFINE e == sub_spans[k].events
           h == said[sub_spans[k].name]
<1>1. sub_spans[k] \in Entries /\ sub_spans[k].name \in Origins
  BY DEF Inv, TypeOK, Listed, Begun, Origins
<1>2. e \in Seq(Items) /\ h \in Seq(Said)
  BY <1>1 DEF Inv, TypeOK, Entries
<1>3. Len(e) = Len(h) /\ \A i \in DOMAIN e : Matches(e[i], h[i])
  BY DEF Inv, EntriesFaithful, Faithful
<1>4. e' = e /\ h' = h
  OBVIOUS
<1>5. ASSUME NEW i \in DOMAIN e PROVE Matches(e[i], h[i])'
  <2>1. e[i] \in Items /\ h[i] \in Said
    BY <1>2, <1>3
  <2>2. Matches(e[i], h[i])
    BY <1>3
  <2>3. Matches(e[i], h[i])'
    BY <1>4, <2>1, <2>2, MatchesKept DEF Matches
  <2> QED
    BY <2>3
<1> HIDE DEF e, h
<1>6. (Len(e) = Len(h))' /\ (\A i \in DOMAIN e : Matches(e[i], h[i]))'
  BY <1>3, <1>4, <1>5
<1> QED
  BY <1>6 DEF Faithful, e, h

-----------------------------------------------------------------------------
(* Steps that touch neither names, events nor live_spans.                  *)
LEMMA Undisturbed ==
  ASSUME Inv, TypeOK', UNCHANGED <<id, live_spans, next_span_id>>,
         \A k \in SpanIds : /\ sub_spans'[k].name = sub_spans[k].name
                            /\ sub_spans'[k].events = sub_spans[k].events,
         \A s \in Spans : /\ said'[s] = said[s]
                          /\ phase'[s] \in Open <=> phase[s] \in Open
                          /\ phase'[s] = "new" <=> phase[s] = "new"
  PROVE  Inv'
<1>1. LookupsSucceed'
  <2>1. ASSUME NEW s \in Spans, phase'[s] \in Open
        PROVE  live_spans'[id'[s]] # None /\ sub_spans'[live_spans'[id'[s]]].name = s
    BY <2>1, OpenEntry, IdsAssumption
  <2>2. ASSUME NEW i \in Ids, live_spans'[i] # None
        PROVE  \E s \in Spans : phase'[s] \in Open /\ id'[s] = i
    BY <2>2 DEF Inv, LookupsSucceed
  <2> QED
    BY <2>1, <2>2 DEF LookupsSucceed
<1>2. Listed'
  <2>1. Begun' = Begun
    BY DEF Begun
  <2> QED
    BY <2>1 DEF Inv, Listed
<1>3. EntriesFaithful'
  <2>1. ASSUME NEW k \in SpanIds, k < next_span_id
        PROVE  Faithful(sub_spans[k].events, said[sub_spans[k].name])'
    <3>1. sub_spans[k].name \in Spans
      BY <2>1 DEF Inv, Listed, Begun
    <3> QED
      BY <2>1, <3>1, EntryKept
  <2> QED
    BY <2>1 DEF EntriesFaithful
<1> QED
  BY <1>1, <1>2, <1>3 DEF Inv

LEMMA RootEventInv == Inv /\ OnRootEvent => Inv'
<1> SUFFICES ASSUME Inv, OnRootEvent PROVE Inv'
  OBVIOUS
<1>1. Message(Root, Count(Root) + 1) \in Items \cap Said
  <2>1. IsFiniteSet({i \in DOMAIN said[Root] : said[Root][i].kind = "message"})
    <3>1. said[Root] \in Seq(Said)
      BY DEF Inv, TypeOK, Origins
    <3>2. IsFiniteSet(1 .. Len(said[Root]))
      BY <3>1, FS_Interval
    <3> QED
      BY <3>1, <3>2, FS_Subset
  <2>2. Count(Root) \in Nat
    BY <2>1, FS_CardinalityType DEF Count
  <2> QED
    BY <2>2 DEF Message, Items, Said, Origins
<1>2. TypeOK'
  BY <1>1 DEF Inv, OnRootEvent, TypeOK, maps, closing, Origins
<1>3. \A s \in Spans : said'[s] = said[s]
  BY DEF Inv, OnRootEvent, TypeOK, Origins
<1> QED
  BY <1>2, <1>3, Undisturbed DEF OnRootEvent, maps

LEMMA RecordInv == \A s \in Spans : Inv /\ OnRecord(s) => Inv'
<1> SUFFICES ASSUME NEW s \in Spans, Inv, OnRecord(s) PROVE Inv'
  OBVIOUS
<1> DEFINE k == live_spans[id[s]]
           e2 == [sub_spans[k] EXCEPT !.fields = @ \cup {"recorded"}]
<1>1. k \in SpanIds /\ sub_spans \in [SpanIds -> Entries] /\ sub_spans[k] \in Entries
  BY OpenEntry DEF OnRecord, Open, Inv, TypeOK
<1>2. /\ e2 \in Entries
      /\ e2.name = sub_spans[k].name /\ e2.events = sub_spans[k].events
  BY <1>1 DEF Entries
<1>3. sub_spans' = [sub_spans EXCEPT ![k] = e2]
  BY DEF OnRecord
<1> HIDE DEF e2, k
<1>4. /\ sub_spans' \in [SpanIds -> Entries]
      /\ \A l \in SpanIds : /\ sub_spans'[l].name = sub_spans[l].name
                             /\ sub_spans'[l].events = sub_spans[l].events
  BY <1>1, <1>2, <1>3
<1>5. TypeOK'
  BY <1>4 DEF OnRecord, Inv, TypeOK, cache, closing
<1> QED
  BY <1>4, <1>5, Undisturbed DEF OnRecord

LEMMA PrintInv ==
  \A s \in Spans : Inv /\ (PrintSpanIfTest(s) \/ StringQuery(s) \/ Eprintln(s)) => Inv'
<1> SUFFICES ASSUME NEW s \in Spans, Inv,
                    PrintSpanIfTest(s) \/ StringQuery(s) \/ Eprintln(s)
             PROVE  Inv'
  OBVIOUS
<1>1. /\ UNCHANGED <<id, maps, said>>
      /\ phase[s] \in Open
      /\ \E p \in Open : phase' = [phase EXCEPT ![s] = p]
  BY DEF PrintSpanIfTest, CanClose, StringQuery, Eprintln, Open, history
<1>2. TypeOK'
  <2>1. CASE PrintSpanIfTest(s)
    BY <1>1, <2>1, OpenEntry DEF PrintSpanIfTest, maps, cache, history, Inv, TypeOK
  <2>2. CASE StringQuery(s)
    BY <1>1, <2>2 DEF StringQuery, maps, history, Inv, TypeOK
  <2>3. CASE Eprintln(s)
    BY <1>1, <2>3 DEF Eprintln, maps, cache, closing, history, Inv, TypeOK
  <2> QED
    BY <2>1, <2>2, <2>3
<1>3. \A u \in Spans : /\ phase'[u] \in Open <=> phase[u] \in Open
                       /\ phase'[u] = "new" <=> phase[u] = "new"
  BY <1>1 DEF Inv, TypeOK, Open
<1> QED
  BY <1>1, <1>2, <1>3, Undisturbed DEF maps

-----------------------------------------------------------------------------
(* Saying something in an open span appends to its entry and its history   *)
(* what matches.                                                           *)
LEMMA SaidInSpan ==
  ASSUME Inv, NEW k \in SpanIds, k < next_span_id, NEW s \in Spans, sub_spans[k].name = s,
         NEW x \in Items, NEW h \in Said, Matches(x, h)',
         sub_spans'[k].events = Append(sub_spans[k].events, x),
         said'[s] = Append(said[s], h),
         \A l \in SpanIds : sub_spans[l].name # None
                             => sub_spans'[l].name = sub_spans[l].name
  PROVE  Faithful(sub_spans[k].events, said[s])'
<1> DEFINE e == sub_spans[k].events
           g == said[s]
<1>1. e \in Seq(Items) /\ g \in Seq(Said)
  BY DEF Inv, TypeOK, Entries, Origins
<1>2. Len(e) = Len(g) /\ \A i \in DOMAIN e : Matches(e[i], g[i])
  BY DEF Inv, EntriesFaithful, Faithful
<1>3. e' = Append(e, x) /\ g' = Append(g, h)
  OBVIOUS
<1> HIDE DEF e, g
<1>4. /\ Len(e') = Len(g') /\ DOMAIN e' = 1 .. Len(e) + 1
      /\ \A i \in 1 .. Len(e) : e'[i] = e[i] /\ g'[i] = g[i]
      /\ e'[Len(e) + 1] = x /\ g'[Len(e) + 1] = h
  BY <1>1, <1>2, <1>3
<1>5. ASSUME NEW i \in 1 .. Len(e) PROVE Matches(e[i], g[i])'
  <2>1. e[i] \in Items /\ g[i] \in Said /\ Matches(e[i], g[i])
    BY <1>1, <1>2
  <2>2. e'[i] = e[i] /\ g'[i] = g[i]
    BY <1>4
  <2> QED
    BY <2>1, <2>2, MatchesKept DEF Matches
<1>6. \A i \in DOMAIN e' : i \in 1 .. Len(e) \/ i = Len(e) + 1
  BY <1>1, <1>4
<1>7. (\A i \in DOMAIN e : Matches(e[i], g[i]))'
  BY <1>4, <1>5, <1>6 DEF Matches
<1> QED
  BY <1>4, <1>7 DEF Faithful, e, g

LEMMA EventInv == \A s \in Spans : Inv /\ OnEvent(s) => Inv'
<1> SUFFICES ASSUME NEW s \in Spans, Inv, OnEvent(s) PROVE Inv'
  OBVIOUS
<1> DEFINE k == live_spans[id[s]]
           m == Message(s, Count(s) + 1)
<1>1. k \in SpanIds /\ k < next_span_id /\ sub_spans[k].name = s
  BY OpenEntry DEF OnEvent, Open
<1>2. m \in Items /\ m \in Said /\ m.kind = "message"
  <2>1. IsFiniteSet({i \in DOMAIN said[s] : said[s][i].kind = "message"})
    <3>1. said[s] \in Seq(Said)
      BY DEF Inv, TypeOK, Origins
    <3>2. IsFiniteSet(1 .. Len(said[s]))
      BY <3>1, FS_Interval
    <3> QED
      BY <3>1, <3>2, FS_Subset
  <2>2. Count(s) \in Nat
    BY <2>1, FS_CardinalityType DEF Count
  <2> QED
    BY <2>2 DEF Message, Items, Said, Origins
<1>3. /\ sub_spans' = [sub_spans EXCEPT ![k].events = Append(@, m)]
      /\ said' = [said EXCEPT ![s] = Append(@, m)]
  BY DEF OnEvent, EventSpan
<1> HIDE DEF k, m
<1>4. /\ sub_spans' \in [SpanIds -> Entries]
      /\ \A l \in SpanIds : sub_spans'[l].name = sub_spans[l].name
      /\ sub_spans'[k].events = Append(sub_spans[k].events, m)
      /\ \A l \in SpanIds \ {k} : sub_spans'[l].events = sub_spans[l].events
  BY <1>1, <1>2, <1>3, AppendItem DEF Inv
<1>5. /\ said'[s] = Append(said[s], m)
      /\ \A u \in Spans \ {s} : said'[u] = said[u]
  BY <1>3 DEF Inv, TypeOK, Origins
<1>6. TypeOK'
  <2>1. said' \in [Origins -> Seq(Said)]
    BY <1>2, <1>3 DEF Inv, TypeOK, Origins
  <2> QED
    BY <1>4, <2>1 DEF OnEvent, Inv, TypeOK, closing
<1>7. LookupsSucceed'
  <2>1. \A u \in Spans : phase[u] \in Open => live_spans[id[u]] \in SpanIds
    BY OpenEntry
  <2> QED
    BY <1>4, <2>1 DEF OnEvent, Inv, LookupsSucceed
<1>8. Listed'
  <2>1. Begun' = Begun
    BY DEF OnEvent, Begun
  <2>2. s \in Begun
    BY DEF OnEvent, Begun
  <2> QED
    BY <1>4, <1>5, <2>1, <2>2 DEF OnEvent, Inv, Listed
<1>9. EntriesFaithful'
  <2>1. ASSUME NEW l \in SpanIds, l < next_span_id, l # k
        PROVE  Faithful(sub_spans[l].events, said[sub_spans[l].name])'
    <3>1. sub_spans[l].name \in Spans \ {s}
      BY <1>1, <2>1 DEF Inv, Listed, Begun
    <3> QED
      BY <1>4, <1>5, <2>1, <3>1, EntryKept
  <2>2. Faithful(sub_spans[k].events, said[sub_spans[k].name])'
    <3>1. PICK x \in Items : x = m
      BY <1>2
    <3>2. PICK n \in SpanIds : n = k
      BY <1>1
    <3>3. Matches(x, x)' /\ x \in Said
      BY <1>2, <3>1 DEF Matches
    <3>4. Faithful(sub_spans[n].events, said[s])'
      BY <1>1, <1>4, <1>5, <3>1, <3>2, <3>3, SaidInSpan
    <3>5. UNCHANGED k
      BY DEF OnEvent, k
    <3> QED
      BY <1>1, <1>4, <3>2, <3>4, <3>5
  <2>3. UNCHANGED <<next_span_id, k>>
    BY DEF OnEvent, k
  <2> QED
    BY <2>1, <2>2, <2>3 DEF EntriesFaithful
<1> QED
  BY <1>6, <1>7, <1>8, <1>9 DEF Inv

LEMMA CloseInv == \A s \in Spans : Inv /\ OnClose(s) => Inv'
<1> SUFFICES ASSUME NEW s \in Spans, Inv, OnClose(s) PROVE Inv'
  OBVIOUS
<1> DEFINE k == live_spans[id[s]]
           e2 == [sub_spans[k] EXCEPT !.destroyed = TRUE]
<1>1. /\ phase[s] \in Open /\ id[s] \in Ids
      /\ k \in SpanIds /\ k # None /\ sub_spans[k].name = s
  BY OpenEntry DEF OnClose, Open
<1>2. sub_spans \in [SpanIds -> Entries] /\ sub_spans[k] \in Entries
  BY <1>1 DEF Inv, TypeOK
<1>3. /\ e2 \in Entries
      /\ e2.name = sub_spans[k].name /\ e2.events = sub_spans[k].events
  BY <1>2 DEF Entries
<1>4. /\ sub_spans' = [sub_spans EXCEPT ![k] = e2]
      /\ live_spans' = [live_spans EXCEPT ![id[s]] = None]
      /\ id' = [id EXCEPT ![s] = None]
      /\ phase' = [phase EXCEPT ![s] = "closed"]
      /\ UNCHANGED <<root_span, test_spans, next_span_id, cache, closing, stderr, history>>
  BY <1>1 DEF OnClose
<1> HIDE DEF k, e2
<1>5. /\ sub_spans' \in [SpanIds -> Entries]
      /\ \A l \in SpanIds : /\ sub_spans'[l].name = sub_spans[l].name
                             /\ sub_spans'[l].events = sub_spans[l].events
  BY <1>1, <1>2, <1>3, <1>4
<1>6. TypeOK'
  BY <1>4, <1>5 DEF Inv, TypeOK, cache, closing, history, Open, Closed
<1>7. LookupsSucceed'
  <2>1. ASSUME NEW u \in Spans, phase'[u] \in Open
        PROVE  live_spans'[id'[u]] # None /\ sub_spans'[live_spans'[id'[u]]].name = u
    <3>1. u # s /\ phase[u] \in Open
      BY <1>4, <2>1 DEF Inv, TypeOK, Open
    <3>2. /\ id[u] \in Ids /\ live_spans[id[u]] \in SpanIds
          /\ sub_spans[live_spans[id[u]]].name = u
      BY <3>1, OpenEntry
    <3>3. id[u] # id[s]
      BY <1>1, <3>1, <3>2 DEF k
    <3>4. id'[u] = id[u] /\ live_spans'[id[u]] = live_spans[id[u]]
      BY <1>4, <3>1, <3>2, <3>3 DEF Inv, TypeOK
    <3> QED
      BY <1>5, <3>2, <3>4, IdsAssumption
  <2>2. ASSUME NEW i \in Ids, live_spans'[i] # None
        PROVE  \E u \in Spans : phase'[u] \in Open /\ id'[u] = i
    <3>1. i # id[s] /\ live_spans[i] # None
      BY <1>1, <1>4, <2>2 DEF Inv, TypeOK
    <3>2. PICK u \in Spans : phase[u] \in Open /\ id[u] = i
      BY <3>1 DEF Inv, LookupsSucceed
    <3> QED
      BY <1>4, <3>1, <3>2 DEF Inv, TypeOK
  <2> QED
    BY <2>1, <2>2 DEF LookupsSucceed
<1>8. Listed'
  <2>1. Begun' = Begun
    BY <1>1, <1>4 DEF Begun, Inv, TypeOK, Open
  <2> QED
    BY <1>4, <1>5, <2>1 DEF Inv, Listed, history
<1>9. EntriesFaithful'
  <2>1. ASSUME NEW l \in SpanIds, l < next_span_id
        PROVE  Faithful(sub_spans[l].events, said[sub_spans[l].name])'
    BY <1>4, <1>5, <2>1, EntryKept DEF history
  <2> QED
    BY <1>4, <2>1 DEF EntriesFaithful
<1> QED
  BY <1>6, <1>7, <1>8, <1>9 DEF Inv

-----------------------------------------------------------------------------
(* What on_new_span does: k is the entry of s, q the one of its parent p.  *)
Grown(s, i, k, p, q) ==
  /\ k \in SpanIds /\ k \in Nat /\ phase[s] = "new" /\ Cardinality(Begun \cup {s}) = k + 1
  /\ phase' = [phase EXCEPT ![s] = "open"]
  /\ id' = [id EXCEPT ![s] = i]
  /\ next_span_id' = k + 1
  /\ live_spans' = [live_spans EXCEPT ![i] = k]
  /\ i \in FreeIds
  /\ test_spans' = IF s \in TestNamed THEN test_spans \cup {k} ELSE test_spans
  /\ UNCHANGED <<cache, closing, stderr, noted>>
  /\ SubSpan(k) \in Items /\ Opened(s) \in Said
  /\ NewEntry(s) \in Entries /\ NewEntry(s).name = s /\ NewEntry(s).events = <<>>
  /\ sub_spans[k].name = None /\ s # None /\ s \notin Begun
  /\ p # None => /\ p \in Spans /\ phase[p] = "open" /\ p \in Begun
                 /\ q \in SpanIds /\ q < k /\ sub_spans[q].name = p
  /\ sub_spans' \in [SpanIds -> Entries]
  /\ sub_spans'[k] = NewEntry(s)
  /\ \A l \in SpanIds \ {k} :
       /\ sub_spans'[l].name = sub_spans[l].name
       /\ sub_spans'[l].fields = sub_spans[l].fields
       /\ p = None \/ l # q => sub_spans'[l].events = sub_spans[l].events
  /\ p # None => sub_spans'[q].events = Append(sub_spans[q].events, SubSpan(k))
  /\ said' \in [Origins -> Seq(Said)]
  /\ said' = [said EXCEPT ![IF p = None THEN Root ELSE p] = Append(@, Opened(s))]
  /\ \A u \in Spans : p = None \/ u # p => said'[u] = said[u]
  /\ p # None => said'[p] = Append(said[p], Opened(s))
  /\ root_span' \in Seq(Items)

LEMMA NewSpanEffect ==
  ASSUME Inv, NEW s \in Spans, NEW i \in Ids, OnNewSpan(s, i)
  PROVE  Grown(s, i, next_span_id, ParentOf[s], live_spans[id[ParentOf[s]]])
<1> DEFINE k == next_span_id
           p == ParentOf[s]
           q == live_spans[id[p]]
<1>1. /\ k \in SpanIds /\ phase[s] = "new"
      /\ Cardinality(Begun \cup {s}) = k + 1
  BY FreshId DEF OnNewSpan
<1>2. /\ phase' = [phase EXCEPT ![s] = "open"]
      /\ id' = [id EXCEPT ![s] = i]
      /\ next_span_id' = k + 1
      /\ live_spans' = [live_spans EXCEPT ![i] = k]
      /\ i \in FreeIds
      /\ test_spans' = IF s \in TestNamed THEN test_spans \cup {k} ELSE test_spans
      /\ UNCHANGED <<cache, closing, stderr, noted>>
  BY DEF OnNewSpan, FreshSpanId
<1>3. /\ SubSpan(k) \in Items /\ Opened(s) \in Said
      /\ NewEntry(s) \in Entries /\ NewEntry(s).name = s /\ NewEntry(s).events = <<>>
  BY <1>1 DEF SubSpan, Opened, NewEntry, Items, Said, Entries
<1>4. k \in Nat /\ sub_spans[k].name = None /\ s # None /\ s \notin Begun
  BY <1>1 DEF Inv, TypeOK, Listed, Begun
(* What happens to the entries and to the histories.                       *)
<1>5. ASSUME p # None
      PROVE  /\ p \in Spans /\ phase[p] = "open" /\ p \in Begun
             /\ q \in SpanIds /\ q < k /\ sub_spans[q].name = p
  BY <1>5, OpenEntry DEF OnNewSpan, Open, Begun
<1>6. /\ sub_spans' \in [SpanIds -> Entries]
      /\ sub_spans'[k] = NewEntry(s)
      /\ \A l \in SpanIds \ {k} :
           /\ sub_spans'[l].name = sub_spans[l].name
           /\ sub_spans'[l].fields = sub_spans[l].fields
           /\ p = None \/ l # q => sub_spans'[l].events = sub_spans[l].events
      /\ p # None => sub_spans'[q].events = Append(sub_spans[q].events, SubSpan(k))
  <2>1. CASE p = None
    <3>1. sub_spans' = [sub_spans EXCEPT ![k] = NewEntry(s)]
      BY <2>1 DEF OnNewSpan, FreshSpanId
    <3> QED
      BY <1>1, <1>3, <2>1, <3>1 DEF Inv, TypeOK
  <2>2. CASE p # None
    <3> DEFINE e2 == [sub_spans[q] EXCEPT !.events = Append(@, SubSpan(k))]
    <3>1. q \in SpanIds /\ q # k
      BY <1>1, <1>4, <1>5, <2>2 DEF SpanIds
    <3>2. sub_spans' = [sub_spans EXCEPT ![q].events = Append(@, SubSpan(k)), ![k] = NewEntry(s)]
      BY <2>2 DEF OnNewSpan, FreshSpanId
    <3>3. sub_spans \in [SpanIds -> Entries] /\ sub_spans[q] \in Entries
      BY <3>1 DEF Inv, TypeOK
    <3>4. /\ e2.name = sub_spans[q].name /\ e2.fields = sub_spans[q].fields
          /\ e2.events = Append(sub_spans[q].events, SubSpan(k))
      BY <3>3 DEF Entries
    <3>5. e2 \in Entries
      <4>1. sub_spans[q].events \in Seq(Items)
        BY <3>3 DEF Entries
      <4>2. Append(sub_spans[q].events, SubSpan(k)) \in Seq(Items)
        BY <1>3, <4>1
      <4> HIDE DEF k, p, q
      <4> QED
        BY <3>3, <4>2 DEF Entries
    <3>6. sub_spans' = [[sub_spans EXCEPT ![q] = e2] EXCEPT ![k] = NewEntry(s)]
      BY <3>2
    <3> HIDE DEF e2, q, k, p
    <3> QED
      BY <1>1, <1>3, <2>2, <3>1, <3>3, <3>4, <3>5, <3>6
  <2> QED
    BY <2>1, <2>2
<1>7. /\ said' \in [Origins -> Seq(Said)]
      /\ said' = [said EXCEPT ![IF p = None THEN Root ELSE p] = Append(@, Opened(s))]
      /\ \A u \in Spans : p = None \/ u # p => said'[u] = said[u]
      /\ p # None => said'[p] = Append(said[p], Opened(s))
      /\ root_span' \in Seq(Items)
  <2> DEFINE o == IF p = None THEN Root ELSE p
  <2>1. /\ said' = [said EXCEPT ![o] = Append(@, Opened(s))]
        /\ root_span' = root_span \/ root_span' = Append(root_span, SubSpan(k))
    BY DEF OnNewSpan, FreshSpanId
  <2>2. o \in Origins /\ (o \in Spans => o = p /\ p # None)
    BY <1>5 DEF Origins
  <2>3. said \in [Origins -> Seq(Said)] /\ root_span \in Seq(Items)
    BY DEF Inv, TypeOK
  <2>4. Append(said[o], Opened(s)) \in Seq(Said) /\ Append(root_span, SubSpan(k)) \in Seq(Items)
    <3> HIDE DEF o, k
    <3> QED
      BY <1>3, <2>2, <2>3
  <2>5. p # None => o = p
    OBVIOUS
  <2> HIDE DEF o, k, p
  <2> QED
    BY <2>1, <2>2, <2>3, <2>4, <2>5 DEF Origins
<1>8. UNCHANGED <<cache, closing, stderr, noted>>
  BY DEF OnNewSpan
<1> HIDE DEF k, p, q
<1>9. Grown(s, i, k, p, q)
  BY <1>1, <1>2, <1>3, <1>4, <1>5, <1>6, <1>7, <1>8 DEF Grown
<1> QED
  BY <1>9 DEF k, p, q

LEMMA NewSpanInv == \A s \in Spans, i \in Ids : Inv /\ OnNewSpan(s, i) => Inv'
<1> SUFFICES ASSUME NEW s \in Spans, NEW i \in Ids, Inv, OnNewSpan(s, i) PROVE Inv'
  OBVIOUS
<1> DEFINE k == next_span_id
           p == ParentOf[s]
           q == live_spans[id[p]]
<1>0. Grown(s, i, k, p, q)
  BY NewSpanEffect
<1>1. /\ k \in SpanIds /\ phase[s] = "new"
      /\ Cardinality(Begun \cup {s}) = k + 1
  BY <1>0 DEF Grown
<1>2. /\ phase' = [phase EXCEPT ![s] = "open"]
      /\ id' = [id EXCEPT ![s] = i]
      /\ next_span_id' = k + 1
      /\ live_spans' = [live_spans EXCEPT ![i] = k]
      /\ i \in FreeIds
      /\ test_spans' \subseteq test_spans \cup {k}
      /\ UNCHANGED <<cache, closing, stderr, noted>>
  BY <1>0 DEF Grown
<1>3. /\ SubSpan(k) \in Items /\ Opened(s) \in Said
      /\ NewEntry(s) \in Entries /\ NewEntry(s).name = s /\ NewEntry(s).events = <<>>
  BY <1>0 DEF Grown
<1>4. k \in Nat /\ sub_spans[k].name = None /\ s # None /\ s \notin Begun
  BY <1>0 DEF Grown
<1>5. ASSUME p # None
      PROVE  /\ p \in Spans /\ phase[p] \in Open /\ p \in Begun
             /\ q \in SpanIds /\ q < k /\ sub_spans[q].name = p
  BY <1>0, <1>5 DEF Grown, Open
<1>6. /\ sub_spans' \in [SpanIds -> Entries]
      /\ sub_spans'[k] = NewEntry(s)
      /\ \A l \in SpanIds \ {k} :
           /\ sub_spans'[l].name = sub_spans[l].name
           /\ p = None \/ l # q => sub_spans'[l].events = sub_spans[l].events
      /\ p # None => sub_spans'[q].events = Append(sub_spans[q].events, SubSpan(k))
  BY <1>0 DEF Grown
<1>7. /\ said' \in [Origins -> Seq(Said)]
      /\ \A u \in Spans : p = None \/ u # p => said'[u] = said[u]
      /\ p # None => said'[p] = Append(said[p], Opened(s))
      /\ root_span' \in Seq(Items)
  BY <1>0 DEF Grown
<1> HIDE DEF k, p, q
<1>8. TypeOK'
  BY <1>1, <1>2, <1>4, <1>6, <1>7 DEF Inv, TypeOK, cache, closing, Open
<1>9. LookupsSucceed'
  <2>1. live_spans'[id'[s]] = k /\ sub_spans'[k].name = s
    BY <1>2, <1>3, <1>6 DEF Inv, TypeOK
  <2>2. ASSUME NEW u \in Spans, u # s, phase'[u] \in Open
        PROVE  live_spans'[id'[u]] # None /\ sub_spans'[live_spans'[id'[u]]].name = u
    <3>1. phase[u] \in Open /\ id'[u] = id[u]
      BY <1>2, <2>2 DEF Inv, TypeOK
    <3>2. /\ id[u] \in Ids /\ live_spans[id[u]] \in SpanIds
          /\ sub_spans[live_spans[id[u]]].name = u
      BY <3>1, OpenEntry
    <3>3. id[u] # i
      BY <1>2 DEF FreeIds
    <3>4. live_spans[id[u]] # k
      BY <1>4, <3>2
    <3> QED
      BY <1>2, <1>6, <3>1, <3>2, <3>3, <3>4, IdsAssumption DEF Inv, TypeOK
  <2>3. ASSUME NEW j \in Ids, live_spans'[j] # None
        PROVE  \E u \in Spans : phase'[u] \in Open /\ id'[u] = j
    <3>1. CASE j = i
      BY <1>2, <3>1 DEF Inv, TypeOK, Open
    <3>2. CASE j # i
      <4>1. PICK u \in Spans : phase[u] \in Open /\ id[u] = j
        BY <1>2, <2>3, <3>2 DEF Inv, TypeOK, LookupsSucceed
      <4>2. u # s
        BY <1>1, <4>1 DEF Open
      <4> QED
        BY <1>2, <4>1, <4>2 DEF Inv, TypeOK
    <3> QED
      BY <3>1, <3>2
  <2> QED
    BY <1>1, <2>1, <2>2, <2>3, IdsAssumption DEF LookupsSucceed
<1>10. Listed'
  <2>1. Begun' = Begun \cup {s}
    BY <1>2 DEF Begun, Inv, TypeOK
  <2>2. next_span_id' = Cardinality(Begun')
    BY <1>1, <1>2, <2>1
  <2>3. \A l \in SpanIds : l >= k + 1 => sub_spans'[l].name = None
    BY <1>4, <1>6 DEF Inv, Listed, SpanIds, k
  <2>4. \A l \in SpanIds : l < k + 1 => sub_spans'[l].name \in Begun'
    BY <1>3, <1>4, <1>6, <2>1 DEF Inv, Listed, SpanIds, k
  <2>5. \A l, n \in SpanIds : sub_spans'[l].name = sub_spans'[n].name /\ l < k + 1 => l = n
    BY <1>3, <1>4, <1>6 DEF Inv, Listed, SpanIds, k
  <2>6. \A u \in Spans \ Begun' : said'[u] = <<>>
    BY <1>5, <1>7, <2>1 DEF Inv, Listed
  <2> QED
    BY <1>2, <2>2, <2>3, <2>4, <2>5, <2>6 DEF Listed
<1>11. EntriesFaithful'
  <2>1. \A l \in SpanIds : sub_spans[l].name # None => sub_spans'[l].name = sub_spans[l].name
    BY <1>4, <1>6
  <2>2. ASSUME NEW l \in SpanIds, l = k
        PROVE  Faithful(sub_spans[l].events, said[sub_spans[l].name])'
    <3>1. said[s] = <<>> /\ said'[s] = <<>>
      BY <1>4, <1>5, <1>7 DEF Inv, Listed
    <3>2. sub_spans'[l].events = <<>> /\ sub_spans'[l].name = s
      BY <1>3, <1>6, <2>2
    <3> QED
      BY <3>1, <3>2 DEF Faithful
  <2>3. ASSUME NEW l \in SpanIds, p # None, l = q
        PROVE  Faithful(sub_spans[l].events, said[sub_spans[l].name])'
    <3>1. PICK x \in Items : x = SubSpan(k)
      BY <1>3
    <3>2. PICK h \in Said : h = Opened(s)
      BY <1>3
    <3>3. Matches(x, h)'
      BY <1>3, <1>6, <3>1, <3>2 DEF Matches, SubSpan, Opened
    <3>4. /\ l < next_span_id /\ p \in Spans /\ sub_spans[l].name = p
          /\ sub_spans'[l].events = Append(sub_spans[l].events, x)
          /\ said'[p] = Append(said[p], h)
      BY <1>5, <1>6, <1>7, <2>3, <3>1, <3>2 DEF k
    <3>5. Faithful(sub_spans[l].events, said[p])'
      BY <2>1, <3>3, <3>4, SaidInSpan DEF p
    <3>6. sub_spans'[l].name = p
      BY <1>4, <1>5, <1>6, <2>3
    <3> QED
      BY <3>5, <3>6 DEF p
  <2>4. ASSUME NEW l \in SpanIds, l < k, p = None \/ l # q
        PROVE  Faithful(sub_spans[l].events, said[sub_spans[l].name])'
    <3>1. l # k /\ sub_spans[l].name \in Spans /\ (p # None => sub_spans[l].name # p)
      BY <1>4, <1>5, <2>4 DEF Inv, Listed, Begun, SpanIds, k
    <3> QED
      BY <1>6, <1>7, <2>1, <2>4, <3>1, EntryKept DEF k
  <2>5. \A l \in SpanIds : l < k + 1 => l < k \/ l = k
    BY <1>4 DEF SpanIds
  <2> QED
    BY <1>2, <2>2, <2>3, <2>4, <2>5 DEF EntriesFaithful
<1> QED
  BY <1>8, <1>9, <1>10, <1>11 DEF Inv

-----------------------------------------------------------------------------
(* Invariance: Inv is inductive.                                           *)
THEOREM Invariance == Spec => []Inv
<1>1. Inv /\ [Next]_vars => Inv'
  <2> SUFFICES ASSUME Inv, [Next]_vars PROVE Inv'
    OBVIOUS
  <2>1. CASE UNCHANGED vars
    <3>1. TypeOK'
      BY <2>1 DEF vars, maps, cache, closing, history, Inv, TypeOK
    <3> QED
      BY <2>1, <3>1, Undisturbed DEF vars, maps, history
  <2>2. CASE Next
    BY <2>2, RootEventInv, EventInv, NewSpanInv, RecordInv, PrintInv, CloseInv DEF Next
  <2> QED
    BY <2>1, <2>2
<1> QED
  BY <1>1, InitInv, PTL DEF Spec

(* TypeCorrect: the state of the logger is well typed: there is always a   *)
(* persistent id left for a span that opens.                               *)
THEOREM TypeCorrect == Spec => []TypeOK
BY Invariance, PTL DEF Inv

(* NoLookupPanics: whichever ids tracing recycles, no handler looks up an  *)
(* id that is not live, nor the entry of another span (log.rs:268, :303).  *)
THEOREM NoLookupPanics == Spec => []LookupsSucceed
BY Invariance, PTL DEF Inv

(* MessagesStay: for every interleaving of tests, a span's entry lists     *)
(* exactly what was said in it, in order (log.rs:319).                     *)
THEOREM MessagesStay == Spec => []EntriesFaithful
BY Invariance, PTL DEF Inv

-----------------------------------------------------------------------------
(* What the entries and the histories say *)

Below == {k \in SpanIds : k < next_span_id}

(* Spans that on_close was called for: nothing is said in them any more.   *)
Past == {"found", "made", "printed", "closed"}

(* A span has its entry after that of its parent, which lists it.          *)
Nested ==
  \A k \in SpanIds : \A i \in DOMAIN sub_spans[k].events :
    sub_spans[k].events[i].kind = "span" =>
      LET l == sub_spans[k].events[i].id
      IN  k < l /\ l < next_span_id /\ ParentOf[sub_spans[l].name] = sub_spans[k].name

FieldsNoted ==
  /\ noted \subseteq Begun
  /\ \A k \in Below : sub_spans[k].fields = {"id"} \cup {f \in {"recorded"} : sub_spans[k].name \in noted}

Entered == \A s \in Begun : \E k \in Below : sub_spans[k].name = s

(* A span closes after those opened in it, and none is opened in it then.  *)
ChildrenClosed ==
  \A c \in Begun : ParentOf[c] # None =>
    /\ phase[ParentOf[c]] # "new"
    /\ phase[ParentOf[c]] \in Past => phase[c] = "closed"

Signed ==
  \A s \in Spans : \A i \in DOMAIN said[s] :
    said[s][i].kind = "message" => said[s][i].of = s

Text == Inv /\ Nested /\ FieldsNoted /\ Entered /\ Signed /\ ChildrenClosed

Rows == [of : Origins \cup {None}, n : Nat, fields : SUBSET {"id", "recorded"}, indent : Nat]

(* PrintSpan, from entry to entry of ss.                                   *)
Part(ss, f, k, i) ==
  IF ss[k].events[i].kind = "message"
  THEN <<Line(ss[k].events[i].of, ss[k].events[i].n)>>
  ELSE Indented(f[ss[k].events[i].id])
Body(ss, f, k) ==
  <<Title(ss[k].name, ss[k].fields)>>
  \o FlattenSeq([i \in DOMAIN ss[k].events |-> Part(ss, f, k, i)])
Printing(ss) == CHOOSE f : f = [k \in SpanIds |-> Body(ss, f, k)]

Descending(ss) ==
  \A k \in SpanIds : \A i \in DOMAIN ss[k].events :
    ss[k].events[i].kind = "span" => ss[k].events[i].id \in SpanIds /\ k < ss[k].events[i].id

LEMMA PrintSpanIs == \A k : PrintSpan(k) = Printing(sub_spans)[k]
  BY DEF PrintSpan, Printing, Body, Part

(* Alone, from span to span.                                               *)
Told(g, u, i) ==
  IF said[u][i].kind = "message"
  THEN <<Line(u, said[u][i].n)>>
  ELSE Indented(g[said[u][i].span])
Telling(g, u) ==
  <<Title(u, {"id"} \cup {f \in {"recorded"} : u \in noted})>>
  \o FlattenSeq([i \in DOMAIN said[u] |-> Told(g, u, i)])
Story == CHOOSE g : g = [u \in Spans |-> Telling(g, u)]

LEMMA AloneIs == \A s : Alone(s) = Story[s]
  BY DEF Alone, Story, Telling, Told

LEMMA NumberOfIds ==
  /\ Cardinality(Spans) \in Nat
  /\ SpanIds = 0 .. Cardinality(Spans) - 1
  BY FS_CardinalityType DEF SpanIds

LEMMA BodyLocal ==
  ASSUME NEW ss, NEW f, NEW g, NEW k,
         \A i \in DOMAIN ss[k].events :
           ss[k].events[i].kind = "message" \/ f[ss[k].events[i].id] = g[ss[k].events[i].id]
  PROVE  Body(ss, f, k) = Body(ss, g, k)
<1>1. \A i \in DOMAIN ss[k].events : Part(ss, f, k, i) = Part(ss, g, k, i)
  BY DEF Part
<1>2. [i \in DOMAIN ss[k].events |-> Part(ss, f, k, i)]
      = [i \in DOMAIN ss[k].events |-> Part(ss, g, k, i)]
  BY <1>1
<1> QED
  BY <1>2 DEF Body

(* The recursion of PrintSpan goes to later entries only, so it ends.      *)
LEMMA PrintingRec ==
  ASSUME NEW ss \in [SpanIds -> Entries], Descending(ss)
  PROVE  Printing(ss) = [k \in SpanIds |-> Body(ss, Printing(ss), k)]
<1> DEFINE N == Cardinality(Spans)
           Eq(f, n) == /\ f = [k \in SpanIds |-> f[k]]
                       /\ \A k \in SpanIds : k + n >= N => f[k] = Body(ss, f, k)
           I == {n \in Nat : \E f : Eq(f, n)}
<1>1. N \in Nat /\ SpanIds = 0 .. N - 1
  BY NumberOfIds
<1> HIDE DEF N
<1>2. \A k \in SpanIds : \A i \in DOMAIN ss[k].events :
        ss[k].events[i].kind = "message"
          \/ (ss[k].events[i].id \in SpanIds /\ k < ss[k].events[i].id)
  <2>1. ASSUME NEW k \in SpanIds, NEW i \in DOMAIN ss[k].events
        PROVE  ss[k].events[i].kind \in {"message", "span"}
    <3>1. ss[k].events \in Seq(Items)
      BY DEF Entries
    <3>2. ss[k].events[i] \in Items
      BY <3>1
    <3> QED
      BY <3>2 DEF Items
  <2> QED
    BY <2>1 DEF Descending
<1>3. 0 \in I
  <2>1. Eq([k \in SpanIds |-> k], 0)
    BY <1>1
  <2> HIDE DEF Eq
  <2> QED
    BY <2>1
<1>4. ASSUME NEW n \in Nat, n \in I PROVE n + 1 \in I
  <2>1. PICK f : Eq(f, n)
    <3> HIDE DEF Eq
    <3> QED BY <1>4
  <2> DEFINE g == [k \in SpanIds |-> IF k + n >= N THEN f[k] ELSE Body(ss, f, k)]
  <2>2. ASSUME NEW k \in SpanIds, k + n + 1 >= N PROVE g[k] = Body(ss, g, k)
    <3>1. g[k] = Body(ss, f, k)
      BY <2>1
    <3>2. ASSUME NEW i \in DOMAIN ss[k].events, ss[k].events[i].kind # "message"
          PROVE  f[ss[k].events[i].id] = g[ss[k].events[i].id]
      <4>1. PICK j \in SpanIds : j = ss[k].events[i].id /\ k < j
        BY <1>2, <3>2
      <4>2. j + n >= N
        BY <4>1, <2>2, <1>1
      <4>3. g[j] = f[j]
        BY <4>2
      <4> HIDE DEF g
      <4> QED
        BY <4>1, <4>3
    <3> HIDE DEF g
    <3>3. Body(ss, f, k) = Body(ss, g, k)
      BY <3>2, BodyLocal
    <3> QED
      BY <3>1, <3>3
  <2>3. Eq(g, n + 1)
    <3>1. g = [k \in SpanIds |-> g[k]]
      OBVIOUS
    <3> HIDE DEF g
    <3>2. \A k \in SpanIds : k + (n + 1) >= N => k + n + 1 >= N
      BY <1>1
    <3> QED
      BY <3>1, <3>2, <2>2
  <2> HIDE DEF Eq, g
  <2> QED
    BY <2>3
<1>5. \E f : f = [k \in SpanIds |-> Body(ss, f, k)]
  <2>1. N \in I
    <3> HIDE DEF I
    <3> QED BY <1>1, <1>3, <1>4, SetInduction
  <2>2. PICK f : Eq(f, N)
    <3> HIDE DEF Eq
    <3> QED BY <2>1
  <2>3. \A k \in SpanIds : f[k] = Body(ss, f, k)
    BY <2>2, <1>1
  <2>4. f = [k \in SpanIds |-> Body(ss, f, k)]
    BY <2>2, <2>3
  <2> QED
    BY <2>4
<1> QED
  BY <1>5 DEF Printing

LEMMA IndentedRows ==
  ASSUME NEW lines \in Seq(Rows)
  PROVE  Indented(lines) \in Seq(Rows)
<1>1. \A i \in 1 .. Len(lines) : [lines[i] EXCEPT !.indent = @ + 1] \in Rows
  <2>1. ASSUME NEW r \in Rows PROVE [r EXCEPT !.indent = @ + 1] \in Rows
    <3>1. r.indent + 1 \in Nat
      BY DEF Rows
    <3>2. PICK n \in Nat : n = r.indent + 1
      BY <3>1
    <3>3. [r EXCEPT !.indent = n] \in Rows
      BY DEF Rows
    <3> QED
      BY <3>2, <3>3
  <2> QED
    BY <2>1
<1>2. DOMAIN lines = 1 .. Len(lines) /\ Len(lines) \in Nat
  OBVIOUS
<1> HIDE DEF Rows
<1> QED
  BY <1>1, <1>2, IsASeq DEF Indented

LEMMA PartRows ==
  ASSUME NEW ss \in [SpanIds -> Entries], NEW f, NEW k \in SpanIds,
         \A i \in DOMAIN ss[k].events :
           \/ ss[k].events[i].kind = "message"
           \/ f[ss[k].events[i].id] \in Seq(Rows)
  PROVE  /\ Body(ss, f, k) \in Seq(Rows)
         /\ Body(ss, f, k)[1] = Title(ss[k].name, ss[k].fields)
<1> DEFINE e == ss[k].events
           parts == [i \in DOMAIN e |-> Part(ss, f, k, i)]
<1>1. e \in Seq(Items) /\ ss[k] \in Entries
  BY DEF Entries
<1>2. ASSUME NEW i \in DOMAIN e PROVE Part(ss, f, k, i) \in Seq(Rows)
  <2>1. CASE e[i].kind = "message"
    <3>1. e[i] \in Items
      BY <1>1
    <3>2. e[i].of \in Origins /\ e[i].n \in Nat
      BY <2>1, <3>1 DEF Items
    <3>3. Line(e[i].of, e[i].n) \in Rows
      BY <3>2 DEF Line, Rows
    <3>4. Part(ss, f, k, i) = <<Line(e[i].of, e[i].n)>>
      BY <2>1 DEF Part
    <3> HIDE DEF e, Rows
    <3> QED
      BY <3>3, <3>4
  <2>2. CASE e[i].kind # "message"
    BY <2>2, IndentedRows DEF Part
  <2> QED
    BY <2>1, <2>2
<1>3. parts \in Seq(Seq(Rows))
  <2>1. DOMAIN e = 1 .. Len(e) /\ Len(e) \in Nat
    BY <1>1
  <2> HIDE DEF e, Rows
  <2> QED
    BY <1>2, <2>1, IsASeq
<1>4. FlattenSeq(parts) \in Seq(Rows)
  <2> HIDE DEF parts, Rows
  <2> QED BY <1>3, FlattenLays
<1>5. Title(ss[k].name, ss[k].fields) \in Rows
  BY <1>1 DEF Title, Rows, Entries, Origins
<1>6. <<Title(ss[k].name, ss[k].fields)>> \in Seq(Rows)
  <2> HIDE DEF Rows
  <2> QED BY <1>5
<1>7. Body(ss, f, k) = <<Title(ss[k].name, ss[k].fields)>> \o FlattenSeq(parts)
  BY DEF Body
<1> HIDE DEF parts, Rows
<1>8. PICK rest \in Seq(Rows) : rest = FlattenSeq(parts)
  BY <1>4
<1>9. PICK t : t = Title(ss[k].name, ss[k].fields)
  OBVIOUS
<1>10. <<t>> \in Seq(Rows) /\ Len(<<t>>) = 1 /\ <<t>>[1] = t
  BY <1>6, <1>9
<1>11. 1 \in 1 .. Len(<<t>>) + Len(rest) /\ 1 <= Len(<<t>>)
  BY <1>8, <1>10
<1>12. <<t>> \o rest \in Seq(Rows) /\ (<<t>> \o rest)[1] = t
  BY <1>8, <1>10, <1>11, ConcatProperties
<1> QED
  BY <1>7, <1>8, <1>9, <1>12

(* Later entries first: what holds of an entry if it holds of those after  *)
(* it.                                                                     *)
LEMMA FromTheLast ==
  ASSUME NEW Good, \A k \in SpanIds : (\A j \in SpanIds : k < j => j \in Good) => k \in Good
  PROVE  SpanIds \subseteq Good
<1> DEFINE N == Cardinality(Spans)
           I == {n \in Nat : \A k \in SpanIds : k + n >= N => k \in Good}
<1>1. N \in Nat /\ SpanIds = 0 .. N - 1
  BY NumberOfIds
<1> HIDE DEF N
<1>2. 0 \in I
  BY <1>1
<1>3. ASSUME NEW n \in Nat, n \in I PROVE n + 1 \in I
  <2>1. ASSUME NEW k \in SpanIds, k + (n + 1) >= N PROVE k \in Good
    <3>1. ASSUME NEW j \in SpanIds, k < j PROVE j \in Good
      <4>1. j + n >= N
        BY <1>1, <2>1, <3>1
      <4> QED
        BY <1>3, <4>1
    <3> QED
      BY <3>1
  <2> QED
    BY <2>1
<1>4. N \in I
  <2> HIDE DEF I
  <2> QED BY <1>1, <1>2, <1>3, SetInduction
<1> QED
  BY <1>1, <1>4

LEMMA PrintingRows ==
  ASSUME NEW ss \in [SpanIds -> Entries], Descending(ss)
  PROVE  \A k \in SpanIds :
           /\ Printing(ss)[k] \in Seq(Rows)
           /\ Printing(ss)[k][1] = Title(ss[k].name, ss[k].fields)
<1> DEFINE f == Printing(ss)
           Good == {k \in SpanIds : /\ f[k] \in Seq(Rows)
                                    /\ f[k][1] = Title(ss[k].name, ss[k].fields)}
<1>1. f = [k \in SpanIds |-> Body(ss, f, k)]
  BY PrintingRec
<1> HIDE DEF f
<1>2. ASSUME NEW k \in SpanIds, \A j \in SpanIds : k < j => j \in Good PROVE k \in Good
  <2>1. ASSUME NEW i \in DOMAIN ss[k].events, ss[k].events[i].kind # "message"
        PROVE  f[ss[k].events[i].id] \in Seq(Rows)
    <3>1. ss[k].events \in Seq(Items)
      BY DEF Entries
    <3>2. ss[k].events[i] \in Items
      BY <3>1
    <3>3. ss[k].events[i].kind = "span"
      BY <2>1, <3>2 DEF Items
    <3> QED
      BY <1>2, <3>3 DEF Descending
  <2>2. /\ Body(ss, f, k) \in Seq(Rows)
        /\ Body(ss, f, k)[1] = Title(ss[k].name, ss[k].fields)
    <3> HIDE DEF Good
    <3> QED BY <2>1, PartRows
  <2> QED
    BY <1>1, <2>2
<1>3. SpanIds \subseteq Good
  <2> HIDE DEF Good
  <2> QED BY <1>2, FromTheLast
<1> QED
  BY <1>3 DEF f

-----------------------------------------------------------------------------
(* An entry prints what was said in its span, line by line.                *)

LEMMA TextType ==
  ASSUME Text
  PROVE  /\ sub_spans \in [SpanIds -> Entries] /\ Descending(sub_spans)
         /\ next_span_id \in Nat
         /\ \A k \in Below : sub_spans[k].name \in Begun
         /\ \A k, l \in Below : sub_spans[k].name = sub_spans[l].name => k = l
<1>1. sub_spans \in [SpanIds -> Entries] /\ next_span_id \in Nat
  BY DEF Text, Inv, TypeOK
<1>2. Descending(sub_spans)
  <2>1. ASSUME NEW k \in SpanIds, NEW i \in DOMAIN sub_spans[k].events,
               sub_spans[k].events[i].kind = "span"
        PROVE  sub_spans[k].events[i].id \in SpanIds /\ k < sub_spans[k].events[i].id
    <3>1. sub_spans[k].events \in Seq(Items)
      BY <1>1 DEF Entries
    <3>2. sub_spans[k].events[i] \in Items
      BY <3>1
    <3> QED
      BY <2>1, <3>2 DEF Text, Nested, Items
  <2> QED
    BY <2>1 DEF Descending
<1> QED
  BY <1>1, <1>2 DEF Text, Inv, Listed, Below

LEMMA SameText ==
  ASSUME Text, NEW k \in Below, NEW f, NEW g,
         \A l \in Below : k < l => f[l] = g[sub_spans[l].name]
  PROVE  Body(sub_spans, f, k) = Telling(g, sub_spans[k].name)
<1> DEFINE e == sub_spans[k].events
           u == sub_spans[k].name
           h == said[u]
<1>1. k \in SpanIds /\ k < next_span_id
  BY DEF Below
<1>2. e \in Seq(Items) /\ h \in Seq(Said) /\ u \in Spans
  BY <1>1 DEF Text, Inv, TypeOK, Listed, Begun, Entries, Origins
<1>3. Len(e) = Len(h) /\ \A i \in DOMAIN e : Matches(e[i], h[i])
  BY <1>1 DEF Text, Inv, EntriesFaithful, Faithful
<1>5. DOMAIN e = DOMAIN h
  BY <1>2, <1>3
<1>4. ASSUME NEW i \in DOMAIN e PROVE Part(sub_spans, f, k, i) = Told(g, u, i)
  <2>1. e[i] \in Items /\ h[i] \in Said /\ Matches(e[i], h[i])
    BY <1>2, <1>3
  <2>2. CASE e[i].kind = "message"
    <3>1. h[i].kind = "message" /\ e[i] = h[i]
      BY <2>1, <2>2 DEF Matches
    <3>2. e[i].of = u
      BY <1>2, <1>5, <3>1 DEF Text, Signed
    <3> QED
      BY <2>2, <3>1, <3>2 DEF Part, Told
  <2>3. CASE e[i].kind = "span"
    <3>1. h[i].kind = "span" /\ sub_spans[e[i].id].name = h[i].span
      BY <2>1, <2>3 DEF Matches
    <3>2. e[i].id \in Below /\ k < e[i].id
      BY <1>1, <2>1, <2>3 DEF Text, Nested, Below, Items
    <3>3. f[e[i].id] = g[h[i].span]
      BY <3>1, <3>2
    <3> QED
      BY <2>3, <3>1, <3>3 DEF Part, Told
  <2> QED
    BY <2>1, <2>2, <2>3 DEF Items
<1>6. [i \in DOMAIN e |-> Part(sub_spans, f, k, i)] = [i \in DOMAIN h |-> Told(g, u, i)]
  BY <1>4, <1>5
<1>7. sub_spans[k].fields = {"id"} \cup {x \in {"recorded"} : u \in noted}
  BY DEF Text, FieldsNoted
<1> QED
  BY <1>6, <1>7 DEF Body, Telling

(* So the logger prints of a span what it would print if nothing else ran. *)
LogsAsAlone == \A k \in Below : Alone(sub_spans[k].name) = PrintSpan(k)

LEMMA AloneIsPrinted == Text => LogsAsAlone
<1> SUFFICES ASSUME Text PROVE \A k \in Below : Alone(sub_spans[k].name) = PrintSpan(k)
  BY DEF LogsAsAlone
<1> DEFINE f == Printing(sub_spans)
           Entry(u) == CHOOSE k \in Below : sub_spans[k].name = u
           g == [u \in Spans |-> IF u \in Begun THEN f[Entry(u)] ELSE Telling([x \in {} |-> x], u)]
<1>1. f = [k \in SpanIds |-> Body(sub_spans, f, k)]
  BY TextType, PrintingRec
<1>2. \A k \in Below : k \in SpanIds /\ sub_spans[k].name \in Begun
  BY TextType DEF Below
<1>3. \A u \in Begun : u \in Spans /\ Entry(u) \in Below /\ sub_spans[Entry(u)].name = u
  BY DEF Text, Entered, Begun
<1>4. \A k \in Below : g[sub_spans[k].name] = f[k]
  <2>1. \A k \in Below : Entry(sub_spans[k].name) = k
    BY <1>2, <1>3, TextType
  <2> HIDE DEF Entry, f
  <2> QED
    BY <2>1, <1>2, <1>3
<1> HIDE DEF f, g, Entry
<1>5. \A k \in Below : f[k] = Telling(g, sub_spans[k].name)
  <2>1. ASSUME NEW k \in Below PROVE f[k] = Telling(g, sub_spans[k].name)
    <3>1. Body(sub_spans, f, k) = Telling(g, sub_spans[k].name)
      BY <1>4, SameText
    <3> QED
      BY <1>1, <1>2, <3>1
  <2> QED
    BY <2>1
<1>6. ASSUME NEW u \in Spans PROVE g[u] = Telling(g, u)
  <2>1. CASE u \in Begun
    <3>1. PICK k \in Below : sub_spans[k].name = u
      BY <2>1, <1>3
    <3> QED
      BY <3>1, <1>4, <1>5
  <2>2. CASE u \notin Begun
    <3>1. said[u] = <<>>
      BY <2>2 DEF Text, Inv, Listed
    <3>2. \A h : [i \in DOMAIN said[u] |-> Told(h, u, i)] = <<>>
      BY <3>1
    <3>3. g[u] = Telling([x \in {} |-> x], u)
      BY <2>2 DEF g
    <3> QED
      BY <3>2, <3>3 DEF Telling
  <2> QED
    BY <2>1, <2>2
<1>7. Story = [u \in Spans |-> Telling(Story, u)]
  <2>1. g = [u \in Spans |-> g[u]]
    BY DEF g
  <2>2. g = [u \in Spans |-> Telling(g, u)]
    BY <2>1, <1>6
  <2> QED
    BY <2>2 DEF Story
<1> DEFINE Good == {k \in SpanIds : k \in Below => f[k] = Story[sub_spans[k].name]}
<1>8. ASSUME NEW k \in SpanIds, \A j \in SpanIds : k < j => j \in Good PROVE k \in Good
  <2>1. CASE k \in Below
    <3>1. \A l \in Below : k < l => f[l] = Story[sub_spans[l].name]
      BY <1>2, <1>8
    <3>2. Body(sub_spans, f, k) = Telling(Story, sub_spans[k].name)
      BY <2>1, <3>1, SameText
    <3>3. sub_spans[k].name \in Spans
      BY <2>1, <1>2 DEF Begun
    <3>4. f[k] = Story[sub_spans[k].name]
      BY <1>1, <1>7, <3>2, <3>3
    <3> QED
      BY <3>4
  <2>2. CASE k \notin Below
    BY <2>2
  <2> QED
    BY <2>1, <2>2
<1>9. SpanIds \subseteq Good
  <2> HIDE DEF Good
  <2> QED BY <1>8, FromTheLast
<1> QED
  BY <1>2, <1>9, AloneIs, PrintSpanIs DEF f

(* What a step leaves of the spans whose on_close has begun.               *)
Frozen ==
  \A k \in Below : phase[sub_spans[k].name] \in Past =>
    /\ phase'[sub_spans[k].name] \in Past
    /\ sub_spans'[k].name = sub_spans[k].name
    /\ sub_spans'[k].events = sub_spans[k].events
    /\ sub_spans'[k].fields = sub_spans[k].fields

LEMMA TextDescends == Text => sub_spans \in [SpanIds -> Entries] /\ Descending(sub_spans)
  BY TextType

(* The log of a span whose on_close has begun is settled: so are the logs  *)
(* of the spans inside it.                                                 *)
LEMMA StoryKept ==
  ASSUME Text, Text', Frozen, next_span_id <= next_span_id'
  PROVE  \A k \in Below : phase[sub_spans[k].name] \in Past =>
           Alone(sub_spans[k].name)' = Alone(sub_spans[k].name)
<1>1. PICK f : f = Printing(sub_spans)
  OBVIOUS
<1>2. PICK g : g = Printing(sub_spans')
  OBVIOUS
<1>3. f = [k \in SpanIds |-> Body(sub_spans, f, k)]
  BY <1>1, TextDescends, PrintingRec
<1>4. g = [k \in SpanIds |-> Body(sub_spans', g, k)]
  <2>1. (Text => sub_spans \in [SpanIds -> Entries] /\ Descending(sub_spans))'
    BY TextDescends, PTL
  <2>2. sub_spans' \in [SpanIds -> Entries] /\ Descending(sub_spans')
    BY <2>1 DEF Descending
  <2> QED
    BY <1>2, <2>2, PrintingRec
<1>5. \A k \in Below : k \in SpanIds /\ sub_spans[k].name \in Begun
  BY TextType DEF Below
<1> DEFINE Good == {k \in SpanIds :
                      k \in Below /\ phase[sub_spans[k].name] \in Past => g[k] = f[k]}
<1>6. ASSUME NEW k \in SpanIds, \A j \in SpanIds : k < j => j \in Good PROVE k \in Good
  <2> SUFFICES ASSUME k \in Below, phase[sub_spans[k].name] \in Past PROVE g[k] = f[k]
    OBVIOUS
  <2>1. /\ sub_spans'[k].name = sub_spans[k].name
        /\ sub_spans'[k].events = sub_spans[k].events
        /\ sub_spans'[k].fields = sub_spans[k].fields
    BY DEF Frozen
  <2>2. ASSUME NEW i \in DOMAIN sub_spans[k].events, sub_spans[k].events[i].kind # "message"
        PROVE  f[sub_spans[k].events[i].id] = g[sub_spans[k].events[i].id]
    <3>1. sub_spans[k].events \in Seq(Items)
      BY TextType DEF Entries
    <3>2. sub_spans[k].events[i] \in Items
      BY <3>1
    <3>3. sub_spans[k].events[i].kind = "span"
      BY <2>2, <3>2 DEF Items
    <3>4. PICK l \in SpanIds : l = sub_spans[k].events[i].id
      BY <3>2, <3>3 DEF Items
    <3>5. /\ k < l /\ l < next_span_id
          /\ ParentOf[sub_spans[l].name] = sub_spans[k].name
      BY <3>3, <3>4 DEF Text, Nested
    <3>6. l \in Below /\ sub_spans[l].name \in Begun
      BY <3>5, <1>5 DEF Below
    <3>7. sub_spans[k].name # None
      BY <1>5 DEF Begun
    <3>8. phase[sub_spans[l].name] = "closed"
      BY <3>5, <3>6, <3>7 DEF Text, ChildrenClosed
    <3>9. l \in Good
      BY <1>6, <3>5
    <3> QED
      BY <3>4, <3>6, <3>8, <3>9 DEF Past
  <2> HIDE DEF Good
  <2>3. Body(sub_spans, f, k) = Body(sub_spans, g, k)
    BY <2>2, BodyLocal
  <2>4. Body(sub_spans, g, k) = Body(sub_spans', g, k)
    <3>1. \A i \in DOMAIN sub_spans[k].events : Part(sub_spans, g, k, i) = Part(sub_spans', g, k, i)
      BY <2>1 DEF Part
    <3>2. [i \in DOMAIN sub_spans[k].events |-> Part(sub_spans, g, k, i)]
          = [i \in DOMAIN sub_spans'[k].events |-> Part(sub_spans', g, k, i)]
      BY <2>1, <3>1
    <3> QED
      BY <2>1, <3>2 DEF Body
  <2> QED
    BY <1>3, <1>4, <2>3, <2>4
<1>7. SpanIds \subseteq Good
  <2> HIDE DEF Good
  <2> QED BY <1>6, FromTheLast
<1>8. ASSUME NEW k \in Below, phase[sub_spans[k].name] \in Past
      PROVE  Alone(sub_spans[k].name)' = Alone(sub_spans[k].name)
  <2>1. g[k] = f[k]
    BY <1>5, <1>7, <1>8
  <2>2. Alone(sub_spans[k].name) = f[k]
    BY <1>1, AloneIsPrinted, PrintSpanIs DEF LogsAsAlone
  <2>3. (Alone(sub_spans[k].name))' = PrintSpan(k)'
    <3>1. (Text => LogsAsAlone)'
      BY AloneIsPrinted, PTL
    <3>2. k \in Below'
      BY <1>5, TextType DEF Below, Text, Inv, TypeOK, SpanIds
    <3> QED
      BY <3>1, <3>2 DEF LogsAsAlone
  <2>4. PrintSpan(k)' = g[k]
    <3>1. PrintSpan(k)' = Printing(sub_spans')[k]
      BY DEF PrintSpan, Printing, Body, Part
    <3> QED
      BY <3>1, <1>2
  <2> QED
    BY <2>1, <2>2, <2>3, <2>4
<1> QED
  BY <1>8

-----------------------------------------------------------------------------
(* Every step keeps Text, and leaves what is frozen.                       *)

LEMMA TextKept ==
  ASSUME Text, Inv', UNCHANGED next_span_id,
         \A k \in SpanIds : /\ sub_spans'[k].name = sub_spans[k].name
                            /\ sub_spans'[k].events = sub_spans[k].events,
         \A k \in Below : phase[sub_spans[k].name] \in Past
                            => sub_spans'[k].fields = sub_spans[k].fields,
         FieldsNoted',
         \A s \in Spans :
           /\ said'[s] = said[s]
           /\ phase'[s] = "new" <=> phase[s] = "new"
           /\ phase[s] \in Past => phase'[s] \in Past
           /\ phase[s] = "closed" => phase'[s] = "closed"
           /\ phase'[s] \in Past =>
                phase[s] \in Past \/ \A c \in Spans : ParentOf[c] = s => phase[c] \notin Open
  PROVE  Text' /\ Frozen
<1>1. Begun' = Begun
  BY DEF Begun
<1>2. Below' = Below
  BY DEF Below
<1>3. Nested'
  <2>1. ASSUME NEW k \in SpanIds, NEW i \in DOMAIN sub_spans'[k].events,
               sub_spans'[k].events[i].kind = "span",
               NEW l, l = sub_spans'[k].events[i].id
        PROVE  /\ k < l /\ l < next_span_id'
               /\ ParentOf[sub_spans'[l].name] = sub_spans'[k].name
    <3>1. i \in DOMAIN sub_spans[k].events /\ sub_spans[k].events[i].kind = "span"
          /\ l = sub_spans[k].events[i].id
      BY <2>1
    <3>2. l \in SpanIds
      BY <3>1, TextType DEF Descending
    <3> QED
      BY <3>1, <3>2 DEF Text, Nested
  <2> QED
    BY <2>1 DEF Nested
<1>4. Entered'
  <2>1. \A k \in Below : k \in SpanIds
    BY DEF Below
  <2> QED
    BY <1>1, <1>2, <2>1 DEF Text, Entered
<1>5. Signed'
  BY DEF Text, Signed
<1>6. ChildrenClosed'
  <2>1. ASSUME NEW c \in Begun, ParentOf[c] # None
        PROVE  /\ phase'[ParentOf[c]] # "new"
               /\ phase'[ParentOf[c]] \in Past => phase'[c] = "closed"
    <3>1. PICK p \in Spans : p = ParentOf[c]
      BY <2>1 DEF Begun
    <3>2. c \in Spans /\ phase[c] # "new" /\ phase[c] \in Open \cup Closed \cup {"new"}
      BY DEF Begun, Text, Inv, TypeOK
    <3>3. phase[p] # "new" /\ (phase[p] \in Past => phase[c] = "closed")
      BY <2>1, <3>1 DEF Text, ChildrenClosed
    <3> QED
      BY <3>1, <3>2, <3>3 DEF Closed
  <2> QED
    BY <1>1, <2>1 DEF ChildrenClosed
<1>7. Frozen
  <2>1. \A k \in Below : k \in SpanIds /\ sub_spans[k].name \in Spans
    BY TextType DEF Below, Begun
  <2> QED
    BY <2>1 DEF Frozen
<1> QED
  BY <1>3, <1>4, <1>5, <1>6, <1>7 DEF Text

LEMMA RootEventText == Text /\ OnRootEvent => Text' /\ Frozen
<1> SUFFICES ASSUME Text, OnRootEvent PROVE Text' /\ Frozen
  OBVIOUS
<1>1. Inv'
  BY RootEventInv DEF Text
<1>2. \A s \in Spans : said'[s] = said[s]
  BY DEF OnRootEvent, Text, Inv, TypeOK, Origins
<1>3. UNCHANGED <<phase, sub_spans, next_span_id, noted>>
  BY DEF OnRootEvent, maps
<1>4. FieldsNoted'
  BY <1>3 DEF Text, FieldsNoted, Below, Begun
<1> QED
  BY <1>1, <1>2, <1>3, <1>4, TextKept

LEMMA PrintText ==
  \A s \in Spans : Text /\ (PrintSpanIfTest(s) \/ StringQuery(s) \/ Eprintln(s)) => Text' /\ Frozen
<1> SUFFICES ASSUME NEW s \in Spans, Text, PrintSpanIfTest(s) \/ StringQuery(s) \/ Eprintln(s)
             PROVE  Text' /\ Frozen
  OBVIOUS
<1>1. Inv'
  BY PrintInv DEF Text
<1>2. /\ UNCHANGED <<sub_spans, next_span_id, noted, said>>
      /\ \E ph \in {"found", "made", "printed"} : phase' = [phase EXCEPT ![s] = ph]
      /\ \/ phase[s] = "open" /\ \A c \in Spans : ParentOf[c] = s => phase[c] \notin Open
         \/ phase[s] \in {"found", "made"}
  BY DEF PrintSpanIfTest, CanClose, StringQuery, Eprintln, maps, history
<1>3. phase \in [Spans -> Open \cup Closed \cup {"new"}]
  BY DEF Text, Inv, TypeOK
<1>4. Begun' = Begun
  BY <1>2, <1>3 DEF Begun
<1>5. FieldsNoted'
  BY <1>2, <1>4 DEF Text, FieldsNoted, Below
<1> QED
  BY <1>1, <1>2, <1>3, <1>5, TextKept DEF Past

LEMMA CloseText == \A s \in Spans : Text /\ OnClose(s) => Text' /\ Frozen
<1> SUFFICES ASSUME NEW s \in Spans, Text, OnClose(s) PROVE Text' /\ Frozen
  OBVIOUS
<1>1. Inv'
  BY CloseInv DEF Text
<1>2. /\ phase[s] = "printed" /\ phase' = [phase EXCEPT ![s] = "closed"]
      /\ UNCHANGED <<next_span_id, noted, said>>
  BY DEF OnClose, history
<1>3. phase \in [Spans -> Open \cup Closed \cup {"new"}]
  BY DEF Text, Inv, TypeOK
<1>4. \A k \in SpanIds : /\ sub_spans'[k].name = sub_spans[k].name
                         /\ sub_spans'[k].events = sub_spans[k].events
                         /\ sub_spans'[k].fields = sub_spans[k].fields
  <2>1. sub_spans \in [SpanIds -> Entries]
    BY DEF Text, Inv, TypeOK
  <2>2. PICK k : k = live_spans[id[s]]
    OBVIOUS
  <2>3. k \in SpanIds
    BY <1>2, <2>2, OpenEntry DEF Text, Open
  <2>4. PICK e2 : e2 = [sub_spans[k] EXCEPT !.destroyed = TRUE]
    OBVIOUS
  <2>5. /\ e2.name = sub_spans[k].name /\ e2.events = sub_spans[k].events
        /\ e2.fields = sub_spans[k].fields
    BY <2>1, <2>3, <2>4 DEF Entries
  <2>6. sub_spans' = [sub_spans EXCEPT ![k] = e2]
    BY <2>2, <2>3, <2>4, IdsAssumption DEF OnClose
  <2> QED
    BY <2>1, <2>5, <2>6
<1>5. Begun' = Begun
  BY <1>2, <1>3 DEF Begun
<1>6. FieldsNoted'
  BY <1>2, <1>4, <1>5 DEF Text, FieldsNoted, Below
<1>7. \A k \in Below : k \in SpanIds
  BY DEF Below
<1> QED
  BY <1>1, <1>2, <1>3, <1>4, <1>6, <1>7, TextKept DEF Past

LEMMA RecordText == \A s \in Spans : Text /\ OnRecord(s) => Text' /\ Frozen
<1> SUFFICES ASSUME NEW s \in Spans, Text, OnRecord(s) PROVE Text' /\ Frozen
  OBVIOUS
<1>1. Inv'
  BY RecordInv DEF Text
<1>2. /\ phase[s] = "open" /\ noted' = noted \cup {s}
      /\ UNCHANGED <<phase, next_span_id, said>>
  BY DEF OnRecord
<1>3. PICK k : k = live_spans[id[s]]
  OBVIOUS
<1>4. k \in SpanIds /\ k \in Below /\ sub_spans[k].name = s
  BY <1>2, <1>3, OpenEntry DEF Text, Open, Below
<1>5. PICK e2 : e2 = [sub_spans[k] EXCEPT !.fields = @ \cup {"recorded"}]
  OBVIOUS
<1>6. sub_spans \in [SpanIds -> Entries]
  BY DEF Text, Inv, TypeOK
<1>7. /\ e2.name = sub_spans[k].name /\ e2.events = sub_spans[k].events
      /\ e2.fields = sub_spans[k].fields \cup {"recorded"}
  BY <1>4, <1>5, <1>6 DEF Entries
<1>8. sub_spans' = [sub_spans EXCEPT ![k] = e2]
  BY <1>3, <1>5 DEF OnRecord
<1>9. \A l \in SpanIds : /\ sub_spans'[l].name = sub_spans[l].name
                         /\ sub_spans'[l].events = sub_spans[l].events
                         /\ l # k => sub_spans'[l].fields = sub_spans[l].fields
  BY <1>6, <1>7, <1>8
<1>10. Begun' = Begun /\ Below' = Below /\ s \in Begun
  BY <1>2 DEF Begun, Below
<1>11. FieldsNoted'
  <2>1. ASSUME NEW l \in Below
        PROVE  sub_spans'[l].fields = {"id"} \cup {f \in {"recorded"} : sub_spans'[l].name \in noted'}
    <3>1. sub_spans[l].fields = {"id"} \cup {f \in {"recorded"} : sub_spans[l].name \in noted}
          /\ l \in SpanIds
      BY DEF Text, FieldsNoted, Below
    <3>2. CASE l = k
      <4>1. sub_spans'[k].fields = sub_spans[k].fields \cup {"recorded"}
        BY <1>4, <1>6, <1>7, <1>8
      <4> QED
        BY <1>2, <1>4, <1>9, <3>1, <3>2, <4>1
    <3>3. CASE l # k
      <4>1. sub_spans[l].name # s
        BY <1>4, <3>3, TextType
      <4> QED
        BY <1>2, <1>9, <3>1, <3>3, <4>1
    <3> QED
      BY <3>2, <3>3
  <2>2. noted' \subseteq Begun
    BY <1>2, <1>10 DEF Text, FieldsNoted
  <2> QED
    BY <2>1, <2>2, <1>10 DEF FieldsNoted
<1>12. \A l \in Below : phase[sub_spans[l].name] \in Past
                          => sub_spans'[l].fields = sub_spans[l].fields
  BY <1>2, <1>4, <1>9 DEF Past, Below
<1> QED
  BY <1>1, <1>2, <1>9, <1>11, <1>12, TextKept

LEMMA CountType ==
  ASSUME Inv, NEW s \in Origins
  PROVE  Count(s) \in Nat
<1>1. said[s] \in Seq(Said)
  BY DEF Inv, TypeOK
<1>2. IsFiniteSet(1 .. Len(said[s]))
  BY <1>1, FS_Interval
<1>3. IsFiniteSet({i \in DOMAIN said[s] : said[s][i].kind = "message"})
  BY <1>1, <1>2, FS_Subset
<1> QED
  BY <1>3, FS_CardinalityType DEF Count

LEMMA EventText == \A s \in Spans : Text /\ OnEvent(s) => Text' /\ Frozen
<1> SUFFICES ASSUME NEW s \in Spans, Text, OnEvent(s) PROVE Text' /\ Frozen
  OBVIOUS
<1>1. Inv'
  BY EventInv DEF Text
<1>2. PICK k : k = live_spans[id[s]]
  OBVIOUS
<1>3. PICK m : m = Message(s, Count(s) + 1)
  OBVIOUS
<1>4. /\ phase[s] = "open" /\ UNCHANGED <<phase, next_span_id, noted>>
      /\ sub_spans' = [sub_spans EXCEPT ![k].events = Append(@, m)]
      /\ said' = [said EXCEPT ![s] = Append(@, m)]
  BY <1>2, <1>3 DEF OnEvent, EventSpan
<1>5. k \in Below /\ k \in SpanIds /\ sub_spans[k].name = s
  BY <1>2, <1>4, OpenEntry DEF Text, Open, Below
<1>6. m \in Items /\ m.kind = "message" /\ m.of = s
  BY <1>3, CountType DEF Text, Message, Items, Origins
<1>7. /\ \A l \in SpanIds : /\ sub_spans'[l].name = sub_spans[l].name
                            /\ sub_spans'[l].fields = sub_spans[l].fields
      /\ sub_spans'[k].events = Append(sub_spans[k].events, m)
      /\ \A l \in SpanIds \ {k} : sub_spans'[l].events = sub_spans[l].events
  BY <1>4, <1>5, <1>6, AppendItem DEF Text, Inv
<1>8. Begun' = Begun /\ Below' = Below /\ \A l \in Below : l \in SpanIds
  BY <1>4 DEF Begun, Below
<1>9. Nested'
  <2>1. ASSUME NEW l \in SpanIds, NEW i \in DOMAIN sub_spans'[l].events,
               sub_spans'[l].events[i].kind = "span",
               NEW j, j = sub_spans'[l].events[i].id
        PROVE  /\ l < j /\ j < next_span_id'
               /\ ParentOf[sub_spans'[j].name] = sub_spans'[l].name
    <3>1. /\ i \in DOMAIN sub_spans[l].events /\ sub_spans[l].events[i].kind = "span"
          /\ j = sub_spans[l].events[i].id
      <4>1. CASE l = k
        <5>1. sub_spans[k].events \in Seq(Items)
          BY <1>5, TextType DEF Entries
        <5>2. sub_spans'[l].events = Append(sub_spans[l].events, m)
          BY <1>7, <4>1
        <5>3. i \in DOMAIN sub_spans[l].events \/ i = Len(sub_spans[l].events) + 1
          BY <2>1, <4>1, <5>1, <5>2
        <5>4. i # Len(sub_spans[l].events) + 1
          BY <1>6, <2>1, <4>1, <5>1, <5>2
        <5> QED
          BY <2>1, <4>1, <5>1, <5>2, <5>3, <5>4
      <4>2. CASE l # k
        BY <1>7, <2>1, <4>2
      <4> QED
        BY <4>1, <4>2
    <3>2. j \in SpanIds
      BY <3>1, TextType DEF Descending
    <3> QED
      BY <1>4, <1>7, <3>1, <3>2 DEF Text, Nested
  <2> QED
    BY <2>1 DEF Nested
<1>10. FieldsNoted' /\ Entered'
  BY <1>4, <1>7, <1>8 DEF Text, FieldsNoted, Entered
<1>11. Signed'
  <2>1. ASSUME NEW u \in Spans, NEW i \in DOMAIN said'[u], said'[u][i].kind = "message"
        PROVE  said'[u][i].of = u
    <3>1. said \in [Origins -> Seq(Said)] /\ u \in Origins
      BY DEF Text, Inv, TypeOK, Origins
    <3>2. CASE u = s
      <4>1. said[s] \in Seq(Said) /\ said'[s] = Append(said[s], m)
        BY <1>4, <3>1, <3>2
      <4>2. i \in DOMAIN said[s] \/ i = Len(said[s]) + 1
        BY <2>1, <3>2, <4>1
      <4>3. CASE i \in DOMAIN said[s]
        BY <2>1, <3>2, <4>1, <4>3 DEF Text, Signed
      <4>4. CASE i = Len(said[s]) + 1
        BY <1>6, <3>2, <4>1, <4>4
      <4> QED
        BY <4>2, <4>3, <4>4
    <3>3. CASE u # s
      BY <1>4, <2>1, <3>1, <3>3 DEF Text, Signed
    <3> QED
      BY <3>2, <3>3
  <2> QED
    BY <2>1 DEF Signed
<1>12. ChildrenClosed'
  BY <1>4, <1>8 DEF Text, ChildrenClosed
<1>13. Frozen
  <2>1. ASSUME NEW l \in Below, phase[sub_spans[l].name] \in Past PROVE l \in SpanIds \ {k}
    BY <1>4, <1>5, <1>8, <2>1 DEF Past
  <2> QED
    BY <1>4, <1>7, <2>1 DEF Frozen
<1> QED
  BY <1>1, <1>9, <1>10, <1>11, <1>12, <1>13 DEF Text

LEMMA NewSpanText == \A s \in Spans, i \in Ids : Text /\ OnNewSpan(s, i) => Text' /\ Frozen
<1> SUFFICES ASSUME NEW s \in Spans, NEW i \in Ids, Text, OnNewSpan(s, i) PROVE Text' /\ Frozen
  OBVIOUS
<1>1. Inv'
  BY NewSpanInv DEF Text
<1>2. PICK k : k = next_span_id
  OBVIOUS
<1>3. PICK p : p = ParentOf[s]
  OBVIOUS
<1>4. PICK q : q = live_spans[id[p]]
  OBVIOUS
<1>5. Grown(s, i, k, p, q)
  BY <1>2, <1>3, <1>4, NewSpanEffect DEF Text
<1>6. /\ k \in SpanIds /\ k \in Nat /\ phase[s] = "new" /\ s # None /\ s \notin Begun
      /\ phase' = [phase EXCEPT ![s] = "open"] /\ next_span_id' = k + 1
      /\ noted' = noted
  BY <1>5 DEF Grown
<1>7. /\ p # None => /\ p \in Spans /\ phase[p] = "open"
                     /\ q \in SpanIds /\ q < k /\ q # k /\ sub_spans[q].name = p
  BY <1>5, <1>6 DEF Grown, SpanIds
<1>8. /\ sub_spans'[k].name = s /\ sub_spans'[k].events = <<>> /\ sub_spans'[k].fields = {"id"}
      /\ \A l \in SpanIds \ {k} :
           /\ sub_spans'[l].name = sub_spans[l].name
           /\ sub_spans'[l].fields = sub_spans[l].fields
           /\ p = None \/ l # q => sub_spans'[l].events = sub_spans[l].events
      /\ p # None => sub_spans'[q].events = Append(sub_spans[q].events, SubSpan(k))
  BY <1>5 DEF Grown, NewEntry
<1>9. phase \in [Spans -> Open \cup Closed \cup {"new"}]
  BY DEF Text, Inv, TypeOK
<1>10. Begun' = Begun \cup {s} /\ Below' = Below \cup {k}
  BY <1>2, <1>6, <1>9 DEF Begun, Below, SpanIds
<1>11. \A l \in Below : l \in SpanIds \ {k} /\ l < k
  BY <1>2, <1>6 DEF Below, SpanIds
<1>12. \A l \in Below : sub_spans[l].name \in Begun
  BY TextType
<1>13. Nested'
  <2>1. ASSUME NEW l \in SpanIds, NEW n \in DOMAIN sub_spans'[l].events,
               sub_spans'[l].events[n].kind = "span",
               NEW j, j = sub_spans'[l].events[n].id
        PROVE  /\ l < j /\ j < next_span_id'
               /\ ParentOf[sub_spans'[j].name] = sub_spans'[l].name
    <3>1. l # k
      BY <1>8, <2>1
    <3>2. CASE n \in DOMAIN sub_spans[l].events /\ sub_spans'[l].events[n] = sub_spans[l].events[n]
      <4>1. /\ l < j /\ j < k /\ j \in SpanIds
            /\ ParentOf[sub_spans[j].name] = sub_spans[l].name
        BY <1>2, <2>1, <3>2, TextType DEF Text, Nested, Descending
      <4>2. j \in SpanIds \ {k} /\ j < k + 1
        BY <1>6, <4>1 DEF SpanIds
      <4> QED
        BY <1>6, <1>8, <3>1, <4>1, <4>2
    <3>3. CASE p # None /\ l = q
      <4>1. sub_spans[q].events \in Seq(Items)
        BY <1>7, <3>3, TextType DEF Entries
      <4>2. sub_spans'[l].events = Append(sub_spans[q].events, SubSpan(k))
        BY <1>8, <3>3
      <4>3. n \in 1 .. Len(sub_spans[q].events) \/ n = Len(sub_spans[q].events) + 1
        BY <2>1, <4>1, <4>2
      <4>4. CASE n \in 1 .. Len(sub_spans[q].events)
        BY <3>2, <3>3, <4>1, <4>2, <4>4
      <4>5. CASE n = Len(sub_spans[q].events) + 1
        <5>1. j = k
          BY <2>1, <4>1, <4>2, <4>5 DEF SubSpan
        <5> QED
          BY <1>3, <1>6, <1>7, <1>8, <3>1, <3>3, <5>1
      <4> QED
        BY <4>3, <4>4, <4>5
    <3>4. CASE p = None \/ l # q
      BY <1>8, <2>1, <3>1, <3>2, <3>4
    <3> QED
      BY <3>3, <3>4
  <2> QED
    BY <2>1 DEF Nested
<1>14. FieldsNoted'
  <2>1. s \notin noted
    BY <1>6 DEF Text, FieldsNoted
  <2>2. {"id"} = {"id"} \cup {f \in {"recorded"} : s \in noted}
    BY <2>1
  <2>3. noted' \subseteq Begun'
    BY <1>6, <1>10 DEF Text, FieldsNoted
  <2>4. ASSUME NEW l \in Below
        PROVE  sub_spans'[l].fields = {"id"} \cup {f \in {"recorded"} : sub_spans'[l].name \in noted'}
    <3>1. sub_spans[l].fields = {"id"} \cup {f \in {"recorded"} : sub_spans[l].name \in noted}
      BY DEF Text, FieldsNoted
    <3>2. sub_spans'[l].name = sub_spans[l].name /\ sub_spans'[l].fields = sub_spans[l].fields
      BY <1>8, <1>11
    <3>3. noted' = noted
      BY <1>6
    <3> QED
      BY <3>1, <3>2, <3>3
  <2>5. sub_spans'[k].fields = {"id"} \cup {f \in {"recorded"} : sub_spans'[k].name \in noted'}
    BY <1>6, <1>8, <2>2
  <2>6. ASSUME NEW l \in Below'
        PROVE  sub_spans'[l].fields = {"id"} \cup {f \in {"recorded"} : sub_spans'[l].name \in noted'}
    <3>1. l \in Below \/ l = k
      BY <1>10
    <3> QED
      BY <2>4, <2>5, <3>1
  <2> QED
    BY <2>3, <2>6 DEF FieldsNoted
<1>15. Entered'
  <2>1. \A u \in Begun : \E l \in Below : sub_spans'[l].name = u
    BY <1>8, <1>11 DEF Text, Entered
  <2> QED
    BY <1>8, <1>10, <2>1 DEF Entered
<1>16. Signed'
  <2>1. ASSUME NEW u \in Spans, NEW n \in DOMAIN said'[u], said'[u][n].kind = "message"
        PROVE  said'[u][n].of = u
    <3>1. CASE p = None \/ u # p
      BY <1>5, <2>1, <3>1 DEF Grown, Text, Signed
    <3>2. CASE p # None /\ u = p
      <4>1. said'[p] = Append(said[p], Opened(s)) /\ said[p] \in Seq(Said)
        BY <1>5, <1>7, <3>2 DEF Grown, Text, Inv, TypeOK, Origins
      <4>2. n \in DOMAIN said[p] /\ said'[p][n] = said[p][n]
        <5>1. n \in DOMAIN said[p] \/ n = Len(said[p]) + 1
          BY <2>1, <3>2, <4>1
        <5>2. Opened(s).kind # "message"
          BY DEF Opened
        <5>3. n # Len(said[p]) + 1
          BY <2>1, <3>2, <4>1, <5>2
        <5> QED
          BY <4>1, <5>1, <5>3
      <4> QED
        BY <2>1, <3>2, <4>2 DEF Text, Signed
    <3> QED
      BY <3>1, <3>2
  <2> QED
    BY <2>1 DEF Signed
<1>17. ChildrenClosed'
  <2>1. ASSUME NEW c \in Begun \cup {s}, ParentOf[c] # None
        PROVE  /\ phase'[ParentOf[c]] # "new"
               /\ phase'[ParentOf[c]] \in Past => phase'[c] = "closed"
    <3>1. CASE c = s
      <4>1. p \in Spans /\ p = ParentOf[c] /\ phase[p] = "open" /\ p # s
        BY <1>3, <1>6, <1>7, <2>1, <3>1
      <4>2. phase'[p] = "open"
        BY <1>6, <1>9, <4>1
      <4> QED
        BY <4>1, <4>2 DEF Past
    <3>2. CASE c \in Begun
      <4>1. PICK r \in Spans : r = ParentOf[c]
        BY <2>1, <3>2 DEF Begun
      <4>2. phase[r] # "new" /\ (phase[r] \in Past => phase[c] = "closed")
        BY <2>1, <3>2, <4>1 DEF Text, ChildrenClosed
      <4>3. r # s /\ c # s /\ c \in Spans
        BY <1>6, <3>2, <4>2 DEF Begun
      <4>4. phase'[r] = phase[r] /\ phase'[c] = phase[c]
        BY <1>6, <1>9, <4>3
      <4> QED
        BY <4>1, <4>2, <4>4
    <3> QED
      BY <3>1, <3>2
  <2> QED
    BY <1>10, <2>1 DEF ChildrenClosed
<1>18. Frozen
  <2>1. ASSUME NEW l \in Below, phase[sub_spans[l].name] \in Past
        PROVE  /\ phase'[sub_spans[l].name] \in Past
               /\ p = None \/ l # q
    <3>1. sub_spans[l].name \in Spans /\ sub_spans[l].name # s
      BY <1>6, <1>12 DEF Begun
    <3>2. phase'[sub_spans[l].name] = phase[sub_spans[l].name]
      BY <1>6, <1>9, <3>1
    <3> QED
      BY <1>7, <2>1, <3>2 DEF Past
  <2> QED
    BY <1>8, <1>11, <2>1 DEF Frozen
<1> QED
  BY <1>1, <1>13, <1>14, <1>15, <1>16, <1>17, <1>18 DEF Text

LEMMA TextInit == Init => Text
<1> SUFFICES ASSUME Init PROVE Text
  OBVIOUS
<1>1. Inv
  BY InitInv
<1>2. Begun = {}
  BY DEF Init, Begun
<1>3. Below = {}
  BY DEF Init, Below, SpanIds
<1>4. Nested
  BY DEF Init, Nested, NoEntry
<1>5. FieldsNoted /\ Entered /\ ChildrenClosed
  BY <1>2, <1>3 DEF Init, FieldsNoted, Entered, ChildrenClosed
<1>6. Signed
  BY DEF Init, Signed, Origins
<1> QED
  BY <1>1, <1>4, <1>5, <1>6 DEF Text

LEMMA TextNext == Text /\ [Next]_vars => Text' /\ Frozen /\ next_span_id <= next_span_id'
<1> SUFFICES ASSUME Text, [Next]_vars PROVE Text' /\ Frozen /\ next_span_id <= next_span_id'
  OBVIOUS
<1>1. next_span_id \in Nat
  BY TextType
<1>2. next_span_id' \in {next_span_id, next_span_id + 1}
  BY DEF Next, vars, maps, OnRootEvent, OnEvent, OnNewSpan, OnRecord, PrintSpanIfTest,
         StringQuery, Eprintln, OnClose
<1>3. CASE Next
  BY <1>1, <1>2, <1>3, RootEventText, EventText, NewSpanText, RecordText, PrintText, CloseText
     DEF Next
<1>4. CASE UNCHANGED vars
  <2>1. UNCHANGED <<phase, sub_spans, next_span_id, noted, said>>
    BY <1>4 DEF vars, maps, history
  <2>2. Inv'
    <3>1. TypeOK'
      BY <1>4 DEF vars, maps, cache, closing, history, Text, Inv, TypeOK
    <3> QED
      BY <1>4, <3>1, Undisturbed DEF Text, vars, maps, history
  <2>3. FieldsNoted'
    BY <2>1 DEF Text, FieldsNoted, Below, Begun
  <2> QED
    BY <1>1, <2>1, <2>2, <2>3, TextKept
<1> QED
  BY <1>3, <1>4

-----------------------------------------------------------------------------
(* What is printed *)

TestsListed == test_spans = {k \in Below : sub_spans[k].name \in TestNamed}

(* No span is asked for twice, so the last string never answers.           *)
AskedOnce ==
  last_query # None =>
    last_query \in Below /\ phase[sub_spans[last_query].name] \in {"made", "printed", "closed"}

StringsMade ==
  /\ DOMAIN string = Spans
  /\ \A s \in Spans :
       /\ phase[s] \in {"found", "made"} => s \in TestNamed
       /\ phase[s] = "found" => found[s] \in Below /\ sub_spans[found[s]].name = s
       /\ phase[s] = "made" => string[s] = Alone(s)

Shown(s) == {i \in DOMAIN stderr : stderr[i][1].of = s}
Printed ==
  /\ stderr \in Seq(Seq(Rows))
  /\ \A i \in DOMAIN stderr :
       \/ \E n \in 1 .. Count(Root) : stderr[i] = <<Line(Root, n)>>
       \/ \E s \in TestNamed : phase[s] \in {"printed", "closed"} /\ stderr[i] = Alone(s)
  /\ \A s \in TestNamed :
       Cardinality(Shown(s)) = IF phase[s] \in {"printed", "closed"} THEN 1 ELSE 0

Output == Text /\ TestsListed /\ AskedOnce /\ StringsMade /\ Printed

LEMMA OutputInit == Init => Output
<1> SUFFICES ASSUME Init PROVE Output
  OBVIOUS
<1>1. Text
  BY TextInit
<1>2. TestsListed /\ AskedOnce /\ StringsMade
  BY DEF Init, TestsListed, AskedOnce, StringsMade, Below, SpanIds
<1>3. Printed
  <2>1. \A s \in TestNamed : Shown(s) = {} /\ phase[s] = "new"
    BY DEF Init, Shown
  <2>2. stderr \in Seq(Seq(Rows)) /\ DOMAIN stderr = {}
    BY DEF Init
  <2> QED
    BY <2>1, <2>2, FS_EmptySet DEF Printed
<1> QED
  BY <1>1, <1>2, <1>3 DEF Output

(* A log begins with the title of its span.                                *)
LEMMA AloneShape ==
  ASSUME Text, NEW s \in Begun
  PROVE  Alone(s) \in Seq(Rows) /\ Alone(s)[1].of = s
<1>1. PICK k \in Below : sub_spans[k].name = s
  BY DEF Text, Entered
<1>2. k \in SpanIds /\ Descending(sub_spans) /\ sub_spans \in [SpanIds -> Entries]
  BY TextType DEF Below
<1>3. Alone(s) = Printing(sub_spans)[k]
  BY <1>1, AloneIsPrinted, PrintSpanIs DEF LogsAsAlone
<1>4. Alone(s) \in Seq(Rows) /\ Alone(s)[1] = Title(s, sub_spans[k].fields)
  BY <1>1, <1>2, <1>3, PrintingRows
<1> QED
  BY <1>4 DEF Title

(* What every step does to the spans, and to what they would print alone.  *)
Onward == Text /\ Text' /\ Frozen /\ next_span_id <= next_span_id'

LEMMA Goes == Text /\ [Next]_vars => Onward
  BY TextNext DEF Onward

LEMMA Settled ==
  ASSUME Onward, NEW s \in Spans, phase[s] \in Past
  PROVE  Alone(s)' = Alone(s) /\ s \in Begun
<1>1. s \in Begun
  BY DEF Begun, Past
<1>2. PICK k \in Below : sub_spans[k].name = s
  BY <1>1 DEF Onward, Text, Entered
<1>3. sub_spans'[k].name = s /\ phase[sub_spans[k].name] \in Past
  BY <1>2 DEF Onward, Frozen
<1>4. Alone(sub_spans[k].name)' = Alone(sub_spans[k].name)
  BY <1>3, StoryKept DEF Onward
<1>5. \A t : Alone(t) = Story[t]
  BY AloneIs
<1>6. Alone(sub_spans[k].name)' = Story'[sub_spans'[k].name]
  BY DEF Alone, Story, Telling, Told
<1>7. Alone(s)' = Story'[s]
  BY DEF Alone, Story, Telling, Told
<1>8. Alone(sub_spans[k].name) = Alone(s)
  BY <1>2, <1>5
<1> QED
  BY <1>1, <1>3, <1>4, <1>6, <1>7, <1>8

LEMMA AskedKept ==
  ASSUME Onward, AskedOnce, UNCHANGED last_query,
         \A s \in Spans : phase[s] \in {"made", "printed", "closed"}
                            => phase'[s] \in {"made", "printed", "closed"}
  PROVE  AskedOnce'
<1> SUFFICES ASSUME last_query # None
             PROVE  last_query \in Below'
                    /\ phase'[sub_spans'[last_query].name] \in {"made", "printed", "closed"}
  BY DEF AskedOnce
<1>1. last_query \in Below /\ phase[sub_spans[last_query].name] \in {"made", "printed", "closed"}
  BY DEF AskedOnce
<1>2. sub_spans[last_query].name \in Spans
  BY <1>1, TextType DEF Onward, Begun
<1>3. sub_spans'[last_query].name = sub_spans[last_query].name
  BY <1>1 DEF Onward, Frozen, Past
<1>4. next_span_id \in Nat /\ next_span_id' \in Nat
  BY DEF Onward, Text, Inv, TypeOK
<1>5. last_query \in Below'
  BY <1>1, <1>4 DEF Onward, Below, SpanIds
<1> QED
  BY <1>1, <1>2, <1>3, <1>5

LEMMA StringsKept ==
  ASSUME Onward, StringsMade, UNCHANGED closing,
         \A s \in Spans : phase'[s] \in {"found", "made"} => phase[s] = phase'[s]
  PROVE  StringsMade'
<1>1. found' = found /\ string' = string
  BY DEF closing
<1>2. ASSUME NEW s \in Spans
      PROVE  /\ phase'[s] \in {"found", "made"} => s \in TestNamed
             /\ phase'[s] = "found" => found'[s] \in Below' /\ sub_spans'[found'[s]].name = s
             /\ phase'[s] = "made" => string'[s] = Alone(s)'
  <2>1. phase'[s] \in {"found", "made"} => s \in TestNamed
    BY DEF StringsMade
  <2>2. ASSUME phase'[s] = "found"
        PROVE  found'[s] \in Below' /\ sub_spans'[found'[s]].name = s
    <3>1. PICK k \in Below : k = found[s] /\ sub_spans[k].name = s
      BY <2>2 DEF StringsMade
    <3>2. sub_spans'[k].name = s
      BY <2>2, <3>1 DEF Onward, Frozen, Past
    <3>3. next_span_id \in Nat /\ next_span_id' \in Nat
      BY DEF Onward, Text, Inv, TypeOK
    <3>4. k \in Below'
      BY <3>1, <3>3 DEF Onward, Below, SpanIds
    <3> QED
      BY <1>1, <3>1, <3>2, <3>4
  <2>3. ASSUME phase'[s] = "made" PROVE string'[s] = Alone(s)'
    <3>1. phase[s] = "made"
      BY <2>3
    <3>2. Alone(s)' = Alone(s)
      BY <3>1, Settled DEF Past
    <3> QED
      BY <1>1, <3>1, <3>2 DEF StringsMade
  <2> QED
    BY <2>1, <2>2, <2>3
<1> QED
  BY <1>1, <1>2 DEF StringsMade

CountOfRoot == Count(Root) \in Nat
LEMMA RootCounted == Inv => CountOfRoot
  BY CountType DEF CountOfRoot, Origins

LEMMA PrintedKept ==
  ASSUME Onward, Printed, UNCHANGED stderr, Count(Root) <= Count(Root)',
         \A s \in TestNamed : phase'[s] \in {"printed", "closed"} <=> phase[s] \in {"printed", "closed"}
  PROVE  Printed'
<1>1. Count(Root) \in Nat
  BY CountType DEF Onward, Text, Origins
<1>2. Count(Root)' \in Nat
  <2>1. (Inv => CountOfRoot)'
    BY RootCounted, PTL
  <2> QED
    BY <2>1 DEF Onward, Text, CountOfRoot
<1>3. ASSUME NEW i \in DOMAIN stderr
      PROVE  \/ \E n \in 1 .. Count(Root)' : stderr[i] = <<Line(Root, n)>>
             \/ \E s \in TestNamed : phase'[s] \in {"printed", "closed"} /\ stderr[i] = Alone(s)'
  <2>1. CASE \E n \in 1 .. Count(Root) : stderr[i] = <<Line(Root, n)>>
    <3>1. PICK n \in 1 .. Count(Root) : stderr[i] = <<Line(Root, n)>>
      BY <2>1
    <3>2. n \in 1 .. Count(Root)'
      BY <1>1, <1>2, <3>1
    <3> QED
      BY <3>1, <3>2
  <2>2. CASE \E s \in TestNamed : phase[s] \in {"printed", "closed"} /\ stderr[i] = Alone(s)
    <3>1. PICK s \in TestNamed : phase[s] \in {"printed", "closed"} /\ stderr[i] = Alone(s)
      BY <2>2
    <3>2. Alone(s)' = Alone(s)
      BY <3>1, Settled DEF Past
    <3> QED
      BY <3>1, <3>2
  <2> QED
    BY <2>1, <2>2 DEF Printed
<1>4. \A s : Shown(s)' = Shown(s)
  BY DEF Shown
<1> QED
  BY <1>3, <1>4 DEF Printed

(* A line or a log more on stderr.                                         *)
LEMMA ShownMore ==
  ASSUME Printed, NEW x \in Seq(Rows), stderr' = Append(stderr, x)
  PROVE  /\ stderr' \in Seq(Seq(Rows))
         /\ \A i \in DOMAIN stderr' :
              (i \in DOMAIN stderr /\ stderr'[i] = stderr[i]) \/ stderr'[i] = x
         /\ \A s : x[1].of # s => Shown(s)' = Shown(s)
         /\ \A s : x[1].of = s => Cardinality(Shown(s))' = Cardinality(Shown(s)) + 1
<1>1. PICK n : n = Len(stderr) + 1
  OBVIOUS
<1>2. stderr \in Seq(Seq(Rows)) /\ Len(stderr) \in Nat /\ DOMAIN stderr = 1 .. Len(stderr)
  BY DEF Printed
<1>3. /\ stderr' \in Seq(Seq(Rows))
      /\ DOMAIN stderr' = 1 .. n /\ stderr'[n] = x
      /\ \A i \in 1 .. Len(stderr) : stderr'[i] = stderr[i]
  <2> HIDE DEF Rows
  <2> QED BY <1>1, <1>2
<1>4. n \notin DOMAIN stderr /\ DOMAIN stderr' = DOMAIN stderr \cup {n}
  BY <1>1, <1>2, <1>3
<1>5. \A i \in DOMAIN stderr : stderr'[i] = stderr[i]
  BY <1>2, <1>3
<1>6. \A s : x[1].of # s => Shown(s)' = Shown(s)
  BY <1>3, <1>4, <1>5 DEF Shown
<1>7. \A s : x[1].of = s => Shown(s)' = Shown(s) \cup {n} /\ n \notin Shown(s)
  BY <1>3, <1>4, <1>5 DEF Shown
<1>8. \A s : IsFiniteSet(Shown(s))
  <2>1. IsFiniteSet(1 .. Len(stderr))
    BY <1>2, FS_Interval
  <2>2. \A s : Shown(s) \subseteq 1 .. Len(stderr)
    BY <1>2 DEF Shown
  <2> QED
    BY <2>1, <2>2, FS_Subset
<1>9. ASSUME NEW s, x[1].of = s PROVE Cardinality(Shown(s))' = Cardinality(Shown(s)) + 1
  BY <1>7, <1>8, <1>9, FS_AddElement
<1> QED
  BY <1>3, <1>4, <1>5, <1>6, <1>9

-----------------------------------------------------------------------------
(* Every step keeps Output.                                                *)

LEMMA TestsKept ==
  ASSUME TestsListed, UNCHANGED <<test_spans, next_span_id>>,
         \A k \in SpanIds : sub_spans'[k].name = sub_spans[k].name
  PROVE  TestsListed'
  BY DEF TestsListed, Below

(* Steps that print nothing and ask for nothing.                           *)
LEMMA OutputKept ==
  ASSUME Output, Onward, UNCHANGED <<stderr, closing, last_query>>,
         TestsListed', Count(Root) <= Count(Root)',
         \A s \in Spans :
           \/ phase'[s] = phase[s]
           \/ phase[s] = "new" /\ phase'[s] = "open"
           \/ phase[s] = "printed" /\ phase'[s] = "closed"
           \/ phase[s] = "open" /\ phase'[s] = "printed" /\ s \notin TestNamed
  PROVE  Output'
<1>1. AskedOnce'
  <2>1. \A s \in Spans : phase[s] \in {"made", "printed", "closed"}
                           => phase'[s] \in {"made", "printed", "closed"}
    OBVIOUS
  <2> QED
    BY <2>1, AskedKept DEF Output
<1>2. StringsMade'
  <2>1. \A s \in Spans : phase'[s] \in {"found", "made"} => phase[s] = phase'[s]
    OBVIOUS
  <2> QED
    BY <2>1, StringsKept DEF Output
<1>3. Printed'
  <2>1. \A s \in TestNamed : phase'[s] \in {"printed", "closed"} <=> phase[s] \in {"printed", "closed"}
    OBVIOUS
  <2> QED
    BY <2>1, PrintedKept DEF Output
<1> QED
  BY <1>1, <1>2, <1>3 DEF Output, Onward

LEMMA SameCount ==
  ASSUME Inv, said'[Root] = said[Root]
  PROVE  Count(Root) <= Count(Root)'
<1>1. Count(Root)' = Count(Root)
  BY DEF Count
<1> QED
  BY <1>1, RootCounted DEF CountOfRoot

LEMMA EventOutput ==
  \A s \in Spans : Output /\ OnEvent(s) /\ Onward => Output'
<1> SUFFICES ASSUME NEW s \in Spans, Output, OnEvent(s), Onward PROVE Output'
  OBVIOUS
<1>1. UNCHANGED <<phase, stderr, closing, last_query, test_spans, next_span_id>>
  BY DEF OnEvent
<1>2. PICK k : k = live_spans[id[s]]
  OBVIOUS
<1>3. PICK m : m = Message(s, Count(s) + 1)
  OBVIOUS
<1>4. /\ sub_spans' = [sub_spans EXCEPT ![k].events = Append(@, m)]
      /\ said' = [said EXCEPT ![s] = Append(@, m)]
  BY <1>2, <1>3 DEF OnEvent, EventSpan
<1>5. PICK e : e = Append(sub_spans[k].events, m)
  OBVIOUS
<1>6. sub_spans' = [sub_spans EXCEPT ![k].events = e] /\ sub_spans \in [SpanIds -> Entries]
  BY <1>4, <1>5 DEF Onward, Text, Inv, TypeOK
<1>7. \A l \in SpanIds : sub_spans'[l].name = sub_spans[l].name
  BY <1>6 DEF Entries
<1>8. TestsListed'
  BY <1>1, <1>7, TestsKept DEF Output
<1>9. said'[Root] = said[Root]
  BY <1>4 DEF Onward, Text, Inv, TypeOK, Origins
<1>10. Count(Root) <= Count(Root)'
  BY <1>9, SameCount DEF Onward, Text
<1> QED
  BY <1>1, <1>8, <1>10, OutputKept

LEMMA RecordOutput ==
  \A s \in Spans : Output /\ OnRecord(s) /\ Onward => Output'
<1> SUFFICES ASSUME NEW s \in Spans, Output, OnRecord(s), Onward PROVE Output'
  OBVIOUS
<1>1. UNCHANGED <<phase, stderr, closing, last_query, test_spans, next_span_id, said>>
  BY DEF OnRecord, cache
<1>2. PICK k : k = live_spans[id[s]]
  OBVIOUS
<1>3. PICK e : e = sub_spans[k].fields \cup {"recorded"}
  OBVIOUS
<1>4. sub_spans' = [sub_spans EXCEPT ![k].fields = e] /\ sub_spans \in [SpanIds -> Entries]
  BY <1>2, <1>3 DEF OnRecord, Onward, Text, Inv, TypeOK
<1>5. \A l \in SpanIds : sub_spans'[l].name = sub_spans[l].name
  BY <1>4 DEF Entries
<1>6. TestsListed'
  BY <1>1, <1>5, TestsKept DEF Output
<1>7. Count(Root) <= Count(Root)'
  BY <1>1, SameCount DEF Onward, Text
<1> QED
  BY <1>1, <1>6, <1>7, OutputKept

LEMMA CloseOutput ==
  \A s \in Spans : Output /\ OnClose(s) /\ Onward => Output'
<1> SUFFICES ASSUME NEW s \in Spans, Output, OnClose(s), Onward PROVE Output'
  OBVIOUS
<1>1. /\ UNCHANGED <<stderr, closing, last_query, test_spans, next_span_id, said>>
      /\ phase[s] = "printed" /\ phase' = [phase EXCEPT ![s] = "closed"]
  BY DEF OnClose, cache, history
<1>2. PICK k : k = live_spans[id[s]]
  OBVIOUS
<1>3. /\ sub_spans' = sub_spans \/ sub_spans' = [sub_spans EXCEPT ![k].destroyed = TRUE]
      /\ sub_spans \in [SpanIds -> Entries]
  BY <1>2 DEF OnClose, Onward, Text, Inv, TypeOK
<1>4. \A l \in SpanIds : sub_spans'[l].name = sub_spans[l].name
  BY <1>3 DEF Entries
<1>5. TestsListed'
  BY <1>1, <1>4, TestsKept DEF Output
<1>6. Count(Root) <= Count(Root)'
  BY <1>1, SameCount DEF Onward, Text
<1>7. \A u \in Spans : phase'[u] = phase[u] \/ (phase[u] = "printed" /\ phase'[u] = "closed")
  <2>1. phase \in [Spans -> Open \cup Closed \cup {"new"}]
    BY DEF Onward, Text, Inv, TypeOK
  <2> QED
    BY <1>1, <2>1
<1> QED
  BY <1>1, <1>5, <1>6, <1>7, OutputKept

LEMMA NewSpanOutput ==
  \A s \in Spans, i \in Ids : Output /\ OnNewSpan(s, i) /\ Onward => Output'
<1> SUFFICES ASSUME NEW s \in Spans, NEW i \in Ids, Output, OnNewSpan(s, i), Onward PROVE Output'
  OBVIOUS
<1>1. PICK k, p, q : k = next_span_id /\ p = ParentOf[s] /\ q = live_spans[id[ParentOf[s]]]
  OBVIOUS
<1>2. Grown(s, i, k, p, q)
  BY <1>1, NewSpanEffect DEF Onward, Text
<1>3. /\ UNCHANGED <<stderr, closing, last_query>>
      /\ phase[s] = "new" /\ phase' = [phase EXCEPT ![s] = "open"]
      /\ k \in SpanIds /\ k \in Nat /\ next_span_id' = k + 1
      /\ sub_spans'[k].name = s
      /\ \A l \in SpanIds \ {k} : sub_spans'[l].name = sub_spans[l].name
      /\ test_spans' = IF s \in TestNamed THEN test_spans \cup {k} ELSE test_spans
  BY <1>2 DEF Grown, cache
<1>4. TestsListed'
  <2>1. Below' = Below \cup {k} /\ k \notin Below
    BY <1>1, <1>3 DEF Below, SpanIds
  <2>2. \A l \in Below : l \in SpanIds \ {k}
    BY <2>1 DEF Below
  <2> QED
    BY <1>3, <2>1, <2>2 DEF Output, TestsListed
<1>5. Count(Root) <= Count(Root)'
  <2>1. CASE p = None
    <3>1. said[Root] \in Seq(Said) /\ said'[Root] = Append(said[Root], Opened(s))
      BY <1>2, <2>1 DEF Grown, Onward, Text, Inv, TypeOK, Origins
    <3>2. Opened(s).kind # "message"
      BY DEF Opened
    <3>3. {n \in DOMAIN said'[Root] : said'[Root][n].kind = "message"}
          = {n \in DOMAIN said[Root] : said[Root][n].kind = "message"}
      <4>1. PICK o : o = Opened(s)
        OBVIOUS
      <4>2. \A n \in DOMAIN said'[Root] : n \in DOMAIN said[Root] \/ said'[Root][n] = o
        BY <3>1, <4>1
      <4>3. \A n \in DOMAIN said[Root] : n \in DOMAIN said'[Root] /\ said'[Root][n] = said[Root][n]
        BY <3>1
      <4> QED
        BY <3>2, <4>1, <4>2, <4>3
    <3>4. Count(Root)' = Count(Root)
      BY <3>3 DEF Count
    <3>5. Count(Root) \in Nat
      BY RootCounted DEF CountOfRoot, Onward, Text
    <3> QED
      BY <3>4, <3>5
  <2>2. CASE p # None
    <3>1. said'[Root] = said[Root]
      BY <1>2, <2>2 DEF Grown, Onward, Text, Inv, TypeOK, Origins
    <3> QED
      BY <3>1, SameCount DEF Onward, Text
  <2> QED
    BY <2>1, <2>2
<1>6. \A u \in Spans : phase'[u] = phase[u] \/ (phase[u] = "new" /\ phase'[u] = "open")
  <2>1. phase \in [Spans -> Open \cup Closed \cup {"new"}]
    BY DEF Onward, Text, Inv, TypeOK
  <2> QED
    BY <1>3, <2>1
<1> QED
  BY <1>3, <1>4, <1>5, <1>6, OutputKept

(* An event of no span is one more message of the root, and one more line. *)
LEMMA RootEventOutput == Output /\ OnRootEvent /\ Onward => Output'
<1> SUFFICES ASSUME Output, OnRootEvent, Onward PROVE Output'
  OBVIOUS
<1>1. PICK n : n = Count(Root) + 1
  OBVIOUS
<1>2. n \in Nat /\ Count(Root) \in Nat
  BY <1>1, RootCounted DEF CountOfRoot, Onward, Text
<1>3. PICK m : m = Message(Root, n)
  OBVIOUS
<1>4. m.kind = "message" /\ m.n = n
  BY <1>3 DEF Message
<1>5. /\ stderr' = Append(stderr, <<Line(Root, n)>>)
      /\ said' = [said EXCEPT ![Root] = Append(@, m)]
      /\ UNCHANGED <<phase, sub_spans, test_spans, next_span_id, closing, last_query>>
  BY <1>1, <1>3, <1>4 DEF OnRootEvent, maps
<1>6. Count(Root)' = n
  <2>1. said[Root] \in Seq(Said) /\ said'[Root] = Append(said[Root], m)
    BY <1>5 DEF Onward, Text, Inv, TypeOK, Origins
  <2>2. PICK l : l = Len(said[Root]) + 1
    OBVIOUS
  <2>3. /\ l \notin DOMAIN said[Root] /\ DOMAIN said'[Root] = DOMAIN said[Root] \cup {l}
        /\ said'[Root][l] = m
        /\ \A i \in DOMAIN said[Root] : said'[Root][i] = said[Root][i]
        /\ Len(said[Root]) \in Nat /\ DOMAIN said[Root] = 1 .. Len(said[Root])
    BY <2>1, <2>2
  <2>4. PICK M : M = {i \in DOMAIN said[Root] : said[Root][i].kind = "message"}
    OBVIOUS
  <2>5. {i \in DOMAIN said'[Root] : said'[Root][i].kind = "message"} = M \cup {l} /\ l \notin M
    BY <1>4, <2>3, <2>4
  <2>6. IsFiniteSet(M)
    <3>1. IsFiniteSet(1 .. Len(said[Root])) /\ M \subseteq 1 .. Len(said[Root])
      BY <2>3, <2>4, FS_Interval
    <3> QED
      BY <3>1, FS_Subset
  <2>7. Cardinality(M \cup {l}) = Cardinality(M) + 1
    BY <2>5, <2>6, FS_AddElement
  <2>8. Count(Root) = Cardinality(M)
    BY <2>4 DEF Count
  <2>9. Count(Root)' = Cardinality(M \cup {l})
    BY <2>5 DEF Count
  <2> QED
    BY <1>1, <2>7, <2>8, <2>9
<1>7. TestsListed'
  BY <1>5, TestsKept DEF Output
<1>8. AskedOnce'
  BY <1>5, AskedKept DEF Output
<1>9. StringsMade'
  BY <1>5, StringsKept DEF Output
<1>10. Printed'
  <2>1. PICK r : r = Line(Root, n)
    OBVIOUS
  <2>2. r \in Rows /\ r.of = Root
    BY <1>2, <2>1 DEF Line, Rows, Origins
  <2>3. PICK x : x = <<r>>
    OBVIOUS
  <2>4. x \in Seq(Rows) /\ x[1].of = Root
    <3> HIDE DEF Rows
    <3> QED BY <2>2, <2>3
  <2>5. stderr' = Append(stderr, x) /\ Printed
    BY <1>5, <2>1, <2>3 DEF Output
  <2>6. /\ stderr' \in Seq(Seq(Rows))
        /\ \A i \in DOMAIN stderr' :
             (i \in DOMAIN stderr /\ stderr'[i] = stderr[i]) \/ stderr'[i] = x
        /\ \A s : Root # s => Shown(s)' = Shown(s)
    BY <2>4, <2>5, ShownMore
  <2>7. ASSUME NEW i \in DOMAIN stderr'
        PROVE  \/ \E j \in 1 .. Count(Root)' : stderr'[i] = <<Line(Root, j)>>
               \/ \E s \in TestNamed : phase'[s] \in {"printed", "closed"} /\ stderr'[i] = Alone(s)'
    <3>1. CASE stderr'[i] = x
      <4>1. n \in 1 .. Count(Root)'
        BY <1>1, <1>2, <1>6
      <4> QED
        BY <2>1, <2>3, <3>1, <4>1
    <3>2. CASE i \in DOMAIN stderr /\ stderr'[i] = stderr[i]
      <4>1. CASE \E j \in 1 .. Count(Root) : stderr[i] = <<Line(Root, j)>>
        <5>1. PICK j \in 1 .. Count(Root) : stderr[i] = <<Line(Root, j)>>
          BY <4>1
        <5>2. j \in 1 .. Count(Root)'
          BY <1>1, <1>2, <1>6, <5>1
        <5> QED
          BY <3>2, <5>1, <5>2
      <4>2. CASE \E s \in TestNamed : phase[s] \in {"printed", "closed"} /\ stderr[i] = Alone(s)
        <5>1. PICK s \in TestNamed : phase[s] \in {"printed", "closed"} /\ stderr[i] = Alone(s)
          BY <4>2
        <5>2. Alone(s)' = Alone(s)
          BY <5>1, Settled DEF Past
        <5> QED
          BY <1>5, <3>2, <5>1, <5>2
      <4> QED
        BY <2>5, <3>2, <4>1, <4>2 DEF Printed
    <3> QED
      BY <2>6, <3>1, <3>2
  <2>8. ASSUME NEW s \in TestNamed
        PROVE  Cardinality(Shown(s))' = IF phase'[s] \in {"printed", "closed"} THEN 1 ELSE 0
    <3>1. Shown(s)' = Shown(s)
      BY <2>6
    <3>2. Cardinality(Shown(s)) = IF phase[s] \in {"printed", "closed"} THEN 1 ELSE 0
      BY <2>5 DEF Printed
    <3> QED
      BY <1>5, <3>1, <3>2
  <2> QED
    BY <2>6, <2>7, <2>8 DEF Printed
<1> QED
  BY <1>7, <1>8, <1>9, <1>10 DEF Output, Onward

LEMMA IfTestOutput ==
  \A s \in Spans : Output /\ PrintSpanIfTest(s) /\ Onward => Output'
<1> SUFFICES ASSUME NEW s \in Spans, Output, PrintSpanIfTest(s), Onward PROVE Output'
  OBVIOUS
<1>1. PICK k : k = live_spans[id[s]]
  OBVIOUS
<1>2. /\ phase[s] = "open" /\ found' = [found EXCEPT ![s] = k]
      /\ phase' = [phase EXCEPT ![s] = IF k \in test_spans THEN "found" ELSE "printed"]
      /\ UNCHANGED <<sub_spans, test_spans, next_span_id, last_query, string, stderr, said>>
  BY <1>1 DEF PrintSpanIfTest, CanClose, maps, cache, history
<1>3. k \in Below /\ sub_spans[k].name = s
  BY <1>1, <1>2, OpenEntry DEF Onward, Text, Below, Open
<1>4. k \in test_spans <=> s \in TestNamed
  BY <1>3 DEF Output, TestsListed
<1>5. phase \in [Spans -> Open \cup Closed \cup {"new"}] /\ found \in [Spans -> SpanIds \cup {None}]
  BY DEF Onward, Text, Inv, TypeOK
<1>6. /\ phase'[s] = IF s \in TestNamed THEN "found" ELSE "printed"
      /\ found'[s] = k
      /\ \A u \in Spans \ {s} : phase'[u] = phase[u] /\ found'[u] = found[u]
  BY <1>2, <1>4, <1>5
<1>7. TestsListed'
  BY <1>2, TestsKept DEF Output
<1>8. AskedOnce'
  BY <1>2, <1>6, AskedKept DEF Output
<1>9. StringsMade'
  <2>1. ASSUME NEW u \in Spans
        PROVE  /\ phase'[u] \in {"found", "made"} => u \in TestNamed
               /\ phase'[u] = "found" => found'[u] \in Below' /\ sub_spans'[found'[u]].name = u
               /\ phase'[u] = "made" => string'[u] = Alone(u)'
    <3>1. CASE u = s
      <4>1. k \in Below' /\ sub_spans'[k].name = s
        BY <1>2, <1>3 DEF Below
      <4> QED
        BY <1>6, <3>1, <4>1
    <3>2. CASE u # s
      <4>1. phase'[u] = phase[u] /\ found'[u] = found[u] /\ string'[u] = string[u]
        BY <1>2, <1>6, <3>2
      <4>2. Below' = Below
        BY <1>2 DEF Below
      <4>3. phase[u] = "made" => Alone(u)' = Alone(u)
        BY Settled DEF Past
      <4> QED
        BY <1>2, <4>1, <4>2, <4>3 DEF Output, StringsMade
    <3> QED
      BY <3>1, <3>2
  <2>2. DOMAIN string' = Spans
    BY <1>2 DEF Output, StringsMade
  <2> QED
    BY <2>1, <2>2 DEF StringsMade
<1>10. Printed'
  <2>1. Count(Root) <= Count(Root)'
    BY <1>2, SameCount DEF Onward, Text
  <2>2. \A u \in TestNamed : phase'[u] \in {"printed", "closed"} <=> phase[u] \in {"printed", "closed"}
    BY <1>2, <1>6
  <2> QED
    BY <1>2, <2>1, <2>2, PrintedKept DEF Output
<1> QED
  BY <1>7, <1>8, <1>9, <1>10 DEF Output, Onward

(* The answer is made anew, since no other query is for this span.         *)
LEMMA QueryOutput ==
  \A s \in Spans : Output /\ StringQuery(s) /\ Onward => Output'
<1> SUFFICES ASSUME NEW s \in Spans, Output, StringQuery(s), Onward PROVE Output'
  OBVIOUS
<1>1. PICK k : k = found[s]
  OBVIOUS
<1>2. PICK a : a = Answer(k)
  OBVIOUS
<1>3. /\ phase[s] = "found" /\ phase' = [phase EXCEPT ![s] = "made"]
      /\ string' = [string EXCEPT ![s] = a]
      /\ last_query' = k
      /\ UNCHANGED <<sub_spans, test_spans, next_span_id, found, stderr, said>>
  BY <1>1, <1>2 DEF StringQuery, maps, history
<1>4. k \in Below /\ sub_spans[k].name = s /\ s \in TestNamed
  BY <1>1, <1>3 DEF Output, StringsMade
<1>5. ~ Cached(k)
  <2>1. k # None
    BY <1>4 DEF Below
  <2>2. k # last_query
    BY <1>3, <1>4, <2>1 DEF Output, AskedOnce
  <2> QED
    BY <2>2 DEF Cached
<1>6. a = Alone(s)
  <2>1. a = PrintSpan(k)
    BY <1>2, <1>5 DEF Answer
  <2> QED
    BY <1>4, <2>1, AloneIsPrinted DEF LogsAsAlone, Onward
<1>7. phase \in [Spans -> Open \cup Closed \cup {"new"}]
  BY DEF Onward, Text, Inv, TypeOK
<1>8. phase'[s] = "made" /\ \A u \in Spans \ {s} : phase'[u] = phase[u]
  BY <1>3, <1>7
<1>9. TestsListed'
  BY <1>3, TestsKept DEF Output
<1>10. AskedOnce'
  <2>1. k \in Below' /\ sub_spans'[k].name = s
    BY <1>3, <1>4 DEF Below
  <2> QED
    BY <1>3, <1>8, <2>1 DEF AskedOnce
<1>11. StringsMade'
  <2>1. ASSUME NEW u \in Spans
        PROVE  /\ phase'[u] \in {"found", "made"} => u \in TestNamed
               /\ phase'[u] = "found" => found'[u] \in Below' /\ sub_spans'[found'[u]].name = u
               /\ phase'[u] = "made" => string'[u] = Alone(u)'
    <3>1. CASE u = s
      <4>1. Alone(s)' = Alone(s)
        BY <1>3, Settled DEF Past
      <4>2. string'[s] = a
        BY <1>3 DEF Output, StringsMade
      <4> QED
        BY <1>4, <1>6, <1>8, <3>1, <4>1, <4>2
    <3>2. CASE u # s
      <4>1. phase'[u] = phase[u] /\ found'[u] = found[u] /\ string'[u] = string[u]
        BY <1>3, <1>8, <3>2
      <4>2. Below' = Below
        BY <1>3 DEF Below
      <4>3. phase[u] = "made" => Alone(u)' = Alone(u)
        BY Settled DEF Past
      <4> QED
        BY <1>3, <4>1, <4>2, <4>3 DEF Output, StringsMade
    <3> QED
      BY <3>1, <3>2
  <2>2. DOMAIN string' = Spans
    BY <1>3 DEF Output, StringsMade
  <2> QED
    BY <2>1, <2>2 DEF StringsMade
<1>12. Printed'
  <2>1. Count(Root) <= Count(Root)'
    BY <1>3, SameCount DEF Onward, Text
  <2>2. \A u \in TestNamed : phase'[u] \in {"printed", "closed"} <=> phase[u] \in {"printed", "closed"}
    BY <1>3, <1>8
  <2> QED
    BY <1>3, <2>1, <2>2, PrintedKept DEF Output
<1> QED
  BY <1>9, <1>10, <1>11, <1>12 DEF Output, Onward

LEMMA PrintOutput ==
  \A s \in Spans : Output /\ Eprintln(s) /\ Onward => Output'
<1> SUFFICES ASSUME NEW s \in Spans, Output, Eprintln(s), Onward PROVE Output'
  OBVIOUS
<1>1. /\ phase[s] = "made" /\ phase' = [phase EXCEPT ![s] = "printed"]
      /\ stderr' = Append(stderr, string[s])
      /\ UNCHANGED <<sub_spans, test_spans, next_span_id, last_query, closing, said>>
  BY DEF Eprintln, maps, cache, history
<1>2. PICK x : x = Alone(s)
  OBVIOUS
<1>3. s \in TestNamed /\ string[s] = x
  BY <1>1, <1>2 DEF Output, StringsMade
<1>4. s \in Begun /\ Alone(s)' = x
  BY <1>1, <1>2, Settled DEF Past
<1>5. x \in Seq(Rows) /\ x[1].of = s
  BY <1>2, <1>4, AloneShape DEF Onward
<1>6. phase \in [Spans -> Open \cup Closed \cup {"new"}]
  BY DEF Onward, Text, Inv, TypeOK
<1>7. phase'[s] = "printed" /\ \A u \in Spans \ {s} : phase'[u] = phase[u]
  BY <1>1, <1>6
<1>8. TestsListed'
  BY <1>1, TestsKept DEF Output
<1>9. AskedOnce'
  BY <1>1, <1>7, AskedKept DEF Output
<1>10. StringsMade'
  BY <1>1, <1>7, StringsKept DEF Output
<1>11. Printed'
  <2>1. stderr' = Append(stderr, x) /\ Printed
    BY <1>1, <1>3 DEF Output
  <2>2. /\ stderr' \in Seq(Seq(Rows))
        /\ \A i \in DOMAIN stderr' :
             (i \in DOMAIN stderr /\ stderr'[i] = stderr[i]) \/ stderr'[i] = x
        /\ \A u : s # u => Shown(u)' = Shown(u)
        /\ Cardinality(Shown(s))' = Cardinality(Shown(s)) + 1
    BY <1>5, <2>1, ShownMore
  <2>3. Count(Root)' = Count(Root)
    BY <1>1 DEF Count
  <2>4. ASSUME NEW i \in DOMAIN stderr'
        PROVE  \/ \E j \in 1 .. Count(Root)' : stderr'[i] = <<Line(Root, j)>>
               \/ \E u \in TestNamed : phase'[u] \in {"printed", "closed"} /\ stderr'[i] = Alone(u)'
    <3>1. CASE stderr'[i] = x
      BY <1>3, <1>4, <1>7, <3>1
    <3>2. CASE i \in DOMAIN stderr /\ stderr'[i] = stderr[i]
      <4>1. CASE \E j \in 1 .. Count(Root) : stderr[i] = <<Line(Root, j)>>
        BY <2>3, <3>2, <4>1
      <4>2. CASE \E u \in TestNamed : phase[u] \in {"printed", "closed"} /\ stderr[i] = Alone(u)
        <5>1. PICK u \in TestNamed : phase[u] \in {"printed", "closed"} /\ stderr[i] = Alone(u)
          BY <4>2
        <5>2. Alone(u)' = Alone(u)
          BY <5>1, Settled DEF Past
        <5>3. u # s
          BY <1>1, <5>1
        <5> QED
          BY <1>7, <3>2, <5>1, <5>2, <5>3
      <4> QED
        BY <2>1, <3>2, <4>1, <4>2 DEF Printed
    <3> QED
      BY <2>2, <3>1, <3>2
  <2>5. ASSUME NEW u \in TestNamed
        PROVE  Cardinality(Shown(u))' = IF phase'[u] \in {"printed", "closed"} THEN 1 ELSE 0
    <3>1. Cardinality(Shown(u)) = IF phase[u] \in {"printed", "closed"} THEN 1 ELSE 0
      BY <2>1 DEF Printed
    <3>2. CASE u = s
      <4>1. Cardinality(Shown(u)) = 0
        BY <1>1, <3>1, <3>2
      <4> QED
        BY <1>7, <2>2, <3>2, <4>1
    <3>3. CASE u # s
      BY <1>7, <2>2, <3>1, <3>3
    <3> QED
      BY <3>2, <3>3
  <2> QED
    BY <2>2, <2>4, <2>5 DEF Printed
<1> QED
  BY <1>8, <1>9, <1>10, <1>11 DEF Output, Onward

LEMMA OutputNext == Output /\ [Next]_vars => Output'
<1> SUFFICES ASSUME Output, [Next]_vars PROVE Output'
  OBVIOUS
<1>1. Onward
  BY Goes DEF Output
<1>2. CASE Next
  BY <1>1, <1>2, RootEventOutput, EventOutput, NewSpanOutput, RecordOutput, IfTestOutput,
     QueryOutput, PrintOutput, CloseOutput
     DEF Next
<1>3. CASE UNCHANGED vars
  <2>1. UNCHANGED <<phase, stderr, closing, last_query, test_spans, next_span_id, sub_spans, said>>
    BY <1>3 DEF vars, maps, cache, history
  <2>2. TestsListed'
    BY <2>1, TestsKept DEF Output
  <2>3. Count(Root) <= Count(Root)'
    BY <1>1, <2>1, SameCount DEF Onward, Text
  <2> QED
    BY <1>1, <2>1, <2>2, <2>3, OutputKept
<1> QED
  BY <1>2, <1>3

LEMMA OutputLogs == Output => LogsAsIfSequential
<1> SUFFICES ASSUME Output PROVE LogsAsIfSequential
  OBVIOUS
<1>1. ASSUME NEW i \in DOMAIN stderr
      PROVE  \/ \E n \in 1 .. Count(Root) : stderr[i] = <<Line(Root, n)>>
             \/ \E s \in TestNamed : stderr[i] = Alone(s)
  BY DEF Output, Printed
<1>2. ASSUME NEW s \in TestNamed
      PROVE  Cardinality({i \in DOMAIN stderr : stderr[i][1].of = s})
               = IF phase[s] \in {"printed", "closed"} THEN 1 ELSE 0
  BY DEF Output, Printed, Shown
<1> QED
  BY <1>1, <1>2 DEF LogsAsIfSequential

(* LogsAsIfSequential, for every nesting of spans: the logs of tests that  *)
(* ran at once are printed as if each had run alone, once each.            *)
THEOREM LogsSequential == Spec => []LogsAsIfSequential
<1>1. Spec => []Output
  BY OutputInit, OutputNext, PTL DEF Spec
<1> QED
  BY <1>1, OutputLogs, PTL
=============================================================================
