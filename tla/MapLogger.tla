----------------------------- MODULE MapLogger -----------------------------
(***************************************************************************)
(* The logger of the process (src/log.rs).  Every do_test runs in a span   *)
(* named "test"; tests log from all worker threads, and the logger keeps   *)
(* what it is told until the span of a test closes, then prints all of the *)
(* test at once.  A step is what a handler does under the lock of the      *)
(* state: on_close takes that lock three times.  The tracing registry is   *)
(* external: it hands out ids of spans, takes an id back once on_close has *)
(* returned, and closes a span after the spans opened inside it.           *)
(***************************************************************************)
EXTENDS Integers, Sequences, FiniteSets, SequencesExt

CONSTANTS
  Spans,     \* the spans that the program opens
  ParentOf,  \* ParentOf[s]: the span that s is opened in, or None
  TestNamed, \* the spans named "test"
  Recording, \* the spans that record a field after they opened
  Ids,       \* the ids of tracing: the bound on spans open at once
  MaxEvents, \* bounds on the events of each origin
  None,      \* no span, id, query or string
  Root       \* the origin of events outside of every span

Origins == Spans \cup {Root}
SpanIds == 0 .. Cardinality(Spans) - 1

ASSUME SpansAssumption == IsFiniteSet(Spans) /\ None \notin Spans /\ Root \notin Spans
ASSUME ParentAssumption == ParentOf \in [Spans -> Spans \cup {None}]
ASSUME NamesAssumption == TestNamed \subseteq Spans /\ Recording \subseteq Spans
ASSUME IdsAssumption == None \notin Ids /\ None \notin SpanIds /\ None # Root
ASSUME EventsAssumption == MaxEvents \in [Origins -> Nat]

VARIABLES
  phase,        \* where each span is
  id,           \* the registry: the tracing id of an open span
  root_span,    \* events of the root, of no span
  sub_spans,    \* SpanEntry of each persistent id
  live_spans,   \* tracing id to persistent id
  test_spans,   \* persistent ids of the spans to print
  next_span_id,
  last_query,   \* the query that cur_string answered
  cur_string,   \* the string made last, None once an event came
  found,        \* found[s]: the persistent id print_span_if_test looked up
  string,       \* string[s]: what on_close is about to print
  stderr,       \* what was printed
  said,         \* history: what each origin told the logger, in order
  noted         \* history: the spans that recorded a field

maps == <<sub_spans, live_spans, test_spans, next_span_id>>
cache == <<last_query, cur_string>>
closing == <<found, string>>
history == <<said, noted>>
vars == <<phase, id, root_span, maps, cache, closing, stderr, history>>

Message(s, n) == [kind |-> "message", of |-> s, n |-> n]
SubSpan(k)    == [kind |-> "span", id |-> k]
Opened(s)     == [kind |-> "span", span |-> s]
NewEntry(s)   == [name |-> s, destroyed |-> FALSE, fields |-> {"id"}, events |-> <<>>]
NoEntry       == [name |-> None, destroyed |-> FALSE, fields |-> {}, events |-> <<>>]

Open   == {"open", "found", "made", "printed"}
Closed == {"closed"}

Init ==
  /\ phase = [s \in Spans |-> "new"]
  /\ id = [s \in Spans |-> None]
  /\ root_span = <<>>
  /\ sub_spans = [k \in SpanIds |-> NoEntry]
  /\ live_spans = [i \in Ids |-> None]
  /\ test_spans = {}
  /\ next_span_id = 0
  /\ last_query = None
  /\ cur_string = None
  /\ found = [s \in Spans |-> None]
  /\ string = [s \in Spans |-> None]
  /\ stderr = <<>>
  /\ said = [s \in Origins |-> <<>>]
  /\ noted = {}

-----------------------------------------------------------------------------
(* A string is the sequence of its lines.  A line is the title of a span   *)
(* (n = 0, with the fields it has) or an event, at its indentation.        *)
Title(s, fields) == [of |-> s, n |-> 0, fields |-> fields, indent |-> 0]
Line(s, n)       == [of |-> s, n |-> n, fields |-> {}, indent |-> 1]
Indented(lines)  == [i \in DOMAIN lines |-> [lines[i] EXCEPT !.indent = @ + 1]]

(* print_span_recursive: a span prints where it was opened.                *)
PrintSpan(k) ==
  LET Lines[j \in SpanIds] ==
        LET e == sub_spans[j] IN
        <<Title(e.name, e.fields)>>
        \o FlattenSeq([i \in DOMAIN e.events |->
             IF e.events[i].kind = "message"
             THEN <<Line(e.events[i].of, e.events[i].n)>>
             ELSE Indented(Lines[e.events[i].id])])
  IN Lines[k]

Cached_AnyQuery(query) == cur_string # None
Cached(query) == query = last_query /\ cur_string # None
Answer(query) == IF Cached(query) THEN cur_string ELSE PrintSpan(query)

-----------------------------------------------------------------------------
Count(s) == Cardinality({i \in DOMAIN said[s] : said[s][i].kind = "message"})

(* on_event, outside of every span: the event is printed at once.          *)
OnRootEvent ==
  /\ Count(Root) < MaxEvents[Root]
  /\ cur_string' = None
  /\ LET m == Message(Root, Count(Root) + 1) IN
     /\ root_span' = Append(root_span, m)
     /\ stderr' = Append(stderr, <<Line(Root, m.n)>>)
     /\ said' = [said EXCEPT ![Root] = Append(@, m)]
  /\ UNCHANGED <<phase, id, maps, last_query, closing, noted>>

EventSpan_Newest(s) == next_span_id - 1
EventSpan(s) == live_spans[id[s]]

OnEvent(s) ==
  /\ phase[s] = "open" /\ Count(s) < MaxEvents[s]
  /\ cur_string' = None
  /\ LET m == Message(s, Count(s) + 1) IN
     /\ sub_spans' = [sub_spans EXCEPT ![EventSpan(s)].events = Append(@, m)]
     /\ said' = [said EXCEPT ![s] = Append(@, m)]
  /\ UNCHANGED <<phase, id, root_span, live_spans, test_spans, next_span_id,
                 last_query, closing, stderr, noted>>

FreeIds == Ids \ {id[s] : s \in Spans}
FreshSpanId_AfterIncrement == next_span_id + 1
FreshSpanId_CountsLive == Cardinality({i \in Ids : live_spans[i] # None})
FreshSpanId == next_span_id

(* on_new_span: the new span gets a persistent id and a place among the    *)
(* events of its parent.                                                   *)
OnNewSpan(s, i) ==
  LET k == FreshSpanId
      p == ParentOf[s]
  IN
  /\ phase[s] = "new" /\ i \in FreeIds
  /\ p # None => phase[p] = "open"
  /\ phase' = [phase EXCEPT ![s] = "open"]
  /\ id' = [id EXCEPT ![s] = i]
  /\ next_span_id' = next_span_id + 1
  /\ live_spans' = [live_spans EXCEPT ![i] = k]
  /\ IF p = None
     THEN /\ root_span' = Append(root_span, SubSpan(k))
          /\ sub_spans' = [sub_spans EXCEPT ![k] = NewEntry(s)]
          /\ said' = [said EXCEPT ![Root] = Append(@, Opened(s))]
     ELSE /\ root_span' = root_span
          /\ sub_spans' = [sub_spans EXCEPT ![live_spans[id[p]]].events = Append(@, SubSpan(k)),
                                            ![k] = NewEntry(s)]
          /\ said' = [said EXCEPT ![p] = Append(@, Opened(s))]
  /\ test_spans' = IF s \in TestNamed THEN test_spans \cup {k} ELSE test_spans
  /\ UNCHANGED <<cache, closing, stderr, noted>>

OnRecord(s) ==
  /\ phase[s] = "open" /\ s \in Recording \ noted
  /\ noted' = noted \cup {s}
  /\ sub_spans' = [sub_spans EXCEPT ![live_spans[id[s]]].fields = @ \cup {"recorded"}]
  /\ UNCHANGED <<phase, id, root_span, live_spans, test_spans, next_span_id, cache,
                 closing, stderr, said>>

-----------------------------------------------------------------------------
(* on_close *)

CanClose(s) ==
  /\ phase[s] = "open"
  /\ \A c \in Spans : ParentOf[c] = s => phase[c] \notin Open

(* print_span_if_test: under the lock, is this a test to print?            *)
PrintSpanIfTest(s) ==
  LET k == live_spans[id[s]] IN
  /\ CanClose(s)
  /\ found' = [found EXCEPT ![s] = k]
  /\ phase' = [phase EXCEPT ![s] = IF k \in test_spans THEN "found" ELSE "printed"]
  /\ UNCHANGED <<id, root_span, maps, cache, string, stderr, history>>

(* string_query, under the lock again; others went on in between.          *)
StringQuery(s) ==
  /\ phase[s] = "found"
  /\ string' = [string EXCEPT ![s] = Answer(found[s])]
  /\ last_query' = found[s]
  /\ cur_string' = Answer(found[s])
  /\ phase' = [phase EXCEPT ![s] = "made"]
  /\ UNCHANGED <<id, root_span, maps, found, stderr, history>>

(* eprintln!, without the lock.                                            *)
Eprintln(s) ==
  /\ phase[s] = "made"
  /\ stderr' = Append(stderr, string[s])
  /\ phase' = [phase EXCEPT ![s] = "printed"]
  /\ UNCHANGED <<id, root_span, maps, cache, closing, history>>

(* The rest of on_close; then the registry may use the id again.           *)
OnClose(s) ==
  LET k == live_spans[id[s]] IN
  /\ phase[s] = "printed"
  /\ IF k = None
     THEN UNCHANGED <<sub_spans, live_spans>>
     ELSE /\ sub_spans' = [sub_spans EXCEPT ![k].destroyed = TRUE]
          /\ live_spans' = [live_spans EXCEPT ![id[s]] = None]
  /\ phase' = [phase EXCEPT ![s] = "closed"]
  /\ id' = [id EXCEPT ![s] = None]
  /\ UNCHANGED <<root_span, test_spans, next_span_id, cache, closing, stderr, history>>

Next ==
  \/ OnRootEvent
  \/ \E s \in Spans :
       \/ OnEvent(s)
       \/ \E i \in Ids : OnNewSpan(s, i)
       \/ OnRecord(s)
       \/ PrintSpanIfTest(s)
       \/ StringQuery(s)
       \/ Eprintln(s)
       \/ OnClose(s)

Spec == Init /\ [][Next]_vars

-----------------------------------------------------------------------------
(* TypeOK: the maps of MapLoggerInner hold ids and entries; a span that is *)
(* open has an id of the registry, any other has none.  What the strings   *)
(* hold is LogsAsIfSequential.                                             *)
Items   == [kind : {"message"}, of : Origins, n : Nat] \cup [kind : {"span"}, id : SpanIds]
Entries == [name : Spans \cup {None}, destroyed : BOOLEAN,
            fields : SUBSET {"id", "recorded"}, events : Seq(Items)]
Said    == [kind : {"message"}, of : Origins, n : Nat] \cup [kind : {"span"}, span : Spans]

TypeOK ==
  /\ phase \in [Spans -> Open \cup Closed \cup {"new"}]
  /\ id \in [Spans -> Ids \cup {None}]
  /\ root_span \in Seq(Items)
  /\ sub_spans \in [SpanIds -> Entries]
  /\ live_spans \in [Ids -> SpanIds \cup {None}]
  /\ test_spans \subseteq SpanIds
  /\ next_span_id \in Nat
  /\ last_query \in SpanIds \cup {None}
  /\ found \in [Spans -> SpanIds \cup {None}]
  /\ said \in [Origins -> Seq(Said)]
  /\ noted \subseteq Spans
  /\ \A s \in Spans : (id[s] = None) <=> (phase[s] \notin Open)

(* LookupsSucceed: the handlers index live_spans with ids of the registry, *)
(* which recycles them, and panic (poisoning the lock for all tests) on an *)
(* id that is not there.  From on_new_span to the end of on_close the id   *)
(* of a span leads to the entry of that very span, and no other id leads   *)
(* anywhere (log.rs:268, :303, :344, :362).                                *)
LookupsSucceed ==
  /\ \A s \in Spans : phase[s] \in Open =>
       /\ live_spans[id[s]] # None
       /\ sub_spans[live_spans[id[s]]].name = s
  /\ \A i \in Ids : live_spans[i] # None => \E s \in Spans : phase[s] \in Open /\ id[s] = i

(* EntriesFaithful: whatever the threads do at once, the entry of a span   *)
(* lists what was said in that span and nothing else, in order, with the   *)
(* spans opened inside it at the point where they were opened.             *)
Matches(e, h) == /\ e.kind = h.kind
                 /\ e.kind = "message" => e = h
                 /\ e.kind = "span" => sub_spans[e.id].name = h.span

Faithful(e, h) == Len(e) = Len(h) /\ \A i \in DOMAIN e : Matches(e[i], h[i])

EntriesFaithful ==
  \A k \in SpanIds : k < next_span_id =>
    Faithful(sub_spans[k].events, said[sub_spans[k].name])

(* What the log of span s looks like if nothing else runs.                 *)
Alone(s) ==
  LET Lines[u \in Spans] ==
        <<Title(u, {"id"} \cup {f \in {"recorded"} : u \in noted})>>
        \o FlattenSeq([i \in DOMAIN said[u] |->
             IF said[u][i].kind = "message"
             THEN <<Line(u, said[u][i].n)>>
             ELSE Indented(Lines[said[u][i].span])])
  IN Lines[s]

(* LogsAsIfSequential: on_new_span keeps the place of a span in its parent *)
(* so that printing "reconstitutes the logs of a sequential execution"     *)
(* (log.rs:316-319).  Everything on stderr is an event of no span or the   *)
(* whole log of one test, as it would be if the test ran alone, and every  *)
(* test is printed exactly once, by the time its span has closed.          *)
LogsAsIfSequential ==
  /\ \A i \in DOMAIN stderr :
       \/ \E n \in 1 .. Count(Root) : stderr[i] = <<Line(Root, n)>>
       \/ \E s \in TestNamed : stderr[i] = Alone(s)
  /\ \A s \in TestNamed :
       Cardinality({i \in DOMAIN stderr : stderr[i][1].of = s})
         = IF phase[s] \in {"printed", "closed"} THEN 1 ELSE 0

=============================================================================
