---------------------------- MODULE MCMapLogger ----------------------------
(***************************************************************************)
(* Three tests, one with a span inside it and one that logs nothing, on    *)
(* three tracing ids.                                                      *)
(***************************************************************************)
EXTENDS MapLogger

CONSTANTS t1, t2, t3, child, i1, i2, i3

AllSpans == {t1, t2, t3, child}
Tests    == {t1, t2, t3}
Parents  == [s \in AllSpans |-> IF s = child THEN t1 ELSE None]
Recorders == {t2}
EventBounds == [s \in AllSpans \cup {Root} |-> IF s = t3 THEN 0 ELSE 1]
TracingIds == {i1, i2, i3}
SymmetricIds == Permutations(TracingIds)
=============================================================================
