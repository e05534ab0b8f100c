SPECIFICATION Spec
CONSTANTS
  t1 = t1
  t2 = t2
  t3 = t3
  child = child
  i1 = i1
  i2 = i2
  i3 = i3
  None = None
  Root = Root
  Spans <- AllSpans
  ParentOf <- Parents
  TestNamed <- Tests
  Recording <- Recorders
  Ids <- TracingIds
  MaxEvents <- EventBounds
SYMMETRY SymmetricIds
INVARIANTS TypeOK LookupsSucceed EntriesFaithful LogsAsIfSequential
CHECK_DEADLOCK FALSE
