SPECIFICATION Spec
CONSTANTS
  Ty <- Types
  Programs <- MCPrograms
  Draws <- MCDraws
  Depth <- MCDepth
  MinWriters = {"harness", "assert", "print", "noop"}
INVARIANTS PunCountsDiffer
