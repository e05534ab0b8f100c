SPECIFICATION Spec
CONSTANTS
  Plan <- CafePlan
  Builtin <- CafeBuiltin
  Fates <- CafeFates
INVARIANTS LastPhaseSettles OnlyMatchedMove ChangeIsNoticed UnsupportedNeverFails
