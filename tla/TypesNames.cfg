SPECIFICATION Spec
CONSTANTS
  Programs <- SmallPrograms
  Langs <- RustOnly
INVARIANTS NamesDeclaredFirst
