SPECIFICATION Spec
CONSTANTS
  Programs <- SmallPrograms
  Langs <- COnly
INVARIANTS DefinedBeforeUsed
