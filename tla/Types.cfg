SPECIFICATION Spec
CONSTANTS
  Programs <- SmallPrograms
  Langs <- BothLangs
INVARIANTS TypeOK RejectedIffSelfHolding ContainsRefExact WorklistBounded SubsetIsClosed
  LookupsFailOnlyInTangles
