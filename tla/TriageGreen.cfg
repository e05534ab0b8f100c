SPECIFICATION Spec
CONSTANTS
  Plan <- OnePlan
  Builtin <- NoRules
  Fates <- AnyFate
INVARIANTS SuggestionsMakeGreen
