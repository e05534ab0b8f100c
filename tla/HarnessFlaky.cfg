SPECIFICATION Spec
CONSTANTS
  Plan <- FlakyPlan
  Subtests <- One
  RulesOf <- FlakyRules
  Permits = 1
  MinWriter = "print"
  Inactive <- FlakyInactive
  GenFate <- FlakyGen
  BuildFate <- AnyBuild
  LinkFate <- AnyResult
  RunFate <- AnyResult
  CheckFate <- AnyMismatch
  Panics <- AnyPanic
INVARIANTS TypeOK OneInitializer LimiterConserved SettledInputs PipelineShape CopiesAccountedFor
PROPERTIES CachedLibStable ResultsFinal
