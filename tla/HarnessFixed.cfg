SPECIFICATION Spec
CONSTANTS
  Plan <- FixedPlan
  Subtests <- Two
  RulesOf <- FixedRules
  Permits = 1
  MinWriter = "print"
  Inactive <- None
  GenFate <- FixedGen
  BuildFate <- FixedBuild
  LinkFate <- AlwaysOk
  RunFate <- AlwaysOk
  CheckFate <- AllMismatch
  Panics <- None
INVARIANTS AsIfAlone EndComplete
