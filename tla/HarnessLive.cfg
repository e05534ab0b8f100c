SPECIFICATION FairSpec
CONSTANTS
  Plan <- SharedPlan
  Subtests <- One
  RulesOf <- SharedRules
  Permits = 1
  MinWriter = "print"
  Inactive <- None
  GenFate <- AnyGen
  BuildFate <- AnyBuild
  LinkFate <- AnyResult
  RunFate <- AnyResult
  CheckFate <- AnyMismatch
  Panics <- AnyPanic
PROPERTIES ImplementsMemo ImplementsSuite Terminates EveryTaskEnds
