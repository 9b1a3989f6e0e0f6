SPECIFICATION Spec
CONSTANTS
  MaxSteps = 5
  LoaderLen = 6
  ValPeriod = 2
  SavePeriod = 4
  ValAtStart = TRUE
  Configs <- CheckedConfigs
  MaxCrashes = 3
INVARIANTS OnPolicyTraining ExclusiveMemory FreshUnlessRefused CheckpointConsistent RelaunchCostBounded
PROPERTIES ImplementsOnPolicy Terminates
CHECK_DEADLOCK FALSE
