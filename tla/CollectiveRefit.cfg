SPECIFICATION Spec
CONSTANTS
  Replicas = {a, b}
  NRanks = 2
  NTrainers = 2
  NParams = 2
  Depths = {1, 2}
  MaxSteps = 2
  MaxRaises = 2
INVARIANT CurrentWeights
PROPERTY Served
CHECK_DEADLOCK FALSE
