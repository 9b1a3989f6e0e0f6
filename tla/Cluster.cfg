SPECIFICATION Spec
CONSTANTS
  Setups <- CheckedSetups
  MaxRetries = 2
  MaxShutdowns = 2
  Rows = 5
INVARIANTS ReplicasPlaced RowsInOrder ShutdownTruthful
PROPERTY Ends
CHECK_DEADLOCK FALSE
