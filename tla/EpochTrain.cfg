SPECIFICATION Spec
CONSTANTS
  MaxEpochs = 3
  MaxSteps = 12
  LoaderLen = 3
  ValPeriod = 2
  SavePeriod = 2
  ValAtStart = TRUE
  ValLen = 2
  ValBatches = 0
  MaxCrashes = 3
INVARIANTS EveryBatchOnce NeverBeyondTarget FinalCheckpointSaved
PROPERTY Terminates
CHECK_DEADLOCK FALSE
