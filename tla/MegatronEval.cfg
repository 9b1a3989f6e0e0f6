SPECIFICATION Spec
CONSTANTS
  Calls <- MegatronEval
  Batches <- CheckedBatches
  Budget = 4
  Round = 2
INVARIANT EvalOnlyForward
CHECK_DEADLOCK FALSE
