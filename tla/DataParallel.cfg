SPECIFICATION Spec
CONSTANTS
  Calls <- CheckedCalls
  Batches <- CheckedBatches
  Budget = 4
  Round = 2
INVARIANTS CollectivesMatch UpdatesFollowChunks RowsInCallersOrder WithinBudget FailsForCause
PROPERTY Returns
CHECK_DEADLOCK FALSE
