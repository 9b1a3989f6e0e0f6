SPECIFICATION RefitSpec
CONSTANTS
  Replicas = {a}
  NRanks = 2
  NParams = 3
  ParamBytes = {1, 2, 3}
  FreeBytes = {2, 4}
  MayFail = TRUE
INVARIANTS HandlesAlive LeadersUpdated
PROPERTY Ends
CHECK_DEADLOCK FALSE
