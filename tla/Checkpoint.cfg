SPECIFICATION Spec
CONSTANTS
  MaxStep = 4
  KeepTopK = 1
  Metrics = {0, 1}
  MaxCrashes = 1
INVARIANTS LatestLoadable
PROPERTIES ImplementsStore CopyKept
CHECK_DEADLOCK FALSE
