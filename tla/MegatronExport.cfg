SPECIFICATION Spec
CONSTANTS
  Models <- CheckedModels
INVARIANTS ExportedWhole
