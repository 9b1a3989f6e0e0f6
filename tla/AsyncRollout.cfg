SPECIFICATION Spec
CONSTANTS
  Samples = {1, 2}
  TurnLimit = 2
  TurnChoices = {1, 2, 3}
  NShards = 2
INVARIANTS DroppedForCause
PROPERTIES ImplementsEpisodes Returns
CHECK_DEADLOCK FALSE
