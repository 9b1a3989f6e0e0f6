SPECIFICATION Spec
CONSTANTS
  N = 3
  Tasks = {a, b}
  TurnLimit = 2
  TurnChoices = {1, 2, 3}
  NScorers = 2
INVARIANTS LogsOwn
PROPERTIES ImplementsEpisodes Returns
CHECK_DEADLOCK FALSE
