CONSTANTS
  Call = {1, 2, 3}
  Pipeline = {3}
  Socket = {1, 2, 3}
  Surroundings <- ChosenSurroundings
  Left = {0, 1, 6}
  MaxTrouble = 2
SPECIFICATION Spec
CHECK_DEADLOCK FALSE
INVARIANTS CallsAreKeptInOrder AnswersMatchCalls
PROPERTY EveryCallIsSettled
