CONSTANTS
  Client = {c1, c2}
  List = {q1, q2}
  MaxPushes = 3
  MaxCalls = 2
  MaxTime = 1
  Surroundings <- ChosenSurroundings
  q1 = q1
  q2 = q2
  Pops <- ChosenPops
SPECIFICATION FairSpec
CHECK_DEADLOCK FALSE
INVARIANTS DeliveredOnce AnswersMatchCalls
PROPERTIES NilMeansNothingInTime WaitsEnd
