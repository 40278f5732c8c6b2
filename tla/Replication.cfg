CONSTANTS
  x = x
  y = y
  stream = stream
  l1 = l1
  Master = {m}
  Cmd = {x, y, stream}
  Propagated = {x, y, stream}
  Unserializable = {stream}
  Link = {l1, l2}
  Settings <- ChosenSettings
  MaxTimers = 2
  MaxRestarts = 1
SPECIFICATION FairSpec
CHECK_DEADLOCK FALSE
INVARIANTS TypeOK StreamIsExact FollowerIsExactWhenGraceful
PROPERTY CatchesUpWhenGraceful
