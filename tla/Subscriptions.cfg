CONSTANTS
  Conn = {c1, c2}
  Db = {d0, d1}
  Key = {k1, k2}
  Value = {a}
  Plain = {"news"}
  Message = {m1, m2}
  Channel <- ChosenChannels
  Flags <- ChosenFlags
  FirstFlags <- StartFlags
  Surroundings <- ChosenSurroundings
  MaxCommands = 5
SPECIFICATION Spec
SYMMETRY Alike
CHECK_DEADLOCK FALSE
INVARIANTS RegistrationsAgree EventsAreTrue CacheIsFresh
