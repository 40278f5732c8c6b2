CONSTANTS
  Conn = {c1, c2}
  Db = {0, 1}
  Selected = {1}
  Kind = {"SELECT", "MULTI", "EXEC", "DISCARD", "write", "read", "later"}
  Roles = {"master", "replica"}
  MaxSent = 4
  MaxCloses = 1
SPECIFICATION Spec
CHECK_DEADLOCK FALSE
SYMMETRY Alike
INVARIANTS TypeOK OnceAndInOrder CallsAreAnswered
