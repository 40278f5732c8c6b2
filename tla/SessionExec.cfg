CONSTANTS
  Conn = {c1}
  Db = {0}
  Selected = {}
  Kind = {"MULTI", "EXEC", "write", "throw"}
  Roles = {"master"}
  MaxSent = 5
  MaxCloses = 0
SPECIFICATION Spec
CHECK_DEADLOCK FALSE
SYMMETRY Alike
INVARIANT OnceAndInOrder
