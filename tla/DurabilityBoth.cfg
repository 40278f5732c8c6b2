CONSTANTS
  Db = {0}
  Settings <- BothFiles
  Saver = {s1}
  MaxCrashes = 1
SPECIFICATION Spec
CHECK_DEADLOCK FALSE
PROPERTY RecoversSomePast
