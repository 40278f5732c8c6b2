CONSTANTS
  Key = {k1, k2}
  Atom = {a}
  Comma = comma
  Second = 1
  MaxTime = 2
  MaxLen = 0
  Seconds <- SecondsDef
  Millis <- PurgeMillis
SPECIFICATION FairSpec
PROPERTY StaleKeysAreReclaimed
