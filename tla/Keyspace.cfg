CONSTANTS
  Key = {k1, k2}
  Atom = {a, b}
  Comma = comma
  Second = 2
  MaxTime = 2
  MaxLen = 1
  Seconds <- SecondsDef
  Millis <- MillisDef
SPECIFICATION Spec
VIEW StoreView
SYMMETRY Alike
CHECK_DEADLOCK TRUE
INVARIANTS TypeOK ExpiresOnlyHeldKeys
PROPERTIES ImplementsLogicalKeyspace ExpiredEventMeansGone
