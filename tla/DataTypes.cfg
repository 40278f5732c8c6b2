CONSTANTS
  Key = {k1, k2}
  Member = {1, 2}
  Number = {1, 2}
  MaxArgs = 2
  ContainerSurroundings <- ChosenContainers
  SeriesKey = {s, d}
  Source = {s}
  MaxTimestamp = 3
  Value = {1, 2}
  Rule <- ChosenRules
  Retention = {1}
  MaxSamples = 3
  MaxRules = 1
  SeriesSurroundings <- ChosenSeries
  Item = {1, 2, 3, 4}
  Fingerprint <- ChosenFingerprint
  Hash <- ChosenHash
  HashOf <- ChosenHashOf
  IndexBits = {0, 1}
  BucketSize = 1
  MaxIterations = 3
  MaxCopies = 2
  Careless <- EitherWay
  Doc = {1, 2}
  Prefixes <- ChosenPrefixes
  Term = {1, 2}
  Price = {1, 2}
  NoNumber = none
  Document <- ChosenDocuments
  Includes <- ChosenIncludes
  Element = {x, y}
  Exact = 2
  Widest = 4
  Amounts <- ChosenAmounts
  MaxLen = 3
  RangeSurroundings <- ChosenRanges
  Group = {g}
  Consumer = {c1, c2}
  Explicit = {11}
  Counts = {2}
  MaxTime = 2
  MaxAdded = 3
SPECIFICATION Spec
SYMMETRY Alike
CHECK_DEADLOCK FALSE
INVARIANTS ContainersAgree SeriesAgree FiltersFindWhatIsThere DocumentIndexAgrees
INVARIANTS RangesAgree PendingMatchesConsumers GroupsReadEachEntryOnce
PROPERTY FailuresTouchOneKey
