CONSTANTS
  Db = {0, 1}
  Settings <- ChosenSettings
  Saver = {s1, s2}
  MaxCrashes = 2
SPECIFICATION FairSpec
CHECK_DEADLOCK FALSE
INVARIANTS TypeOK LogInOrder BgSaveFlagIsExact SnapshotIsOneMoment
PROPERTIES BgSaveEnds RecoveryIsExactAlone
