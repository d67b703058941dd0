CONSTANTS
  Logged = "static"
  Kinds <- SecretAndEcho
  MaxLines = 2
  Size <- PlainSizes
  MaskedSize <- MaskedSizes
  Cap = 2
  ShowLogs = TRUE
  Watchers = TRUE
SPECIFICATION FairSpec
INVARIANTS
  NothingLost
  PhaseIsEarned
  ExitCodesAreEarned
PROPERTIES
  ScanEnds
  WatcherLearnsTheEnd
