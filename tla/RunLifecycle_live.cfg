CONSTANTS
  r1 = r1  r2 = r2  w1 = w1  w2 = w2  h1 = h1  h2 = h2
  NoRun = NoRun
  Runs <- OneRun
  Workers <- TwoWorkers
  HeavyWorkers <- OneHeavy
  MaxRequeue = 1
  MaxMsgs = 1
  Results <- CleanOnly
SPECIFICATION FairSpec
PROPERTIES
  RunsSettle
  GhidraStageCloses
