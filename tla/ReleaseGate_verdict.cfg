CONSTANTS
  f1 = f1  f2 = f2  t1 = t1
  Findings <- TwoFindings
  Rank <- HighAndMedium
  LastDay = 2
  Policies <- AllPolicies
  Triagers <- OneTriager
  HumanStatuses <- AcceptOrDismiss
  Verdicts <- Dismissal
  WaiverFiles <- HandWritten
  Baselines <- OnlyF1
SPECIFICATION Spec
CHECK_DEADLOCK FALSE
INVARIANTS
  FloorHolds
  IncompleteNeverPasses
  UnknownBaselineIsSafest
  StricterNeverOpens
PROPERTIES
  NothingOpensByItself
  WrittenWaiversAreAccepted
