CONSTANTS
  f1 = f1  f2 = f2  t1 = t1
  Findings <- TwoFindings
  Rank <- HighAndMedium
  LastDay = 0
  Policies <- BlocksMediumOnly
  Triagers <- OneTriager
  HumanStatuses <- OpenOrDismiss
  Verdicts <- AnyVerdict
  WaiverFiles <- NoWaiverFile
  Baselines <- NoBaseline
SPECIFICATION Spec
CHECK_DEADLOCK FALSE
INVARIANTS
  ModelCannotOpenGate
