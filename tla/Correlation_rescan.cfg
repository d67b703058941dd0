CONSTANTS
  Scans = {1, 2}
  NumFiles = 3
  Unlisted = {3}
  Rules <- TwoRules
  Values <- ThreeValues
  Offsets = {0, 4}
  Trees <- AnyTree
  Patterns <- Suppressible
  Threshold = 3
  Strings <- FewStrings
  Cap = 3
  Unreadable = {{}, {1}}
  MaxActive = 1
  Digest <- Place10
SPECIFICATION Spec
CHECK_DEADLOCK FALSE
INVARIANTS
  SameFindings
