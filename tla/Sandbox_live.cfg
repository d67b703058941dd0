CONSTANTS
  Containers = {c1, c2}
  Leftover = {c2}
  MayStick = {c1, c2}
  Reapers = {r1}
  MaxSweepDeaths = 1
SPECIFICATION LiveSpec
CHECK_DEADLOCK FALSE
INVARIANTS
  CompletedIsEarned
PROPERTIES
  CallsReturn
  ContainersGo
