CONSTANTS
  p1 = p1  h1 = h1  h2 = h2  p2 = p2  o1 = o1  q1 = q1
  Nobody = Nobody
  Services <- TwoServices
  Handlers <- TwoHandlers
  Operators <- OneOperator
  Requests <- OneRequest
  Names <- OneName
  Bootstrap = "bootstrap"
  Scopes <- CiOnly
  Databases <- AnyAge
  MaxTokens = 2
SPECIFICATION FairSpec
CHECK_DEADLOCK FALSE
INVARIANTS
  OnlyARaceRepeats
PROPERTIES
  EveryoneServes
  RevocationBites
