CONSTANTS
  c1 = c1  c2 = c2  l1 = l1  l2 = l2  j1 = j1
  Nobody = Nobody  Blank = Blank
  Providers <- AllProviders
  Remote <- Elsewhere
  HasUrl <- WithUrl
  LocalUrl <- WithLocalUrl
  UrlIgnored <- Ignoring
  DeclaredLocal <- SaidLocal
  ByHand <- Handwritten
  Packaged <- Shipped
  Found <- Earlier
  Consoles <- TwoConsoles
  Loaders <- TwoLoaders
  HandPolicies <- NotStrict
  MaxEdits = 1
  Jobs <- OneJob
  Retaining <- OneJob
  MaxSteps = 2
CONSTRAINT AnyThree
SPECIFICATION FairSpec
CHECK_DEADLOCK FALSE
INVARIANTS
  OnlyHandsBreakIt
  NothingLeaves
  
  PromptsAreOnRecord

  
