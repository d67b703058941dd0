CONSTANTS
  n1 = n1  n2 = n2
  Names <- TwoNames
  RootName = n1
  SlugOf <- SameSlug
  Sizes <- EmptyOrOne
  MaxDepth = 1
  MaxFiles = 4
  MaxBytes = 3
SPECIFICATION Spec
INVARIANTS
  CapsHold
  NodesArePaidFor
  UnlistedIsExplained
  UnopenedIsExplained
PROPERTIES
  SiblingsUntouched
