SPECIFICATION FairSpec
CONSTANTS
  c1 = c1
  c2 = c2
  c3 = c3
  None = None
  Callers <- TwoCallers
  MaxToken = 3
  Lifetime = 5
  MintTimeout = 1
INVARIANTS
  TypeOK
  CachedTokenLive
PROPERTIES
  RefreshIsNew
  CallsReturn
  ImplementsTokenSource
CHECK_DEADLOCK FALSE
