SPECIFICATION Spec
CONSTANTS
  c1 = c1
  c2 = c2
  None = None
  Callers <- TwoCallers
  MaxToken = 4
PROPERTY ImplementsTokenSource
CHECK_DEADLOCK FALSE
