SPECIFICATION AuthFairSpec
CONSTANTS
  r1 = r1
  r2 = r2
  Callers <- MCRpcs
  MaxToken = 3
INVARIANTS
  AuthTypeOK
  ExecutedOnce
  RetryIsFresh
PROPERTY RpcEnds
CHECK_DEADLOCK FALSE
