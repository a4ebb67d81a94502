SPECIFICATION ActorFairSpec
CONSTANTS
  a1 = a1
  Names <- MCNames
  MaxChanges = 2
  MaxCalls = 2
INVARIANTS
  ViewNotOlderThanAction
PROPERTY ShownConverges
