SPECIFICATION Spec
CONSTANTS
  Pages <- MCPages
  Objects <- MCObjects
  Initial <- MCInitial
  Namespaces <- MCNamespaces
  DefaultNamespace = "default"
  MaxChanges = 1
  MaxCalls = 1
INVARIANTS
  RowsOfNamespace
  ListNotOlderThanReport
