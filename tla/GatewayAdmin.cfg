SPECIFICATION FairSpec
CONSTANTS
  Versions = 2
  MaxModels = 1
INVARIANTS
  AdminTypeOK
  OneMasterKey
PROPERTIES
  CallsEnd
  DeletedLeaves
