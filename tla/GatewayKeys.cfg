SPECIFICATION Spec
CONSTANTS
  s1 = s1
  c1 = c1
  c2 = c2
  Calls <- MCCalls
  SecretNames <- MCSecretNames
  MaxKeys = 2
  PageSize = 1
SYMMETRY MCSymmetry
INVARIANTS
  ShowsLatestSubmission
  DeletedStaysGone
  ListComplete
