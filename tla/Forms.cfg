CONSTANTS
  Pages <- MCPages
  Texts <- MCTexts
  Numbers <- MCNumbers
  Counts <- MCCounts
  SecretsOf <- MCSecretsOf
  TemplateParts <- MCTemplateParts
  ModelLists <- MCModelLists
  AbsolutePaths = {"/ask"}
  PresetIds = {"blank", "claude_code"}
  Spaces = {"a1"}
  MaxEdits <- MCMaxEdits
  MaxRows <- MCMaxRows
  MaxWaiting = 2
SPECIFICATION Spec
INVARIANTS
  ShownIsSent
  SentIsShown
  RefsWereOffered
  PassesServerChecks
