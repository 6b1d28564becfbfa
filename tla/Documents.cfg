SPECIFICATION MCSpec
CONSTANTS
  MaxNodes = 4
  Tags = {"a"}
  Text = "a"
  Attributes = {"x"}
  Values = {"1"}
  Files <- MCFiles
  Documents <- MCDocuments
INVARIANTS
  SavedDocumentsAreLoaded
  AcceptedFilesAreBalanced
PROPERTIES
  ImplementsTree
  WholeFilesAreLoaded
