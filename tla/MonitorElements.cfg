SPECIFICATION MCSpec
CONSTANTS
  e1 = e1
  e2 = e2
  m = m
  n = n
  t1 = t1
  t2 = t2
  Elements = {e1, e2}
  Paths <- MCPaths
  ObjNames = {m, n}
  Tests = {t1, t2}
  Renamers = {e1}
  NoElement = NoElement
  StorageFiles <- MCStorageFiles
  RootFiles <- MCRootFiles
  Classes <- MCClasses
  Themes = {"default", "thick"}
  MaxCalls = 3
INVARIANTS
  FoundByPathAndName
  StorageFilesAreReadInOrder
PROPERTY ReportsAreWhole
CHECK_DEADLOCK FALSE
