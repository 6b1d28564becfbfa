SPECIFICATION MCSpec
CONSTANTS
  Docs <- MCDocs
  Files <- MCFiles
  BadFiles <- MCBadFiles
  Rootless <- MCRootless
  Tables <- MCTables
  Environment <- MCEnvironment
  Options <- MCOptions
  EventFiles <- MCEventFiles
  Missing = {missing}
  Malformed = {malformed}
  RootlessFiles = {rootless}
  NoDoc = NoDoc
  Partial = Partial
  SkipCounts <- MCSkipCounts
  MaxDepth = 3
  MaxGiven = 5
INVARIANTS
  DocumentsAreResolved
  FailuresHaveAReason
  EventsAreGivenInOrder
  MovesMatchEvents
PROPERTIES
  ParsingEnds
  LoopEnds
CHECK_DEADLOCK FALSE
