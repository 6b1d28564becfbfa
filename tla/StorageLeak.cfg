SPECIFICATION IterateSpec
CONSTANTS
  Dirs = {d0, d1, d2, d3}
  Root = d0
  NoDir = NoDir
  Objects = {o1, o2}
  PathObjects = {o1}
  MaxPlaced = 2
  MaxChanges = 1
  NoObject = NoObject
  Names <- MCNames
  StartsWith <- MCStartsWith
  PathArgs <- MCPathArgs
INVARIANT
  RemovedAreDestroyed
SYMMETRY MCSymmetry
