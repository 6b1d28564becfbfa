SPECIFICATION MCSpec
CONSTANTS
  Libraries = {"streamer", "clash", "missing"}
  PluginsOf <- MCPluginsOf
  CorePlugins <- MCCorePlugins
  MaxLoads = 1
  Bases <- MCBases
  NoBase = "cleared"
  Contents <- MCContents
  Unknown = "other"
  Garbage = "garbage"
  MaxParts = 6
  MaxLost = 2
  Objects = {o1, o2, o3}
  Null = Null
  Handles = {h}
  Elements = {e}
  Wrappers = {w}
  x1 = x1
  x2 = x2
  k1 = k1
  k2 = k2
  v1 = v1
  v2 = v2
  NoObject = NoObject
  Records <- MCRecords
  MaxRecords = 2
  MaxFailures = 1
SYMMETRY AnyObject
INVARIANTS
  ReadsWhatWasWritten
  LoadedPluginsAreFound
  ObjectsHaveOneOwner
  ReadsAreWhole
CHECK_DEADLOCK FALSE
