SPECIFICATION MCSpec
CONSTANTS
  One = 60
  Absent = Absent
  Tests = {t}
  Elements = {x, y}
  Values <- MCValues
  Qualities <- MCQualities
  None = None
  Objects <- MCObjects
  PluginTests <- MCPluginTests
  Limits <- MCTestLimits
  PValues <- MCPValues
  Parameters <- MCParameters
  Errors = {0, 1}
  ByX <- MCByX
INVARIANTS
  FlagsAreMonotone
  XmlTestsAreSound
  CleanExitIsEarned
PROPERTY TestsAreFair
CHECK_DEADLOCK FALSE
