CONSTANTS
  Servers = {"s1", "s2"}
  NoServer = "none"
  Tables = {"t1", "t2"}
  Parameters = {"p", "q"}
  Values = {"v", "w"}
  NoValue = "unset"
  MaxHandles = 3
SPECIFICATION Spec
PROPERTY DisconnectIsSafe
CHECK_DEADLOCK FALSE
