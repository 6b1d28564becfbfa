SPECIFICATION MCSpec
CONSTANTS
  Servers <- MCServers
  NoServer = "none"
  Tables <- MCTables
  Parameters <- MCParameters
  Values <- MCValues
  NoValue = "unset"
  MaxHandles = 3
  Processes <- MCProcesses
  Workloads <- MCWorkloads
  Databases = {"d"}
  HostName = "pc1"
  Bases = {"f"}
  RunNumbers = {3}
  Paths <- MCPaths
  Names <- MCNames
  Suffixed <- MCSuffixed
  ObjectValues = {1, 2}
  NoObject = 0
  Reference = 9
  Referenced <- MCReferenced
  TopDirs <- MCTopDirs
  Elements <- MCElements
  MaxId = 1
  MaxEntries = 3
  MaxOwn = 2
  Interfaces = {"eth0", "lo"}
  Base = 4
  SampleTime = 2
  MaxTraffic = 3
  MaxTicks = 2
  MaxCalls = 3
INVARIANTS
  ConnectedHandlesAreOpen
  PushesStoreTheirSections
  CreatedUsersCanWork
  FirstArchiveIsComplete
  RatesAreOfTheInterval
  LoadsAreShares
PROPERTY ArchivesArePreserved
CHECK_DEADLOCK FALSE
