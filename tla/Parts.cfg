SPECIFICATION PSpec
CONSTANTS
  None = None
  NSockets = 3
  NSpd = 3
  Inventory <- MemInventory
  SpdMachines <- MCSpdMachines
  MemMachines <- MCMemMachines
  Buses <- MCBuses
  SecDevices = {"a", "b"}
  SecScanned <- MCSecScanned
  SecUnreadable = {"input", "modules", "filesystems"}
  SecMaxScans = 2
  ModDeps <- MCModDeps
  ModWeight <- MCModWeight
  ModRequests <- MCModRequests
  ModMaxDepth = 5
  WinEntries = {"slow", "bench", "overview"}
  WinBench = {"bench"}
  WinOverview = "overview"
  WinSummary = "computer"
  WinBare = "devices"
  WinMaxDepth = 3
  BenchOrder <- MCBenchOrder
  BenchMeasured <- MCBenchMeasured
  BenchFiles <- MCBenchFiles
  BenchAsked <- MCBenchAsked
  BenchMaxShown = 2
  RepTree <- MCRepTree
  RepForced = {TRUE, FALSE}
  CpuFiles <- MCCpuFiles
  CpuMachines <- MCCpuMachines
  CpuMaxCores = 4
  ExprOperators <- MCExprOperators
  ExprNumbers = {"1"}
  SensConfigs <- MCSensConfigs
  SensMachines <- MCSensMachines
  SensMaxScans = 2
  SvdPixels <- MCSvdPixels
  DtTrees <- MCDtTrees
  DtRoot = "root"
  IdsMachines <- MCIdsMachines
  IdsDatabases <- MCIdsDatabases
  IdsRanges <- MCIdsRanges
  IdsMaxLists = 2
  VenFiles <- MCVenFiles
  VenBuiltin <- MCVenBuiltin
  VenTexts <- MCVenTexts
  VenLower <- MCVenLower
  VenDigits = {"1"}
  GraphValues <- MCGraphValues
  GraphSize = 3
  GraphPeriod = 2
  GraphHeight = 10
  Infos <- MCInfos
  Formulas <- MCFormulas
  Edids <- MCEdids
INVARIANTS
  ShownOnce
  Stable
  ChipsAreRead
  RowsHaveTheirDetails
  ModulesAreLoaded
  UsableAtRest
  AmongNeighbours
  EachFieldShown
  ReportIsAsTicked
  CpusAreRight
  SystemIsRead
  DevicesAreNamed
  CurveStaysInside
CHECK_DEADLOCK FALSE
