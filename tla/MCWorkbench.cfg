SPECIFICATION MCSpec
CONSTANTS
  NoHop = NoHop
  NoType = NoType
  NoCommit = NoCommit
  NoLock = NoLock
  NoIndex = NoIndex
  NoSuite = NoSuite
  Windows <- MCWindows
  Tree <- MCTree
  Opts <- MCOpts
  Arms <- MCArms
  Reports <- MCReports
  GateRuns = 2
  TaskCap = 1
  MaxKills = 1
  Sessions <- MCSessions
  NoKey = NoKey
  NoCap = NoCap
  MaxSnapshotChars = 120
  MaxAreas = 2
  MaxChangedSymbols = 2
  NPrompts = 2
  Configs <- MCConfigs
  NotANumber = NotANumber
  MaxRuns = 2
  Histories <- MCHistories
  CacheDirs = {TRUE, FALSE}
  NoEntry = NoEntry
  Torn = Torn
  Gone = Gone
  EmptyText = EmptyText
  MaxIngests = 2
  Lines = {"u", "v"}
  NoHook = NoHook
  Unknown = Unknown
  MaxCommands = 3
  MaxEdits = 1
  MainModels = {"m1", "m2"}
  Models = {"m1", "m2", "m3"}
  HelperModel = "m3"
  NoModel = NoModel
  NoEdit = NoEdit
  MaxEvents = 4
  MaxBlocks = 2
  MaxHelperCalls = 1
INVARIANTS
  TreesAreTheirOwn
  OracleIsSound
  HookSettles
  ScoresFollowAnswers
  CorpusIsTheListed
  UserLinesStay
  LedgersBalance
PROPERTY
  HookEnds
CHECK_DEADLOCK FALSE
