SPECIFICATION Spec
CONSTANTS
    Width = 2
    Dev <- MCDev
    Names <- MCNames
    NonPrivate = {}
    Files <- PanicFiles
    Flags <- BothFlags
    Hosts <- BothHosts
    Tickers = {"refresh"}
    LocalSources = {}
    TextSources <- MCNames
    BrokenLines <- CutLine
    ForeignRoutes = {}
    ForeignRules <- NoForeignRules
    MaxFaults = 2
    MaxActs = 2
INVARIANTS ReloadNotLost ShutdownCleans ExitLeavesOneList
PROPERTIES DryRunTouchesNothing WantedRulesStay
CHECK_DEADLOCK FALSE
