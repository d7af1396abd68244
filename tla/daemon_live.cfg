SPECIFICATION FairSpec
CONSTANTS
    Width = 2
    Dev <- MCDev
    Names <- MCNames
    NonPrivate = {}
    Files <- MCFiles
    Flags <- FirstFlags
    Hosts <- FirstHost
    Tickers = {"refresh"}
    LocalSources = {}
    TextSources = {}
    BrokenLines = {}
    ForeignRoutes <- MCForeign
    ForeignRules <- NoForeignRules
    MaxFaults = 1
    MaxActs = 2
PROPERTIES ImplementsReconcile ShutdownEnds FileTakesEffect
CHECK_DEADLOCK FALSE
