SPECIFICATION FairSpec
CONSTANTS
    Width = 2
    Dev <- MCDev
    Names <- MCNames
    NonPrivate <- MCNonPrivate
    Procs = {"daemon", "cli"}
    Daemons = {"daemon"}
    Configs <- RaceConfigs
    Worlds <- LiveWorlds
    Kinds = {"apply"}
    ForeignRoutes = {}
    ForeignRules <- MCForeignRules
    MaxFaults = 2
PROPERTIES EventuallyConverged
