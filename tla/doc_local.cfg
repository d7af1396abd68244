SPECIFICATION Spec
CONSTANTS
    Width = 2
    Dev <- MCDev
    Names <- MCNames
    NonPrivate <- MCNonPrivate
    Procs = {"daemon"}
    Daemons = {"daemon"}
    Configs <- LocalConfigs
    Worlds <- LocalWorlds
    Kinds = {"apply", "cleanup"}
    ForeignRoutes = {}
    ForeignRules <- MCForeignRules
    MaxFaults = 0
INVARIANTS LocalIPsExcluded
